----------------------------- MODULE Workflows -----------------------------
(***************************************************************************)
(* The requests of one project that commit several times: accepting a      *)
(* deviation, committing a plan draft, completing a turn of the design     *)
(* agent, replacing an object or redesigning a photo, deleting the         *)
(* project.  Between two commits anything else may be committed and the    *)
(* process may die.  One step is one transaction, or the reading that      *)
(* comes before one; branches of the history are SceneHistory's subject,   *)
(* and leases are JobQueue's.                                              *)
(***************************************************************************)
EXTENDS Integers, Sequences, FiniteSets

CONSTANTS
  Handlers,    \* requests the API serves at once
  Deviations,  \* deviations an owner records
  Turns,       \* jobs of the design agent
  TurnLength,  \* commands the agent proposes in a turn
  MaxRevs,     \* bound on revisions
  MaxAssets,   \* bound on assets
  MaxQueued,   \* bound on image jobs that are ordered or edit a photo
  MaxRequests, \* bound on requests
  MaxMishaps   \* bound on requests that begin while another is served or die half-way

ASSUME WorkflowsAssumption ==
  /\ TurnLength \in Nat /\ MaxRevs \in Nat /\ MaxAssets \in Nat /\ MaxQueued \in Nat
  /\ MaxRequests \in Nat /\ MaxMishaps \in Nat

VARIABLES
  alive,    \* the row of the project is there
  rev,      \* scene_revisions in creation order; a revision is its position
  approved, \* the project's variant is approved (otherwise archived)
  snap,     \* a progress snapshot: its pinned revision (0: none), soft-deleted or not
  dev,      \* deviations
  draft,    \* plan_drafts in creation order
  turn,     \* jobs of the design agent
  queued,   \* image jobs that wait or run
  asset,    \* rows of assets
  store,    \* files in the object store
  req,      \* the request each handler is serving
  drawn,    \* history: how many asset ids were drawn
  begun,    \* history: requests, requests that began during another, requests that died
  overlaps,
  died

scenes == <<rev, approved>>
progress == <<snap, dev>>
jobs == <<turn, queued>>
files == <<asset, store, drawn>>
counts == <<begun, overlaps, died>>
workflowVars == <<alive, scenes, progress, draft, jobs, files, req, counts>>

Number == 0..MaxRevs \* 0: no revision

\* what a revision was made for
Items ==
  {<<"start", 0>>} \cup ({"edit", "photo", "draft"} \X Nat) \cup ({"deviation"} \X Deviations)
    \cup {<<"turn", j, n>> : j \in Turns, n \in 1..TurnLength}

\* content: the changes its scene contains
Revision == [line : {"canonical", "variant"}, by : Items, content : SUBSET Items]

Revs == 1..Len(rev)

\* the newest revision of a line, 0 if it has none
Tip(line) ==
  LET on == {r \in Revs : rev[r].line = line}
  IN IF on = {} THEN 0 ELSE CHOOSE r \in on : \A q \in on : q <= r

-----------------------------------------------------------------------------
(* Requests *)

Steps == {"idle", "edit", "patch", "fix", "accept", "save", "snapshot", "commit", "instruct",
          "turn", "generate", "preview", "settle", "reject", "put", "row", "revise",
          "queue", "cascade", "files"}

\* who: the deviation or turn it is about; arg: the line, status or kind it is told;
\* seen: its base has been compared with the tip
Idle == [pc |-> "idle", who |-> "nobody", arg |-> "none", base |-> 0, seen |-> FALSE, n |-> 0,
         holds |-> FALSE, scene |-> {}, uses |-> {}, needs |-> 0]

Free(h) == req[h].pc = "idle"

\* handler h takes up a request; it does not matter which one that is free
Serve(h) ==
  /\ Free(h) /\ h = (CHOOSE g \in Handlers : Free(g)) /\ begun < MaxRequests
  /\ begun' = begun + 1
  /\ IF \A g \in Handlers \ {h} : Free(g) THEN UNCHANGED overlaps
     ELSE overlaps + died < MaxMishaps /\ overlaps' = overlaps + 1
  /\ UNCHANGED died

Start(h, r) == Serve(h) /\ req' = [req EXCEPT ![h] = r]
Goto(h, r) == req' = [req EXCEPT ![h] = r] /\ UNCHANGED counts
End(h) == Goto(h, Idle)

\* the process or its database connection dies, what it committed stays
Die(h) ==
  /\ ~Free(h) /\ overlaps + died < MaxMishaps
  /\ req' = [req EXCEPT ![h] = Idle]
  /\ died' = died + 1
  /\ UNCHANGED <<alive, scenes, progress, draft, jobs, files, begun, overlaps>>

\* INSERT of a revision, which the foreign key on the project refuses when it is gone
CanInsert == alive /\ Len(rev) < MaxRevs
Inserted(line, by, content) ==
  rev' = Append(rev, [line |-> line, by |-> by, content |-> content]) /\ UNCHANGED approved

\* the kinds of photo edits that are commands of the scene
OfTheScene == {"object", "blind"}

\* apply_scene_command, apply_variant_command: a command whose base is not the tip is
\* refused, ...
Compare(h) ==
  LET r == req[h]
      line == IF r.pc = "fix" THEN r.arg ELSE "canonical"
  IN /\ ~r.seen
     /\ \/ r.pc \in {"edit", "fix"}
        \/ r.pc = "turn" /\ r.n < TurnLength
        \/ r.pc = "revise" /\ r.arg \in OfTheScene
     /\ Goto(h, IF /\ r.base # 0 /\ Tip(line) = r.base
                   /\ line = "variant" => approved
                THEN [r EXCEPT !.seen = TRUE]
                ELSE IF r.pc = "turn" THEN [r EXCEPT !.pc = "reject"] ELSE Idle)
     /\ UNCHANGED <<alive, scenes, progress, draft, jobs, files>>

\* ... the scene read once more
OntoTip(r, line, by) == Inserted(line, by, rev[Tip(line)].content \cup {by})

\* ... another is applied to the scene that was read, whatever the tip is by now
Onto(r, line, by) == Inserted(line, by, rev[r.base].content \cup {by})

\* an ordinary command of some other client
EditScene(h) ==
  /\ Tip("canonical") # 0
  /\ Start(h, [Idle EXCEPT !.pc = "edit", !.base = Tip("canonical")])
  /\ UNCHANGED <<alive, scenes, progress, draft, jobs, files>>

ApplyEdit(h) ==
  /\ req[h].pc = "edit" /\ req[h].seen
  /\ IF CanInsert THEN Onto(req[h], "canonical", <<"edit", Len(rev) + 1>>) ELSE UNCHANGED scenes
  /\ End(h)
  /\ UNCHANGED <<alive, progress, draft, jobs, files>>

ArchiveVariant(h) ==
  /\ Serve(h) /\ alive /\ approved /\ approved' = FALSE
  /\ UNCHANGED <<alive, rev, progress, draft, jobs, files, req>>

-----------------------------------------------------------------------------
(* Progress: a snapshot pins a revision, a deviation is accepted by an     *)
(* edit and then marked.                                                   *)

CreateSnapshot(h, line) ==
  /\ Serve(h) /\ alive /\ snap.pin = 0
  /\ line = "variant" => approved
  /\ Tip(line) # 0 /\ snap' = [snap EXCEPT !.pin = Tip(line)]
  /\ UNCHANGED <<alive, scenes, dev, draft, jobs, files, req>>

\* nothing but the stamp: its deviations can still be changed and accepted
SoftDelete(h) ==
  /\ Serve(h) /\ snap.pin # 0 /\ ~snap.deleted
  /\ snap' = [snap EXCEPT !.deleted = TRUE]
  /\ UNCHANGED <<alive, scenes, dev, draft, jobs, files, req>>

Creatable == {"open", "confirmed", "discarded"}

CreateDeviation(h, d, status) ==
  /\ Serve(h) /\ snap.pin # 0 /\ ~snap.deleted /\ dev[d].status = "absent"
  /\ dev' = [dev EXCEPT ![d] = [status |-> status, planned |-> snap.pin, rev |-> 0]]
  /\ UNCHANGED <<alive, scenes, snap, draft, jobs, files, req>>

Transitions == {<<"open", "confirmed">>, <<"open", "discarded">>, <<"confirmed", "open">>,
                <<"confirmed", "discarded">>, <<"discarded", "open">>}

\* patch_deviation: checked on the row as loaded ...
PatchDeviation(h, d, status) ==
  /\ <<dev[d].status, status>> \in Transitions
  /\ Start(h, [Idle EXCEPT !.pc = "patch", !.who = d, !.arg = status])
  /\ UNCHANGED <<alive, scenes, progress, draft, jobs, files>>

\* ... and written by id
WritePatch(h) ==
  /\ req[h].pc = "patch"
  /\ dev' = [dev EXCEPT ![req[h].who].status = req[h].arg]
  /\ End(h)
  /\ UNCHANGED <<alive, scenes, snap, draft, jobs, files>>

\* accept_deviation up to the edit; the client names the head it has seen
AcceptDeviation(h, d, line) ==
  /\ dev[d].status = "confirmed"
  /\ line = "variant" => approved
  /\ Start(h, [Idle EXCEPT !.pc = "fix", !.who = d, !.arg = line, !.base = Tip(line)])
  /\ UNCHANGED <<alive, scenes, progress, draft, jobs, files>>

\* the first commit; a variant's head is compared once more, with the INSERT
ApplyFix(h) ==
  LET r == req[h]
  IN /\ r.pc = "fix" /\ r.seen
     /\ IF CanInsert /\ (r.arg = "variant" => Tip(r.arg) = r.base)
        THEN /\ Onto(r, r.arg, <<"deviation", r.who>>)
             /\ Goto(h, [r EXCEPT !.pc = "accept", !.base = Len(rev) + 1])
        ELSE End(h) /\ UNCHANGED scenes
     /\ UNCHANGED <<alive, progress, draft, jobs, files>>

\* marked with the revision the edit was made against
AcceptWithBase(h) ==
  LET r == req[h]
  IN /\ r.pc = "accept"
     /\ dev' = [dev EXCEPT ![r.who].status = "accepted", ![r.who].rev = r.base - 1]
     /\ End(h)
     /\ UNCHANGED <<alive, scenes, snap, draft, jobs, files>>

\* the second commit
Accept(h) ==
  LET r == req[h]
  IN /\ r.pc = "accept"
     /\ dev' = [dev EXCEPT ![r.who].status = "accepted", ![r.who].rev = r.base]
     /\ End(h)
     /\ UNCHANGED <<alive, scenes, snap, draft, jobs, files>>

-----------------------------------------------------------------------------
(* Plan drafts *)

HighestVersion == LET all == {draft[i].version : i \in DOMAIN draft}
                  IN IF all = {} THEN 0 ELSE CHOOSE v \in all : \A w \in all : w <= v

\* get_latest_draft: of the highest version the newest, 0 if there is none
LatestDraft ==
  LET top == {i \in DOMAIN draft : draft[i].version = HighestVersion}
  IN IF top = {} THEN 0 ELSE CHOOSE i \in top : \A k \in top : k <= i

\* save_draft, of the owner or of a completed plan.analyze job
SaveDraft(h) ==
  /\ alive
  /\ Start(h, [Idle EXCEPT !.pc = "save", !.n = HighestVersion + 1])
  /\ UNCHANGED <<alive, scenes, progress, draft, jobs, files>>

InsertDraft(h) ==
  /\ req[h].pc = "save"
  /\ draft' = IF alive THEN Append(draft, [version |-> req[h].n, committed |-> FALSE])
              ELSE draft
  /\ End(h)
  /\ UNCHANGED <<alive, scenes, progress, jobs, files>>

\* without the look at the status
CommitDraftAgain(h) ==
  /\ alive /\ LatestDraft # 0
  /\ Start(h, [Idle EXCEPT !.pc = "snapshot", !.n = LatestDraft])
  /\ UNCHANGED <<alive, scenes, progress, draft, jobs, files>>

CommitDraft(h) ==
  /\ alive /\ LatestDraft # 0 /\ ~draft[LatestDraft].committed
  /\ Start(h, [Idle EXCEPT !.pc = "snapshot", !.n = LatestDraft])
  /\ UNCHANGED <<alive, scenes, progress, draft, jobs, files>>

\* the first commit: a scene of its own, whatever the tip is
AppendSnapshot(h) ==
  LET by == <<"draft", req[h].n>>
  IN /\ req[h].pc = "snapshot"
     /\ IF CanInsert
        THEN Inserted("canonical", by, {by}) /\ Goto(h, [req[h] EXCEPT !.pc = "commit"])
        ELSE End(h) /\ UNCHANGED scenes
     /\ UNCHANGED <<alive, progress, draft, jobs, files>>

\* the second
MarkCommitted(h) ==
  /\ req[h].pc = "commit"
  /\ draft' = IF req[h].n \in DOMAIN draft
              THEN [draft EXCEPT ![req[h].n].committed = TRUE] ELSE draft
  /\ End(h)
  /\ UNCHANGED <<alive, scenes, progress, jobs, files>>

-----------------------------------------------------------------------------
(* A turn of the design agent *)

\* design_instruction reads the tip ...
Instruct(h, j) ==
  /\ turn[j].status = "absent" /\ Tip("canonical") # 0
  /\ Start(h, [Idle EXCEPT !.pc = "instruct", !.who = j, !.base = Tip("canonical")])
  /\ UNCHANGED <<alive, scenes, progress, draft, jobs, files>>

\* ... and creates the job, which no foreign key ties to the project
InsertTurn(h) ==
  LET r == req[h]
  IN /\ r.pc = "instruct"
     /\ turn' = IF turn[r.who].status = "absent"
                THEN [turn EXCEPT ![r.who] = [status |-> "active", base |-> r.base]] ELSE turn
     /\ End(h)
     /\ UNCHANGED <<alive, scenes, progress, draft, queued, files>>

CancelTurn(h, j) ==
  /\ Serve(h) /\ turn[j].status = "active"
  /\ turn' = [turn EXCEPT ![j].status = "cancelled"]
  /\ UNCHANGED <<alive, scenes, progress, draft, queued, files, req>>

\* worker_job_complete loads the job, in whatever status, and compares the base with
\* the tip; valid: every command goes through on a copy of the scene in memory.
\* Whether the caller holds the lease, which it keeps when it has reported, is found
\* out only at the end
CompleteTurn(h, j, holds, valid) ==
  LET now == turn[j].status
      r == [Idle EXCEPT !.who = j, !.arg = now, !.base = turn[j].base, !.holds = holds]
  IN /\ now # "absent" /\ (holds => now # "cancelled")
     /\ Start(h, [r EXCEPT !.pc = IF valid /\ r.base # 0 /\ r.base = Tip("canonical")
                                    THEN "turn" ELSE "reject"])
     /\ UNCHANGED <<alive, scenes, progress, draft, jobs, files>>

\* one commit per command, each based on the one before
ApplyTurn(h) ==
  LET r == req[h]
  IN /\ r.pc = "turn" /\ r.seen
     /\ IF CanInsert
        THEN /\ Onto(r, "canonical", <<"turn", r.who, r.n + 1>>)
             /\ Goto(h, [r EXCEPT !.n = @ + 1, !.base = Len(rev) + 1, !.seen = FALSE])
        ELSE Goto(h, [r EXCEPT !.pc = "reject"]) /\ UNCHANGED scenes
     /\ UNCHANGED <<alive, progress, draft, jobs, files>>

\* a job for a revision and assets, by who put them into its payload
Queued(r, assets, by) == queued' = queued \cup {[rev |-> r, assets |-> assets, by |-> by]}

\* queue_design_generation (keyed by revision and camera), if the scene has a camera,
\* with the reference assets the commands name, which nobody has looked up
QueueGeneration(h, camera, named) ==
  LET r == req[h]
  IN /\ r.pc = "turn" /\ r.n = TurnLength
     /\ IF camera THEN Queued(r.base, named, "agent") ELSE UNCHANGED queued
     /\ Goto(h, [r EXCEPT !.pc = "preview"])
     /\ UNCHANGED <<alive, scenes, progress, draft, turn, files>>

\* no preview, one of a camera (a job per turn, camera and revision), or one of a
\* camera the scene does not have: refused when everything is committed
Preview(h, asked) ==
  LET r == req[h]
  IN /\ r.pc = "preview"
     /\ IF asked = "known" THEN Queued(r.base, {}, "agent") ELSE UNCHANGED queued
     /\ Goto(h, [r EXCEPT !.pc = IF asked = "unknown" THEN "reject" ELSE "settle"])
     /\ UNCHANGED <<alive, scenes, progress, draft, turn, files>>

\* complete_job or fail_job, on the row as it was loaded: nothing if it had ended so
Settle(h) ==
  LET r == req[h]
      how == IF r.pc = "settle" THEN "succeeded" ELSE "failed"
  IN /\ r.pc \in {"settle", "reject"}
     /\ turn' = IF r.holds /\ r.arg # how /\ turn[r.who].status # "absent"
                THEN [turn EXCEPT ![r.who].status = how] ELSE turn
     /\ End(h)
     /\ UNCHANGED <<alive, scenes, progress, draft, queued, files>>

-----------------------------------------------------------------------------
(* Photo edits: new assets, a revision, a job, each with its own commit *)

\* asset_upload: a file, then its row
Upload(h) ==
  /\ alive
  /\ Start(h, [Idle EXCEPT !.pc = "put", !.arg = "upload", !.needs = 1])
  /\ UNCHANGED <<alive, scenes, progress, draft, jobs, files>>

\* product_import_url: the file of a picture, then its row and the product's together
ImportProduct(h) ==
  /\ alive
  /\ Start(h, [Idle EXCEPT !.pc = "put", !.arg = "upload", !.needs = 1])
  /\ UNCHANGED <<alive, scenes, progress, draft, jobs, files>>

\* a photo edit of the kind, which makes that many assets, of a photo the client
\* names or an image that was generated for an earlier revision
EditPhoto(h, kind, images, needs) ==
  /\ Tip("canonical") # 0 /\ images \subseteq asset
  /\ Start(h, [Idle EXCEPT !.pc = IF needs = 0 THEN "revise" ELSE "put", !.needs = needs,
                 !.base = Tip("canonical"), !.scene = rev[Tip("canonical")].content,
                 !.uses = images, !.arg = kind])
  /\ UNCHANGED <<alive, scenes, progress, draft, jobs, files>>

\* the images a client may name, or that are found for an earlier revision's camera
Photos == asset

NoReference == 0
Missing == 0 \* an id of no asset

\* replacement_create: a mask, and a black reference if none is given.  "object": what
\* is replaced is one of the scene; "blind": and the request names no camera;
\* "region": a region of the photo
Replace(h, kind, photo, reference) ==
  EditPhoto(h, kind, {photo, reference} \ {NoReference}, IF reference = NoReference THEN 2 ELSE 1)

\* redesign_create: a black reference if none is given
Redesign(h, photo, reference) ==
  EditPhoto(h, "photo", {photo, reference} \ {NoReference}, IF reference = NoReference THEN 1 ELSE 0)

\* the row first, the file later
PutFileLater(h) ==
  /\ req[h].pc = "put" /\ drawn < MaxAssets
  /\ drawn' = drawn + 1
  /\ Goto(h, [req[h] EXCEPT !.pc = "row", !.n = drawn + 1])
  /\ UNCHANGED <<alive, scenes, progress, draft, jobs, store, asset>>

PutFile(h) ==
  /\ req[h].pc = "put" /\ drawn < MaxAssets
  /\ drawn' = drawn + 1 /\ store' = store \cup {drawn + 1}
  /\ Goto(h, [req[h] EXCEPT !.pc = "row", !.n = drawn + 1])
  /\ UNCHANGED <<alive, scenes, progress, draft, jobs, asset>>

InsertAsset(h) ==
  LET r == req[h]
  IN /\ r.pc = "row"
     /\ IF ~alive THEN End(h) /\ UNCHANGED asset
        ELSE /\ asset' = asset \cup {r.n}
             /\ Goto(h, IF r.arg = "upload" THEN Idle
                        ELSE [r EXCEPT !.needs = @ - 1, !.uses = @ \cup {r.n},
                                       !.pc = IF r.needs = 1 THEN "revise" ELSE "put"])
     /\ UNCHANGED <<alive, scenes, progress, draft, jobs, store, drawn>>

\* the command that replaces an object of the scene.  Without a camera the one that is
\* looked up next is not found: the request ends here
ReviseScene(h) ==
  LET r == req[h]
  IN /\ r.pc = "revise" /\ r.seen
     /\ IF CanInsert
        THEN /\ Onto(r, "canonical", <<"photo", Len(rev) + 1>>)
             /\ Goto(h, IF r.arg = "blind" THEN Idle
                        ELSE [r EXCEPT !.pc = "queue", !.base = Len(rev) + 1])
        ELSE End(h) /\ UNCHANGED scenes
     /\ UNCHANGED <<alive, progress, draft, jobs, files>>

\* create_noop_revision: the scene as it was when the request came in, unchecked
ReviseNothing(h) ==
  LET r == req[h]
  IN /\ r.pc = "revise" /\ r.arg \notin OfTheScene
     /\ IF CanInsert
        THEN /\ Inserted("canonical", <<"photo", Len(rev) + 1>>, r.scene)
             /\ Goto(h, [r EXCEPT !.pc = "queue", !.base = Len(rev) + 1])
        ELSE End(h) /\ UNCHANGED scenes
     /\ UNCHANGED <<alive, progress, draft, jobs, files>>

\* create_job for a revision and assets that were there when the request came in, or
\* that nobody has looked up
CreateJob(h, kinds, by) ==
  LET r == req[h]
  IN /\ r.pc = "queue" /\ r.arg \in kinds /\ Cardinality(queued) < MaxQueued
     /\ Queued(r.base, r.uses, by)
     /\ End(h)
     /\ UNCHANGED <<alive, scenes, progress, draft, turn, files>>

\* queue_reference_edit, queue_reference_redesign
QueueReplacement(h) == CreateJob(h, {"object", "region"}, "route")
QueueRedesign(h) == CreateJob(h, {"photo"}, "route")

\* ... and the jobs that need nothing new; of several images one stands for all
Order(h, kind, r, uses) ==
  /\ Start(h, [Idle EXCEPT !.pc = "queue", !.arg = kind, !.base = r, !.uses = uses])
  /\ UNCHANGED <<alive, scenes, progress, draft, jobs, files>>

QueueOrder(h) == CreateJob(h, {"order"}, "route")
QueuePayload(h) == CreateJob(h, {"payload"}, "client")

Generate(h, r, images) == r \in Revs /\ images \subseteq asset /\ Order(h, "order", r, images)
Render(h, r) == r \in Revs /\ Order(h, "order", r, {})
Diagnose(h, r, image) == r \in Revs /\ image \in asset /\ Order(h, "order", r, {image})
AnalyzeStyle(h, image) == alive /\ image \in asset /\ Order(h, "order", 0, {image})
AnalyzePlan(h, image) == alive /\ image \in asset /\ Order(h, "order", 0, {image})

\* job_create: of the payload only the form is looked at
JobCreate(h, uses) == alive /\ Order(h, "payload", 0, uses)

ImageJobEnds(q) ==
  /\ q \in queued /\ queued' = queued \ {q}
  /\ UNCHANGED <<alive, scenes, progress, draft, turn, files, req, counts>>

-----------------------------------------------------------------------------
(* Deleting the project *)

NoTurns == [j \in Turns |-> [status |-> "absent", base |-> 0]]

Busy == queued # {} \/ \E j \in Turns : turn[j].status = "active"

DeleteProject(h) ==
  /\ alive /\ ~Busy
  /\ Start(h, [Idle EXCEPT !.pc = "cascade"])
  /\ UNCHANGED <<alive, scenes, progress, draft, jobs, files>>

\* every row but those of progress, whose foreign key then refuses the deletion;
\* jobs created since the check go with the others
Cascade(h) ==
  /\ req[h].pc = "cascade"
  /\ IF ~alive \/ snap.pin # 0
     THEN End(h) /\ UNCHANGED <<alive, rev, draft, jobs, asset>>
     ELSE /\ alive' = FALSE /\ rev' = <<>> /\ draft' = <<>> /\ asset' = {}
          /\ turn' = NoTurns /\ queued' = {}
          /\ Goto(h, [Idle EXCEPT !.pc = "files"])
  /\ UNCHANGED <<approved, progress, store, drawn>>

\* best effort, a thousand files at a time
DeleteFiles(h) ==
  /\ req[h].pc = "files"
  /\ store' \in SUBSET store
  /\ End(h)
  /\ UNCHANGED <<alive, scenes, progress, draft, jobs, asset, drawn>>

-----------------------------------------------------------------------------
WorkflowInit ==
  /\ alive = TRUE /\ approved = TRUE
  /\ rev = <<[line |-> "canonical", by |-> <<"start", 0>>, content |-> {}],
             [line |-> "variant", by |-> <<"start", 0>>, content |-> {}]>>
  /\ snap = [pin |-> 0, deleted |-> FALSE]
  /\ dev = [d \in Deviations |-> [status |-> "absent", planned |-> 0, rev |-> 0]]
  /\ draft = <<>>
  /\ turn = NoTurns /\ queued = {}
  /\ asset = {} /\ store = {} /\ drawn = 0
  /\ req = [h \in Handlers |-> Idle]
  /\ begun = 0 /\ overlaps = 0 /\ died = 0

\* requests as they come in, by what they are about
ProgressRequest(h) ==
  \/ \E line \in {"canonical", "variant"} : CreateSnapshot(h, line)
  \/ \E d \in Deviations, line \in {"canonical", "variant"} : AcceptDeviation(h, d, line)
  \/ \E d \in Deviations, s \in Creatable : CreateDeviation(h, d, s) \/ PatchDeviation(h, d, s)
  \/ SoftDelete(h)

TurnRequest(h) ==
  \/ \E j \in Turns : Instruct(h, j) \/ CancelTurn(h, j)
  \/ \E j \in Turns, holds, valid \in BOOLEAN : CompleteTurn(h, j, holds, valid)

PhotoRequest(h) ==
  \/ \E photo \in Photos, reference \in asset \cup {NoReference} :
       \/ \E kind \in OfTheScene \cup {"region"} : Replace(h, kind, photo, reference)
       \/ Redesign(h, photo, reference)
  \/ Upload(h) \/ ImportProduct(h)

\* no asset, one, or an id that is none
Named == {{}, {Missing}} \cup {{image} : image \in asset}

JobRequest(h) ==
  \/ \E r \in Revs :
       \/ Render(h, r)
       \/ \E images \in Named : Generate(h, r, images)
       \/ \E image \in asset : Diagnose(h, r, image)
  \/ \E image \in asset : AnalyzeStyle(h, image) \/ AnalyzePlan(h, image)
  \/ \E images \in Named : JobCreate(h, images)

Begin(h) ==
  \/ ProgressRequest(h) \/ TurnRequest(h) \/ PhotoRequest(h) \/ JobRequest(h)
  \/ SaveDraft(h) \/ CommitDraft(h)
  \/ EditScene(h) \/ ArchiveVariant(h) \/ DeleteProject(h)

\* the next step of the request that h serves
Continue(h) ==
  \/ Compare(h) \/ ApplyEdit(h)
  \/ WritePatch(h) \/ ApplyFix(h) \/ Accept(h)
  \/ InsertDraft(h) \/ AppendSnapshot(h) \/ MarkCommitted(h)
  \/ \E asked \in {"none", "known", "unknown"} : Preview(h, asked)
  \/ \E camera \in BOOLEAN, images \in Named : QueueGeneration(h, camera, images)
  \/ InsertTurn(h) \/ ApplyTurn(h) \/ Settle(h)
  \/ PutFile(h) \/ InsertAsset(h) \/ ReviseScene(h) \/ ReviseNothing(h)
  \/ QueueReplacement(h) \/ QueueRedesign(h) \/ QueueOrder(h) \/ QueuePayload(h)
  \/ Cascade(h) \/ DeleteFiles(h) \/ Die(h)

WorkflowNext ==
  \/ \E h \in Handlers :
       \/ Free(h) /\ begun < MaxRequests /\ Begin(h)
       \/ ~Free(h) /\ Continue(h)
  \/ \E q \in queued : ImageJobEnds(q)

WorkflowSpec == WorkflowInit /\ [][WorkflowNext]_workflowVars

-----------------------------------------------------------------------------
(* However requests interleave and whichever die *)

\* What points at a revision or an asset points at one that is there, as long as the
\* project is: the pin of a snapshot, the plan of a deviation, the revision of an image
\* job and its assets if a route has looked them up (the agent and the clients of
\* job_create may name any); and a row of assets has its file.  Of a deleted project
\* nothing is left but jobs, and not even jobs if requests do not overlap.
NothingDangles ==
  IF alive
  THEN /\ snap.pin \in 0..Len(rev)
       /\ \A d \in Deviations : dev[d].planned \in 0..Len(rev)
       /\ \A q \in queued : /\ q.rev \in 0..Len(rev)
                            /\ q.by = "route" => q.assets \subseteq asset
       /\ asset \subseteq store
  ELSE /\ rev = <<>> /\ draft = <<>> /\ asset = {} /\ snap.pin = 0
       /\ \A d \in Deviations : dev[d].status = "absent"
       /\ overlaps = 0 => queued = {} /\ turn = NoTurns

\* An accepted deviation names the revision that applied its fix (progress.py: the fix
\* is applied as a real command, then the deviation is marked).
AcceptedIsApplied ==
  \A d \in Deviations :
    dev[d].status = "accepted" =>
      dev[d].rev \in Revs /\ rev[dev[d].rev].by = <<"deviation", d>>

\* the revisions of a turn
Applied(j) == {r \in Revs : rev[r].by[1] = "turn" /\ rev[r].by[2] = j}

\* Whatever interleaves and however often a turn is reported: the scene of its n-th
\* command is the one the instruction was given for with the first n commands and
\* nobody else's edit (agent.py, the loop over actual_base), and if the job has
\* succeeded all its commands are in the history.
TurnsUnmixed ==
  alive =>
  \A j \in Turns :
    /\ \A r \in Applied(j) :
         rev[r].content = rev[turn[j].base].content \cup {<<"turn", j, n>> : n \in 1..rev[r].by[3]}
    /\ turn[j].status = "succeeded" =>
         \A n \in 1..TurnLength : \E r \in Applied(j) : rev[r].by[3] = n

-----------------------------------------------------------------------------
(* Requests that do not overlap and do not die *)

Once == \A q, r \in Revs : rev[q].by = rev[r].by /\ rev[q].by[1] # "start" => q = r
Versioned == \A i, k \in DOMAIN draft : i < k => draft[i].version < draft[k].version
Committed == \A i \in DOMAIN draft :
  draft[i].committed <=> \E r \in Revs : rev[r].by = <<"draft", i>>

\* A canonical revision keeps the changes of the one before, unless it is the
\* snapshot of a plan.
EditsKept ==
  \A q, r \in Revs :
    /\ rev[q].line = "canonical" /\ rev[r].line = "canonical" /\ q < r
    /\ rev[r].by[1] # "draft"
    /\ \A p \in Revs : q < p /\ p < r => rev[p].line # "canonical"
    => rev[q].content \subseteq rev[r].content

\* One request at a time, none of which dies: each deviation, draft and command is
\* applied once, a draft is committed exactly if its snapshot is in the history,
\* versions ascend, and a revision that is made for a photo or to record lineage
\* (scenes.py, "without mutating the scene") takes no edit back.
OneAtATime ==
  overlaps = 0 /\ died = 0 =>
    Once /\ Versioned /\ EditsKept
      /\ ((\A h \in Handlers : Free(h)) => Committed)
=============================================================================
