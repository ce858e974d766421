---------------------------- MODULE SceneHistory ----------------------------
(***************************************************************************)
(* The scene of one project: immutable revisions, the canonical history    *)
(* (services/scenes.py and its callers) and the variants branching off it  *)
(* (services/variants.py).  A revision does not say to which branch it     *)
(* belongs: the canonical ones are those no variant owns.  PostgreSQL runs *)
(* at READ COMMITTED and since migration 0015 no constraint keeps two      *)
(* revisions from having one parent, so a handler reads first and writes   *)
(* later, on what it read.                                                 *)
(***************************************************************************)
EXTENDS Integers, Sequences, FiniteSets

CONSTANTS
  MaxRevs,   \* bound on the revisions of the project
  Commands,  \* command ids the clients choose
  Variants,  \* variant ids uuid4 may draw
  Handlers,  \* requests the API serves at once
  MaxOverlaps, \* bound on requests that begin while another is served
  None

ASSUME SceneAssumption ==
  MaxRevs \in Nat /\ MaxOverlaps \in Nat /\ None \notin Commands \cup Variants

VARIABLES
  rev,   \* scene_revisions in creation order; a revision is its position
  var,   \* scene_variants
  req,   \* the request each handler is serving
  overlaps \* history: how many requests began while another was served

vars == <<rev, var, req, overlaps>>

Number == 0..MaxRevs      \* 0 stands for no revision

\* based: the base revision the client named (0: it named none);
\* by: history, the variant on whose branch it was appended, or None
Revision == [parent : Number, cmd : Commands \cup {None}, based : Number,
             by : Variants \cup {None}]

Stored == {"draft", "shortlisted", "approved", "archived"}
Status == Stored \cup {"absent", "deleted"}
Variant == [status : Status, base : Number, head : Number]

Revs == 1..Len(rev)
Live == {v \in Variants : var[v].status \in Stored}

\* a branch taken to begin at its fork base, the base included
InclusiveSegment(v) ==
  LET up[r \in 0..Len(rev)] ==
        IF r = 0 THEN {} ELSE IF r = var[v].base THEN {r} ELSE {r} \cup up[rev[r].parent]
  IN up[var[v].head]

\* the parent chain from a head down to a base, the base excluded
Walked(base, head) ==
  LET up[r \in 0..Len(rev)] == IF r \in {0, base} THEN {} ELSE {r} \cup up[rev[r].parent]
  IN up[head]

Segment(v) == Walked(var[v].base, var[v].head)

\* variant_lineage_ids
Lineage(r) ==
  LET up[q \in 0..Len(rev)] == IF q = 0 THEN {} ELSE {q} \cup up[rev[q].parent]
  IN up[r]

\* _variant_owned_revision_ids
Owned == Revs \cap UNION {Segment(v) : v \in Live}

\* r is the newest revision outside `owned`, 0 if there is none
Newest(r, owned) ==
  IF Revs \subseteq owned THEN r = 0
  ELSE r \in Revs \ owned /\ \A q \in Revs \ owned : q <= r

-----------------------------------------------------------------------------
Ops == {"none", "init", "edit", "snapshot", "seed"}

Request ==
  [phase : {"idle", "walk", "write", "insert", "status", "delete"}, op : Ops,
   variant : Variants \cup {None}, cmd : Commands \cup {None}, base : Number,
   tip : Number, owned : SUBSET (1..MaxRevs),
   seen : [Variants -> Status], status : [Variants -> Status]]

NoStatus == [v \in Variants |-> "absent"]
StatusNow == [v \in Variants |-> var[v].status]

Idle == [phase |-> "idle", op |-> "none", variant |-> None, cmd |-> None, base |-> 0,
         tip |-> 0, owned |-> {}, seen |-> NoStatus, status |-> NoStatus]

Free(h) == req[h].phase = "idle"
Alone(h) == \A g \in Handlers \ {h} : Free(g)

\* handler h takes up a request
Begin(h, r) ==
  /\ Free(h)
  /\ IF Alone(h) THEN UNCHANGED overlaps
     ELSE overlaps < MaxOverlaps /\ overlaps' = overlaps + 1
  /\ req' = [req EXCEPT ![h] = r]
  /\ UNCHANGED <<rev, var>>

End(h) == req' = [req EXCEPT ![h] = Idle] /\ UNCHANGED overlaps

\* the request is refused late, or its process or database connection dies
Abort(h) == ~Free(h) /\ End(h) /\ UNCHANGED <<rev, var>>

-----------------------------------------------------------------------------
(* latest_revision and what is decided on it: first the variants are read  *)
(* and walked, then the newest revision outside their branches.            *)

\* initialize_scene; commands, cameras, reverts and no-op revisions ("edit", with
\* the base their client names); commit_draft; create_variant_from_current
Walk(h, op, base, cmd) ==
  /\ op # "edit" => base = 0 /\ cmd = None
  /\ Begin(h, [Idle EXCEPT !.phase = "walk", !.op = op, !.base = base, !.cmd = cmd,
                           !.owned = Owned])

\* an edit on whatever is newest
AcceptsAnyBase(op, base, tip) == op = "snapshot" \/ (op = "init" <=> tip = 0)

\* what each caller asks of the tip it read
Accepts(op, base, tip) ==
  CASE op = "init"     -> tip = 0
    [] op = "edit"     -> tip # 0 /\ tip = base
    [] op = "seed"     -> tip # 0
    [] op = "snapshot" -> TRUE

ReadTip(h) ==
  LET r == req[h]
  IN /\ r.phase = "walk"
     /\ \E tip \in 0..Len(rev) :
          /\ Newest(tip, r.owned)
          /\ req' = [req EXCEPT ![h] =
               IF ~Accepts(r.op, r.base, tip) THEN Idle
               ELSE [r EXCEPT !.phase = IF r.op = "seed" THEN "insert" ELSE "write",
                              !.base = IF r.op = "seed" THEN tip ELSE r.base,
                              !.op = "none", !.owned = {}, !.tip = tip]]
     /\ UNCHANGED <<rev, var, overlaps>>

Used(cmd) == \E r \in Revs : rev[r].cmd = cmd

\* a design_commands table without its primary key
NeverUsed(cmd) == TRUE

\* the primary key of design_commands refuses a second command of one id
Unused(cmd) == cmd = None \/ ~Used(cmd)

AppendRevision(r) ==
  /\ Len(rev) < MaxRevs
  /\ rev' = Append(rev, [parent |-> r.tip, cmd |-> r.cmd, based |-> r.base, by |-> r.variant])

\* INSERT and commit on the canonical history
WriteCanonical(h) ==
  LET r == req[h]
  IN /\ r.phase = "write" /\ r.variant = None
     /\ IF Unused(r.cmd) THEN AppendRevision(r) ELSE UNCHANGED rev
     /\ End(h)
     /\ UNCHANGED var

-----------------------------------------------------------------------------
(* Appending to a variant: apply_variant_command (with a command, and not  *)
(* on an archived variant) and restore_variant_revision (without).         *)

BeginAppend(h, v, base, cmd) ==
  /\ v \in Live
  /\ cmd # None => var[v].status # "archived"
  /\ base = var[v].head
  /\ Begin(h, [Idle EXCEPT !.phase = "write", !.variant = v, !.cmd = cmd, !.base = base,
                           !.tip = base])

\* an UPDATE of the head that does not look at it
WriteAppendBlindly(h) ==
  LET r == req[h]
  IN /\ r.phase = "write" /\ r.variant # None
     /\ IF Unused(r.cmd) /\ r.variant \in Live
        THEN AppendRevision(r) /\ var' = [var EXCEPT ![r.variant].head = Len(rev) + 1]
        ELSE UNCHANGED <<rev, var>>
     /\ End(h)

\* append_variant_revision: INSERT, then UPDATE ... WHERE head = expected; a lost
\* race, a deleted variant or a used command id rolls everything back
WriteAppend(h) ==
  LET r == req[h]
  IN /\ r.phase = "write" /\ r.variant # None
     /\ IF Unused(r.cmd) /\ r.variant \in Live /\ var[r.variant].head = r.base
        THEN AppendRevision(r) /\ var' = [var EXCEPT ![r.variant].head = Len(rev) + 1]
        ELSE UNCHANGED <<rev, var>>
     /\ End(h)

-----------------------------------------------------------------------------
(* The variants themselves. *)

\* fork_variant at the source's own span, or from a revision in its lineage
Fork(h, v, from) ==
  /\ v \in Live
  /\ from # 0 => from \in Lineage(var[v].head)
  /\ Begin(h, [Idle EXCEPT !.phase = "insert",
                           !.base = IF from = 0 THEN var[v].base ELSE from,
                           !.tip = IF from = 0 THEN var[v].head ELSE from])

\* the INSERT of create_variant_from_current and fork_variant
InsertVariant(h) ==
  LET r == req[h]
  IN /\ r.phase = "insert"
     /\ \E v \in Variants :
          /\ var[v].status = "absent"
          /\ var' = [var EXCEPT ![v] = [status |-> "draft", base |-> r.base, head |-> r.tip]]
     /\ End(h)
     /\ UNCHANGED rev

SetStatus(h, status) ==
  Begin(h, [Idle EXCEPT !.phase = "status", !.seen = StatusNow, !.status = status])

\* an approval that demotes nobody
ApproveOnly(h, v) ==
  /\ var[v].status = "shortlisted"
  /\ SetStatus(h, [StatusNow EXCEPT ![v] = "approved"])

\* approve_variant: promotes v and demotes every variant it saw approved
Approve(h, v) ==
  /\ var[v].status = "shortlisted"
  /\ SetStatus(h, [u \in Variants |->
       IF u = v THEN "approved"
       ELSE IF var[u].status = "approved" THEN "shortlisted" ELSE var[u].status])

\* STATUS_TRANSITIONS without the one that is routed through approve_variant
Patched == {<<"draft", "shortlisted">>, <<"draft", "archived">>,
            <<"shortlisted", "archived">>, <<"approved", "archived">>}

Patch(h, v, s) ==
  /\ <<var[v].status, s>> \in Patched
  /\ SetStatus(h, [StatusNow EXCEPT ![v] = s])

Changed(r) == {v \in Variants : r.status[v] # r.seen[v]}

\* the UPDATEs of the rows whose status changed; one that no longer exists
\* (StaleDataError) rolls all of them back
WriteStatus(h) ==
  LET r == req[h]
  IN /\ r.phase = "status"
     /\ var' = IF Changed(r) \subseteq Live
               THEN [v \in Variants |->
                      IF v \in Changed(r) THEN [var[v] EXCEPT !.status = r.status[v]] ELSE var[v]]
               ELSE var
     /\ End(h)
     /\ UNCHANGED rev

BeginDelete(h, v) ==
  /\ v \in Live
  /\ Begin(h, [Idle EXCEPT !.phase = "delete", !.variant = v])

\* delete_variant: the row only, never its revisions
WriteDelete(h) ==
  /\ req[h].phase = "delete"
  /\ var' = [var EXCEPT ![req[h].variant].status = "deleted"]
  /\ End(h)
  /\ UNCHANGED rev

-----------------------------------------------------------------------------
Init ==
  /\ rev = <<>>
  /\ var = [v \in Variants |-> [status |-> "absent", base |-> 0, head |-> 0]]
  /\ req = [h \in Handlers |-> Idle]
  /\ overlaps = 0

Canonical(h) ==
  \/ \E op \in Ops \ {"none"}, base \in 0..Len(rev), cmd \in Commands \cup {None} :
        Walk(h, op, base, cmd)
  \/ ReadTip(h) \/ WriteCanonical(h)

Branch(h) ==
  \/ \E v \in Variants, base \in Revs, cmd \in Commands \cup {None} : BeginAppend(h, v, base, cmd)
  \/ WriteAppend(h)

Lifecycle(h) ==
  \/ \E v \in Variants, from \in 0..Len(rev) : Fork(h, v, from)
  \/ \E v \in Variants : Approve(h, v) \/ BeginDelete(h, v)
  \/ \E v \in Variants, s \in Stored : Patch(h, v, s)
  \/ InsertVariant(h) \/ WriteStatus(h) \/ WriteDelete(h)

Next == \E h \in Handlers : Canonical(h) \/ Branch(h) \/ Lifecycle(h) \/ Abort(h)

Spec == Init /\ [][Next]_vars

-----------------------------------------------------------------------------
(* What holds however requests interleave. *)

\* The shape of the state; parents come before their children, and a variant
\* points at revisions that exist.
TypeOK ==
  /\ rev \in Seq(Revision) /\ Len(rev) <= MaxRevs
  /\ \A r \in Revs : rev[r].parent < r
  /\ var \in [Variants -> Variant]
  /\ \A v \in Live : var[v].base \in Revs /\ var[v].head \in Revs
  /\ req \in [Handlers -> Request]
  /\ overlaps \in 0..MaxOverlaps

\* A command takes effect once, on one branch, however often and wherever it is sent.
CommandOnce ==
  \A q, r \in Revs : rev[q].cmd # None /\ rev[q].cmd = rev[r].cmd => q = r

\* No edit of a variant is lost to a concurrent one: whatever was appended on its
\* branch is its head or the parent of a later revision of the same branch
\* (append_variant_revision's expected-head guard).
VariantEditsKept ==
  \A v \in Live, r \in Revs :
    rev[r].by = v => \/ var[v].head = r
                     \/ \E q \in Revs : rev[q].by = v /\ rev[q].parent = r

\* latest_revision tells the branches apart: it passes over revisions of variants
\* only, and over all of them as long as no variant was deleted, forks and forks
\* of forks included.
BranchesOwned ==
  LET drafts == {r \in Revs : rev[r].by # None}
  IN /\ Owned \subseteq drafts
     /\ (\A v \in Variants : var[v].status # "deleted") => Owned = drafts

\* What the variants are to a client: the edits that were made, which branches are
\* open, what each holds, and what the forks in flight have read.
EditsMade == [r \in Revs |-> [id |-> rev[r].cmd, on |-> rev[r].by]]
BranchState ==
  [v \in Variants |-> CASE var[v].status = "absent"  -> "unborn"
                        [] var[v].status = "deleted" -> "closed"
                        [] OTHER                     -> "open"]
BranchContent == [v \in Variants |-> IF v \in Live THEN Segment(v) ELSE {}]
CopiesHeld ==
  [h \in Handlers |->
    IF req[h].phase = "insert" THEN {Walked(req[h].base, req[h].tip)} ELSE {}]

\* The variants implement the branch service: no request, whatever it has read and
\* whatever happened since, adds to a branch other than by one new edit made on it,
\* takes anything from it, or changes another.
branches == INSTANCE BranchService
              WITH Branches <- Variants, Edits <- 1..MaxRevs, Ids <- Commands,
                   Clients <- Handlers, Nothing <- None, edit <- EditsMade,
                   state <- BranchState, content <- BranchContent, copies <- CopiesHeld
ImplementsBranches == branches!Spec

-----------------------------------------------------------------------------
(* What holds of requests that do not overlap. *)

Trunk == {r \in Revs : rev[r].by = None}

\* q is the canonical revision before r, 0 if r is the first
Before(q, r) ==
  /\ q \in {0} \cup Trunk /\ q < r
  /\ \A p \in Trunk : p < r => p <= q

\* The canonical history is one chain and every edit of it was made against the
\* revision just before it, wherever clients got their base revision from; until
\* a variant is deleted, whose revisions then count as canonical.
Chained ==
  \A r \in Trunk, q \in 0..Len(rev) :
    Before(q, r) => rev[r].parent = q /\ (rev[r].based # 0 => rev[r].based = q)

CanonicalLinear ==
  overlaps = 0 /\ (\A v \in Variants : var[v].status # "deleted") => Chained

\* At most one variant of a project is approved (approve_variant).
OneApproved ==
  overlaps = 0 => \A u, v \in Variants :
            var[u].status = "approved" /\ var[v].status = "approved" => u = v

\* Of the canonical edits made against one base, overlapping or not, one takes
\* effect (db/models.py: "linear-history protection now lives in the service layer").
CanonicalNeverForks ==
  (\A v \in Variants : var[v].status # "deleted") =>
     \A q, r \in Trunk : rev[q].based # 0 /\ rev[q].based = rev[r].based => q = r
=============================================================================
