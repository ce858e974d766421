---------------------------- MODULE WorkflowProofs ----------------------------
(***************************************************************************)
(* Two results about the requests that commit several times, for any       *)
(* number of deviations, turns, revisions and requests, whatever overlaps  *)
(* and wherever a request dies.                                            *)
(*                                                                         *)
(* An accepted deviation names the revision that applied its fix: a        *)
(* request that has applied a fix knows the revision until it marks the    *)
(* deviation (Applying); revisions only get more, but for the deletion of  *)
(* the project, and this leaves a project alone that has a snapshot, which *)
(* every deviation needs (Pinned).                                         *)
(*                                                                         *)
(* Nothing dangles: whatever a request holds that it will write a          *)
(* reference to is still there when it writes, because only the deletion   *)
(* of the project takes rows away, after which no request can insert any   *)
(* (Tied).                                                                 *)
(***************************************************************************)
EXTENDS Workflows, SequenceTheorems, WellFoundedInduction, TLAPS

Keys == {"pc", "who", "arg", "base", "seen", "n", "holds", "scene", "uses", "needs"}

\* requests, deviations and the snapshot are records, revisions a sequence
Shape ==
  /\ DOMAIN req = Handlers /\ \A h \in Handlers : DOMAIN req[h] = Keys
  /\ DOMAIN dev = Deviations /\ \A d \in Deviations : DOMAIN dev[d] = {"status", "planned", "rev"}
  /\ DOMAIN snap = {"pin", "deleted"}
  /\ \E S : rev \in Seq(S)

Fixing == {"patch", "fix", "accept"}

\* a deviation, and a request about one, comes with a snapshot
Pinned ==
  snap.pin = 0 => /\ \A d \in Deviations : dev[d].status = "absent"
                  /\ \A h \in Handlers : req[h].pc \notin Fixing

\* what requests about deviations know
Applying(r) ==
  /\ r.pc = "patch" => r.arg \in Creatable
  /\ r.pc = "accept" => r.base \in Revs /\ rev[r.base].by = <<"deviation", r.who>>

IInv ==
  /\ Shape
  /\ Pinned
  /\ \A h \in Handlers : Applying(req[h])
  /\ AcceptedIsApplied

\* revisions only get more
Grows == rev' = rev \/ \E x : rev' = Append(rev, x)

-----------------------------------------------------------------------------
\* What an appended revision leaves alone.
LEMMA AppendedKeeps ==
  ASSUME NEW S, rev \in Seq(S), NEW x, rev' = Append(rev, x)
  PROVE  /\ \E T : rev' \in Seq(T)
         /\ Len(rev) \in Nat
         /\ Revs' = Revs \cup {Len(rev) + 1}
         /\ rev'[Len(rev) + 1] = x
         /\ \A r \in Revs : r \in Revs' /\ rev'[r] = rev[r]
  <1>1. rev \in Seq(S \cup {x})
    <2>1. S \subseteq S \cup {x}
      OBVIOUS
    <2>2. QED
      BY <2>1, SeqMonotonic
  <1>2. /\ rev' \in Seq(S \cup {x})
        /\ Len(rev') = Len(rev) + 1
        /\ rev'[Len(rev) + 1] = x
        /\ \A i \in 1..Len(rev) : rev'[i] = rev[i]
    BY <1>1, AppendProperties
  <1>3. Len(rev) \in Nat
    BY LenProperties
  <1>4. QED
    BY <1>2, <1>3 DEF Revs

\* Revisions that are there stay.
LEMMA GrowsKeeps ==
  ASSUME Shape, Grows
  PROVE  /\ \E T : rev' \in Seq(T)
         /\ \A r \in Revs : r \in Revs' /\ rev'[r] = rev[r]
  <1>1. PICK S : rev \in Seq(S)
    BY DEF Shape
  <1>2. CASE rev' = rev
    BY <1>1, <1>2 DEF Revs
  <1>3. CASE \E x : rev' = Append(rev, x)
    BY <1>1, <1>3, AppendedKeeps
  <1>4. QED
    BY <1>2, <1>3 DEF Grows

\* Nothing about deviations happens, and no request about one begins.
LEMMA QuietOK ==
  ASSUME IInv, Grows, UNCHANGED <<snap, dev>>,
         DOMAIN req' = Handlers,
         \A g \in Handlers : req'[g] = req[g]
                             \/ (DOMAIN req'[g] = Keys /\ req'[g].pc \notin Fixing)
  PROVE  IInv'
  <1>1. /\ \E T : rev' \in Seq(T)
        /\ \A r \in Revs : r \in Revs' /\ rev'[r] = rev[r]
    BY GrowsKeeps DEF IInv
  <1>2. Shape'
    BY <1>1 DEF IInv, Shape
  <1>3. Pinned'
    BY DEF IInv, Pinned
  <1>4. \A h \in Handlers : Applying(req[h])'
    BY <1>1 DEF IInv, Applying, Fixing
  <1>5. AcceptedIsApplied'
    BY <1>1 DEF IInv, AcceptedIsApplied
  <1>6. QED
    BY <1>2, <1>3, <1>4, <1>5 DEF IInv

\* The same, of the one request that takes the step.
LEMMA StepQuiet ==
  ASSUME IInv, Grows, UNCHANGED <<snap, dev>>, NEW h \in Handlers, NEW x,
         req' = [req EXCEPT ![h] = x], DOMAIN x = Keys, x.pc \notin Fixing
  PROVE  IInv'
  <1>1. DOMAIN req = Handlers
    BY DEF IInv, Shape
  <1>2. DOMAIN req' = Handlers /\ req'[h] = x
    BY <1>1
  <1>3. \A g \in Handlers \ {h} : req'[g] = req[g]
    BY <1>1
  <1>4. \A g \in Handlers : req'[g] = req[g]
                            \/ (DOMAIN req'[g] = Keys /\ req'[g].pc \notin Fixing)
    BY <1>2, <1>3
  <1>5. QED
    BY <1>2, <1>4, QuietOK

\* A handler without a request is at rest.
LEMMA IdleOK == DOMAIN Idle = Keys /\ Idle.pc = "idle"
  BY DEF Idle, Keys

\* Steps that end a request, or do not touch one.
LEMMA EndQuiet ==
  ASSUME IInv, Grows, UNCHANGED <<snap, dev>>, NEW h \in Handlers, End(h)
  PROVE  IInv'
  BY IdleOK, StepQuiet DEF End, Goto, Fixing

LEMMA ReqQuiet ==
  ASSUME IInv, Grows, UNCHANGED <<snap, dev, req>>
  PROVE  IInv'
  <1>1. DOMAIN req' = Handlers /\ \A g \in Handlers : req'[g] = req[g]
    BY DEF IInv, Shape
  <1>2. QED
    BY <1>1, QuietOK

-----------------------------------------------------------------------------
(* Requests that are not about deviations, as they begin. *)

LEMMA BeginQuiet ==
  ASSUME IInv, NEW h \in Handlers, NEW r, Start(h, r), UNCHANGED <<rev, snap, dev>>,
         DOMAIN r = Keys, r.pc \notin Fixing
  PROVE  IInv'
  BY StepQuiet DEF Start, Grows

LEMMA TurnRequestOK ==
  ASSUME IInv, NEW h \in Handlers, TurnRequest(h)
  PROVE  IInv'
  <1>1. ASSUME NEW j \in Turns, Instruct(h, j)
        PROVE  IInv'
    <2> DEFINE r == [Idle EXCEPT !.pc = "instruct", !.who = j, !.base = Tip("canonical")]
    <2>1. DOMAIN r = Keys /\ r.pc = "instruct"
      BY IdleOK DEF Keys
    <2>2. Start(h, r) /\ UNCHANGED <<rev, snap, dev>>
      BY <1>1 DEF Instruct, scenes, progress
    <2> HIDE DEF r
    <2>3. QED
      BY <2>1, <2>2, BeginQuiet DEF Fixing
  <1>2. ASSUME NEW j \in Turns, CancelTurn(h, j)
        PROVE  IInv'
    BY <1>2, ReqQuiet DEF CancelTurn, scenes, progress, Grows
  <1>3. ASSUME NEW j \in Turns, NEW holds \in BOOLEAN, NEW valid \in BOOLEAN,
               CompleteTurn(h, j, holds, valid)
        PROVE  IInv'
    <2> DEFINE q == [Idle EXCEPT !.who = j, !.arg = turn[j].status, !.base = turn[j].base,
                                 !.holds = holds]
               r == [q EXCEPT !.pc = IF valid /\ q.base # 0 /\ q.base = Tip("canonical")
                                       THEN "turn" ELSE "reject"]
    <2>1. DOMAIN r = Keys /\ r.pc \in {"turn", "reject"}
      BY IdleOK DEF Keys
    <2>2. Start(h, r) /\ UNCHANGED <<rev, snap, dev>>
      BY <1>3 DEF CompleteTurn, scenes, progress
    <2> HIDE DEF r
    <2>3. QED
      BY <2>1, <2>2, BeginQuiet DEF Fixing
  <1>4. QED
    BY <1>1, <1>2, <1>3 DEF TurnRequest

LEMMA PhotoRequestOK ==
  ASSUME IInv, NEW h \in Handlers, PhotoRequest(h)
  PROVE  IInv'
  <1>1. ASSUME NEW kind, NEW images, NEW needs, EditPhoto(h, kind, images, needs)
        PROVE  IInv'
    <2> DEFINE r == [Idle EXCEPT !.pc = IF needs = 0 THEN "revise" ELSE "put", !.needs = needs,
                       !.base = Tip("canonical"), !.scene = rev[Tip("canonical")].content,
                       !.uses = images, !.arg = kind]
    <2>1. DOMAIN r = Keys /\ r.pc \in {"revise", "put"}
      BY IdleOK DEF Keys
    <2>2. Start(h, r) /\ UNCHANGED <<rev, snap, dev>>
      BY <1>1 DEF EditPhoto, scenes, progress
    <2> HIDE DEF r
    <2>3. QED
      BY <2>1, <2>2, BeginQuiet DEF Fixing
  <1>2. CASE Upload(h) \/ ImportProduct(h)
    <2> DEFINE r == [Idle EXCEPT !.pc = "put", !.arg = "upload", !.needs = 1]
    <2>1. DOMAIN r = Keys /\ r.pc = "put"
      BY IdleOK DEF Keys
    <2>2. Start(h, r) /\ UNCHANGED <<rev, snap, dev>>
      BY <1>2 DEF Upload, ImportProduct, scenes, progress
    <2> HIDE DEF r
    <2>3. QED
      BY <2>1, <2>2, BeginQuiet DEF Fixing
  <1>3. QED
    BY <1>1, <1>2 DEF PhotoRequest, Replace, Redesign

LEMMA JobRequestOK ==
  ASSUME IInv, NEW h \in Handlers, JobRequest(h)
  PROVE  IInv'
  <1>1. ASSUME NEW kind, NEW b, NEW uses, Order(h, kind, b, uses)
        PROVE  IInv'
    <2> DEFINE r == [Idle EXCEPT !.pc = "queue", !.arg = kind, !.base = b, !.uses = uses]
    <2>1. DOMAIN r = Keys /\ r.pc = "queue"
      BY IdleOK DEF Keys
    <2>2. Start(h, r) /\ UNCHANGED <<rev, snap, dev>>
      BY <1>1 DEF Order, scenes, progress
    <2> HIDE DEF r
    <2>3. QED
      BY <2>1, <2>2, BeginQuiet DEF Fixing
  <1>2. QED
    BY <1>1 DEF JobRequest, Generate, Render, Diagnose, AnalyzeStyle, AnalyzePlan, JobCreate

LEMMA OtherRequestOK ==
  ASSUME IInv, NEW h \in Handlers,
         \/ SaveDraft(h) \/ CommitDraft(h) \/ DeleteProject(h)
         \/ EditScene(h) \/ ArchiveVariant(h)
  PROVE  IInv'
  <1>1. CASE SaveDraft(h)
    <2> DEFINE r == [Idle EXCEPT !.pc = "save", !.n = HighestVersion + 1]
    <2>1. DOMAIN r = Keys /\ r.pc = "save"
      BY IdleOK DEF Keys
    <2>2. Start(h, r) /\ UNCHANGED <<rev, snap, dev>>
      BY <1>1 DEF SaveDraft, scenes, progress
    <2> HIDE DEF r
    <2>3. QED
      BY <2>1, <2>2, BeginQuiet DEF Fixing
  <1>2. CASE CommitDraft(h)
    <2> DEFINE r == [Idle EXCEPT !.pc = "snapshot", !.n = LatestDraft]
    <2>1. DOMAIN r = Keys /\ r.pc = "snapshot"
      BY IdleOK DEF Keys
    <2>2. Start(h, r) /\ UNCHANGED <<rev, snap, dev>>
      BY <1>2 DEF CommitDraft, scenes, progress
    <2> HIDE DEF r
    <2>3. QED
      BY <2>1, <2>2, BeginQuiet DEF Fixing
  <1>3. CASE DeleteProject(h)
    <2> DEFINE r == [Idle EXCEPT !.pc = "cascade"]
    <2>1. DOMAIN r = Keys /\ r.pc = "cascade"
      BY IdleOK DEF Keys
    <2>2. Start(h, r) /\ UNCHANGED <<rev, snap, dev>>
      BY <1>3 DEF DeleteProject, scenes, progress
    <2> HIDE DEF r
    <2>3. QED
      BY <2>1, <2>2, BeginQuiet DEF Fixing
  <1>4. CASE EditScene(h)
    <2> DEFINE r == [Idle EXCEPT !.pc = "edit", !.base = Tip("canonical")]
    <2>1. DOMAIN r = Keys /\ r.pc = "edit"
      BY IdleOK DEF Keys
    <2>2. Start(h, r) /\ UNCHANGED <<rev, snap, dev>>
      BY <1>4 DEF EditScene, scenes, progress
    <2> HIDE DEF r
    <2>3. QED
      BY <2>1, <2>2, BeginQuiet DEF Fixing
  <1>5. CASE ArchiveVariant(h)
    BY <1>5, ReqQuiet DEF ArchiveVariant, progress, Grows
  <1>6. QED
    BY <1>1, <1>2, <1>3, <1>4, <1>5

-----------------------------------------------------------------------------
(* Requests about the snapshot and its deviations. *)

LEMMA CreateSnapshotOK ==
  ASSUME IInv, NEW h \in Handlers, NEW line, CreateSnapshot(h, line)
  PROVE  IInv'
  <1>1. snap' = [snap EXCEPT !.pin = Tip(line)] /\ Tip(line) # 0 /\ UNCHANGED <<rev, dev, req>>
    BY DEF CreateSnapshot, scenes
  <1>2. DOMAIN snap' = {"pin", "deleted"} /\ snap'.pin # 0
    BY <1>1 DEF IInv, Shape
  <1>3. Shape' /\ Pinned' /\ AcceptedIsApplied'
    BY <1>1, <1>2 DEF IInv, Shape, Pinned, AcceptedIsApplied, Revs
  <1>4. \A g \in Handlers : Applying(req[g])'
    BY <1>1 DEF IInv, Applying, Revs
  <1>5. QED
    BY <1>3, <1>4 DEF IInv

LEMMA SoftDeleteOK ==
  ASSUME IInv, NEW h \in Handlers, SoftDelete(h)
  PROVE  IInv'
  <1>1. snap' = [snap EXCEPT !.deleted = TRUE] /\ UNCHANGED <<rev, dev, req>>
    BY DEF SoftDelete, scenes
  <1>2. DOMAIN snap' = {"pin", "deleted"} /\ snap'.pin = snap.pin
    BY <1>1 DEF IInv, Shape
  <1>3. Shape' /\ Pinned' /\ AcceptedIsApplied'
    BY <1>1, <1>2 DEF IInv, Shape, Pinned, AcceptedIsApplied, Revs
  <1>4. \A g \in Handlers : Applying(req[g])'
    BY <1>1 DEF IInv, Applying, Revs
  <1>5. QED
    BY <1>3, <1>4 DEF IInv

LEMMA CreateDeviationOK ==
  ASSUME IInv, NEW h \in Handlers, NEW d \in Deviations, NEW status \in Creatable,
         CreateDeviation(h, d, status)
  PROVE  IInv'
  <1> DEFINE x == [status |-> status, planned |-> snap.pin, rev |-> 0]
  <1>1. dev' = [dev EXCEPT ![d] = x] /\ snap.pin # 0 /\ UNCHANGED <<rev, snap, req>>
    BY DEF CreateDeviation, scenes
  <1>2. DOMAIN x = {"status", "planned", "rev"} /\ x.status # "accepted"
    BY DEF Creatable
  <1> HIDE DEF x
  <1>3. /\ DOMAIN dev' = Deviations /\ dev'[d] = x
        /\ \A e \in Deviations \ {d} : dev'[e] = dev[e]
    BY <1>1 DEF IInv, Shape
  <1>4. Shape' /\ Pinned' /\ AcceptedIsApplied'
    BY <1>1, <1>2, <1>3 DEF IInv, Shape, Pinned, AcceptedIsApplied, Revs
  <1>5. \A g \in Handlers : Applying(req[g])'
    BY <1>1 DEF IInv, Applying, Revs
  <1>6. QED
    BY <1>4, <1>5 DEF IInv

\* Where there is a snapshot, a request may be about a deviation.
LEMMA FixStays ==
  ASSUME IInv, snap.pin # 0, NEW h \in Handlers, NEW r, req' = [req EXCEPT ![h] = r],
         UNCHANGED <<rev, snap, dev>>,
         DOMAIN r = Keys, r.pc \in {"patch", "fix"}, r.pc = "patch" => r.arg \in Creatable
  PROVE  IInv'
  <1>1. /\ DOMAIN req' = Handlers /\ req'[h] = r
        /\ \A g \in Handlers \ {h} : req'[g] = req[g]
    BY DEF IInv, Shape
  <1>2. Shape' /\ Pinned' /\ AcceptedIsApplied'
    BY <1>1 DEF IInv, Shape, Pinned, AcceptedIsApplied, Revs
  <1>3. \A g \in Handlers : Applying(req[g])'
    BY <1>1 DEF IInv, Applying, Revs
  <1>4. QED
    BY <1>2, <1>3 DEF IInv

\* ... and there is one where there is a deviation.
LEMMA BeginFix ==
  ASSUME IInv, NEW h \in Handlers, NEW d \in Deviations, dev[d].status # "absent",
         NEW r, Start(h, r), UNCHANGED <<rev, snap, dev>>,
         DOMAIN r = Keys, r.pc \in {"patch", "fix"}, r.pc = "patch" => r.arg \in Creatable
  PROVE  IInv'
  <1>1. snap.pin # 0
    BY DEF IInv, Pinned
  <1>2. QED
    BY <1>1, FixStays DEF Start

LEMMA ProgressRequestOK ==
  ASSUME IInv, NEW h \in Handlers, ProgressRequest(h)
  PROVE  IInv'
  <1>1. ASSUME NEW d \in Deviations, NEW line, AcceptDeviation(h, d, line)
        PROVE  IInv'
    <2> DEFINE r == [Idle EXCEPT !.pc = "fix", !.who = d, !.arg = line, !.base = Tip(line)]
    <2>1. DOMAIN r = Keys /\ r.pc = "fix"
      BY IdleOK DEF Keys
    <2>2. Start(h, r) /\ UNCHANGED <<rev, snap, dev>> /\ dev[d].status # "absent"
      BY <1>1 DEF AcceptDeviation, scenes, progress
    <2> HIDE DEF r
    <2>3. QED
      BY <2>1, <2>2, BeginFix
  <1>2. ASSUME NEW d \in Deviations, NEW status \in Creatable, PatchDeviation(h, d, status)
        PROVE  IInv'
    <2> DEFINE r == [Idle EXCEPT !.pc = "patch", !.who = d, !.arg = status]
    <2>1. DOMAIN r = Keys /\ r.pc = "patch" /\ r.arg \in Creatable
      BY IdleOK DEF Keys
    <2>2. Start(h, r) /\ UNCHANGED <<rev, snap, dev>>
      BY <1>2 DEF PatchDeviation, scenes, progress
    <2>3. dev[d].status # "absent"
      BY <1>2 DEF PatchDeviation, Transitions
    <2> HIDE DEF r
    <2>4. QED
      BY <2>1, <2>2, <2>3, BeginFix
  <1>3. QED
    BY <1>1, <1>2, CreateSnapshotOK, SoftDeleteOK, CreateDeviationOK DEF ProgressRequest

\* A status other than accepted is written.
LEMMA WritePatchOK ==
  ASSUME IInv, NEW h \in Handlers, WritePatch(h)
  PROVE  IInv'
  <1> DEFINE r == req[h]
  <1>1. /\ dev' = [dev EXCEPT ![r.who] = [@ EXCEPT !.status = r.arg]]
        /\ End(h) /\ UNCHANGED <<rev, snap>>
    BY DEF WritePatch, scenes
  <1>2. r.pc = "patch" /\ r.arg \in Creatable /\ snap.pin # 0
    BY DEF WritePatch, IInv, Applying, Pinned, Fixing
  <1>3. DOMAIN dev' = Deviations
    BY <1>1 DEF IInv, Shape
  <1>4. ASSUME NEW d \in Deviations
        PROVE  /\ DOMAIN dev'[d] = {"status", "planned", "rev"}
               /\ dev'[d].status = "accepted" => dev'[d] = dev[d]
    <2>1. DOMAIN dev[d] = {"status", "planned", "rev"} /\ d \in DOMAIN dev
      BY DEF IInv, Shape
    <2>2. CASE d = r.who
      <3>1. dev'[d] = [dev[d] EXCEPT !.status = r.arg]
        BY <1>1, <2>1, <2>2
      <3>2. DOMAIN dev'[d] = {"status", "planned", "rev"} /\ dev'[d].status = r.arg
        BY <2>1, <3>1
      <3>3. QED
        BY <1>2, <3>2 DEF Creatable
    <2>3. CASE d # r.who
      BY <1>1, <2>1, <2>3
    <2>4. QED
      BY <2>2, <2>3
  <1>5. /\ DOMAIN req' = Handlers /\ req'[h] = Idle
        /\ \A g \in Handlers \ {h} : req'[g] = req[g]
    BY <1>1 DEF IInv, Shape, End, Goto
  <1>6. Shape'
    BY <1>1, <1>3, <1>4, <1>5, IdleOK DEF IInv, Shape
  <1>7. Pinned' /\ AcceptedIsApplied'
    BY <1>1, <1>2, <1>4 DEF IInv, Pinned, AcceptedIsApplied, Revs
  <1>8. \A g \in Handlers : Applying(req[g])'
    BY <1>1, <1>5, IdleOK DEF IInv, Applying, Revs
  <1>9. QED
    BY <1>6, <1>7, <1>8 DEF IInv

\* The revision that is appended is the one the request then knows.
LEMMA ApplyFixOK ==
  ASSUME IInv, NEW h \in Handlers, ApplyFix(h)
  PROVE  IInv'
  <1> DEFINE r == req[h]
             by == <<"deviation", r.who>>
             x == [line |-> r.arg, by |-> by, content |-> rev[r.base].content \cup {by}]
             q == [r EXCEPT !.pc = "accept", !.base = Len(rev) + 1]
  <1>1. UNCHANGED <<snap, dev>> /\ r.pc = "fix"
    BY DEF ApplyFix, progress
  <1>2. CASE End(h) /\ UNCHANGED scenes
    BY <1>1, <1>2, EndQuiet DEF scenes, Grows
  <1>3. CASE rev' = Append(rev, x) /\ Goto(h, q)
    <2>1. PICK S : rev \in Seq(S)
      BY DEF IInv, Shape
    <2>2. /\ \E T : rev' \in Seq(T)
          /\ Len(rev) \in Nat
          /\ Revs' = Revs \cup {Len(rev) + 1}
          /\ rev'[Len(rev) + 1] = x
          /\ \A p \in Revs : p \in Revs' /\ rev'[p] = rev[p]
      BY <1>3, <2>1, AppendedKeeps
    <2>3. DOMAIN q = Keys /\ q.pc = "accept" /\ q.base = Len(rev) + 1 /\ q.who = r.who
      BY DEF IInv, Shape, Keys
    <2>4. x.by = <<"deviation", r.who>>
      OBVIOUS
    <2> HIDE DEF q, x
    <2>5. /\ DOMAIN req' = Handlers /\ req'[h] = q
          /\ \A g \in Handlers \ {h} : req'[g] = req[g]
      BY <1>3 DEF IInv, Shape, Goto
    <2>6. snap.pin # 0
      BY <1>1 DEF IInv, Pinned, Fixing
    <2>7. Shape'
      BY <1>1, <2>2, <2>3, <2>5 DEF IInv, Shape
    <2>8. Pinned'
      BY <1>1, <2>6 DEF Pinned
    <2>9. \A p \in Revs : p \in Revs' /\ rev'[p] = rev[p]
      BY <2>2
    <2>10. /\ req'[h].pc = "accept" /\ req'[h].base \in Revs'
           /\ rev'[req'[h].base].by = <<"deviation", req'[h].who>>
      BY <2>2, <2>3, <2>4, <2>5
    <2>11. AcceptedIsApplied'
      BY <1>1, <2>9 DEF IInv, AcceptedIsApplied
    <2>12. ASSUME NEW g \in Handlers
           PROVE  Applying(req[g])'
      <3>1. CASE g = h
        BY <2>10, <3>1 DEF Applying
      <3>2. CASE g # h
        <4>1. Applying(req[g]) /\ req'[g] = req[g]
          BY <2>5, <3>2 DEF IInv
        <4>2. QED
          BY <2>9, <4>1 DEF Applying
      <3>3. QED
        BY <3>1, <3>2
    <2>13. QED
      BY <2>7, <2>8, <2>11, <2>12 DEF IInv
  <1>4. QED
    BY <1>2, <1>3 DEF ApplyFix, Onto, Inserted

\* ... and the one the deviation is marked with.
LEMMA AcceptOK ==
  ASSUME IInv, NEW h \in Handlers, Accept(h)
  PROVE  IInv'
  <1> DEFINE r == req[h]
  <1>1. /\ dev' = [dev EXCEPT ![r.who].status = "accepted", ![r.who].rev = r.base]
        /\ End(h) /\ UNCHANGED <<rev, snap>>
    BY DEF Accept, scenes
  <1>2. r.base \in Revs /\ rev[r.base].by = <<"deviation", r.who>> /\ snap.pin # 0
    BY DEF Accept, IInv, Applying, Pinned, Fixing
  <1>3. DOMAIN dev' = Deviations
    BY <1>1 DEF IInv, Shape
  <1>4. ASSUME NEW d \in Deviations
        PROVE  /\ DOMAIN dev'[d] = {"status", "planned", "rev"}
               /\ dev'[d] = dev[d] \/ (d = r.who /\ dev'[d].rev = r.base)
    <2>1. DOMAIN dev[d] = {"status", "planned", "rev"} /\ d \in DOMAIN dev
      BY DEF IInv, Shape
    <2>2. CASE d = r.who
      <3>1. dev'[d] = [[dev[d] EXCEPT !.status = "accepted"] EXCEPT !.rev = r.base]
        BY <1>1, <2>1, <2>2
      <3>2. QED
        BY <2>1, <2>2, <3>1
    <2>3. CASE d # r.who
      BY <1>1, <2>1, <2>3
    <2>4. QED
      BY <2>2, <2>3
  <1>5. /\ DOMAIN req' = Handlers /\ req'[h] = Idle
        /\ \A g \in Handlers \ {h} : req'[g] = req[g]
    BY <1>1 DEF IInv, Shape, End, Goto
  <1>6. Shape'
    BY <1>1, <1>3, <1>4, <1>5, IdleOK DEF IInv, Shape
  <1>7. Pinned'
    BY <1>1, <1>2 DEF Pinned
  <1>8. AcceptedIsApplied'
    BY <1>1, <1>2, <1>4 DEF IInv, AcceptedIsApplied, Revs
  <1>9. \A g \in Handlers : Applying(req[g])'
    BY <1>1, <1>5, IdleOK DEF IInv, Applying, Revs
  <1>10. QED
    BY <1>6, <1>7, <1>8, <1>9 DEF IInv

-----------------------------------------------------------------------------
(* The other requests, as they go on. *)

\* A request that goes on has the shape of one.
LEMMA GotoQuiet ==
  ASSUME IInv, Grows, UNCHANGED <<snap, dev>>, NEW h \in Handlers, NEW x, Goto(h, x),
         DOMAIN x = Keys, x.pc \notin Fixing
  PROVE  IInv'
  BY StepQuiet DEF Goto

\* A request that has compared its base knows no more than before.
LEMMA CompareOK ==
  ASSUME IInv, NEW h \in Handlers, Compare(h)
  PROVE  IInv'
  <1> DEFINE r == req[h]
             a == [r EXCEPT !.seen = TRUE]
             b == [r EXCEPT !.pc = "reject"]
  <1>1. /\ Goto(h, a) \/ Goto(h, b) \/ Goto(h, Idle)
        /\ r.pc \in {"edit", "fix", "turn", "revise"}
        /\ UNCHANGED <<rev, snap, dev>>
    BY DEF Compare, scenes, progress
  <1>2. /\ DOMAIN a = Keys /\ a.pc = r.pc
        /\ DOMAIN b = Keys /\ b.pc = "reject"
    BY DEF IInv, Shape, Keys
  <1> HIDE DEF a, b
  <1>3. CASE Goto(h, a) /\ r.pc = "fix"
    <2>1. snap.pin # 0
      BY <1>3 DEF IInv, Pinned, Fixing
    <2>2. QED
      BY <1>1, <1>2, <1>3, <2>1, FixStays DEF Goto
  <1>4. CASE ~(Goto(h, a) /\ r.pc = "fix")
    BY <1>1, <1>2, <1>4, GotoQuiet, IdleOK DEF Fixing, Grows
  <1>5. QED
    BY <1>3, <1>4

LEMMA ApplyEditOK ==
  ASSUME IInv, NEW h \in Handlers, ApplyEdit(h)
  PROVE  IInv'
  BY EndQuiet DEF ApplyEdit, Onto, Inserted, scenes, progress, Grows

LEMMA DraftStepOK ==
  ASSUME IInv, NEW h \in Handlers, InsertDraft(h) \/ AppendSnapshot(h) \/ MarkCommitted(h)
  PROVE  IInv'
  <1>1. CASE InsertDraft(h) \/ MarkCommitted(h)
    BY <1>1, EndQuiet DEF InsertDraft, MarkCommitted, scenes, progress, Grows
  <1>2. CASE AppendSnapshot(h)
    <2> DEFINE q == [req[h] EXCEPT !.pc = "commit"]
    <2>1. DOMAIN q = Keys /\ q.pc = "commit"
      BY DEF IInv, Shape, Keys
    <2>2. (Goto(h, q) \/ End(h)) /\ Grows /\ UNCHANGED <<snap, dev>>
      BY <1>2 DEF AppendSnapshot, Inserted, scenes, progress, Grows
    <2> HIDE DEF q
    <2>3. QED
      BY <2>1, <2>2, GotoQuiet, EndQuiet DEF Fixing
  <1>3. QED
    BY <1>1, <1>2

LEMMA TurnStepOK ==
  ASSUME IInv, NEW h \in Handlers,
         \/ InsertTurn(h) \/ ApplyTurn(h) \/ Settle(h)
         \/ \E asked \in {"none", "known", "unknown"} : Preview(h, asked)
         \/ \E camera \in BOOLEAN, images \in Named : QueueGeneration(h, camera, images)
  PROVE  IInv'
  <1>1. CASE InsertTurn(h) \/ Settle(h)
    BY <1>1, EndQuiet DEF InsertTurn, Settle, scenes, progress, Grows
  <1>2. CASE ApplyTurn(h)
    <2> DEFINE a == [req[h] EXCEPT !.n = @ + 1, !.base = Len(rev) + 1, !.seen = FALSE]
               b == [req[h] EXCEPT !.pc = "reject"]
    <2>1. /\ DOMAIN a = Keys /\ a.pc = "turn"
          /\ DOMAIN b = Keys /\ b.pc = "reject"
      BY <1>2 DEF IInv, Shape, Keys, ApplyTurn
    <2>2. (Goto(h, a) \/ Goto(h, b)) /\ Grows /\ UNCHANGED <<snap, dev>>
      BY <1>2 DEF ApplyTurn, Onto, Inserted, scenes, progress, Grows
    <2> HIDE DEF a, b
    <2>3. QED
      BY <2>1, <2>2, GotoQuiet DEF Fixing
  <1>3. ASSUME NEW asked, Preview(h, asked)
        PROVE  IInv'
    <2> DEFINE a == [req[h] EXCEPT !.pc = IF asked = "unknown" THEN "reject" ELSE "settle"]
    <2>1. DOMAIN a = Keys /\ a.pc \in {"reject", "settle"}
      BY DEF IInv, Shape, Keys
    <2>2. Goto(h, a) /\ Grows /\ UNCHANGED <<snap, dev>>
      BY <1>3 DEF Preview, scenes, progress, Grows
    <2> HIDE DEF a
    <2>3. QED
      BY <2>1, <2>2, GotoQuiet DEF Fixing
  <1>4. ASSUME NEW camera, NEW images, QueueGeneration(h, camera, images)
        PROVE  IInv'
    <2> DEFINE a == [req[h] EXCEPT !.pc = "preview"]
    <2>1. DOMAIN a = Keys /\ a.pc = "preview"
      BY DEF IInv, Shape, Keys
    <2>2. Goto(h, a) /\ Grows /\ UNCHANGED <<snap, dev>>
      BY <1>4 DEF QueueGeneration, scenes, progress, Grows
    <2> HIDE DEF a
    <2>3. QED
      BY <2>1, <2>2, GotoQuiet DEF Fixing
  <1>5. QED
    BY <1>1, <1>2, <1>3, <1>4

LEMMA PhotoStepOK ==
  ASSUME IInv, NEW h \in Handlers,
         \/ PutFile(h) \/ InsertAsset(h) \/ ReviseScene(h) \/ ReviseNothing(h)
         \/ QueueReplacement(h) \/ QueueRedesign(h) \/ QueueOrder(h) \/ QueuePayload(h)
  PROVE  IInv'
  <1>1. CASE PutFile(h)
    <2> DEFINE a == [req[h] EXCEPT !.pc = "row", !.n = drawn + 1]
    <2>1. DOMAIN a = Keys /\ a.pc = "row"
      BY DEF IInv, Shape, Keys
    <2>2. Goto(h, a) /\ Grows /\ UNCHANGED <<snap, dev>>
      BY <1>1 DEF PutFile, scenes, progress, Grows
    <2> HIDE DEF a
    <2>3. QED
      BY <2>1, <2>2, GotoQuiet DEF Fixing
  <1>2. CASE InsertAsset(h)
    <2> DEFINE r == req[h]
               a == [r EXCEPT !.needs = @ - 1, !.uses = @ \cup {r.n},
                              !.pc = IF r.needs = 1 THEN "revise" ELSE "put"]
               b == IF r.arg = "upload" THEN Idle ELSE a
    <2>1. DOMAIN a = Keys /\ a.pc \in {"revise", "put"}
      BY DEF IInv, Shape, Keys
    <2>2. (Goto(h, b) \/ End(h)) /\ Grows /\ UNCHANGED <<snap, dev>>
      BY <1>2 DEF InsertAsset, scenes, progress, Grows
    <2> HIDE DEF a
    <2>3. DOMAIN b = Keys /\ b.pc \notin Fixing
      BY <2>1, IdleOK DEF Fixing
    <2> HIDE DEF b
    <2>4. QED
      BY <2>2, <2>3, GotoQuiet, EndQuiet
  <1>3. CASE ReviseScene(h) \/ ReviseNothing(h)
    <2> DEFINE r == req[h]
               a == [r EXCEPT !.pc = "queue", !.base = Len(rev) + 1]
               b == IF r.arg = "blind" THEN Idle ELSE a
    <2>1. DOMAIN a = Keys /\ a.pc = "queue"
      BY DEF IInv, Shape, Keys
    <2>2. (Goto(h, b) \/ Goto(h, a) \/ End(h)) /\ Grows /\ UNCHANGED <<snap, dev>>
      BY <1>3 DEF ReviseScene, ReviseNothing, Onto, Inserted, scenes, progress, Grows
    <2> HIDE DEF a
    <2>3. DOMAIN b = Keys /\ b.pc \notin Fixing
      BY <2>1, IdleOK DEF Fixing
    <2> HIDE DEF b
    <2>4. QED
      BY <2>1, <2>2, <2>3, GotoQuiet, EndQuiet DEF Fixing
  <1>4. CASE QueueReplacement(h) \/ QueueRedesign(h) \/ QueueOrder(h) \/ QueuePayload(h)
    BY <1>4, EndQuiet DEF QueueReplacement, QueueRedesign, QueueOrder, QueuePayload, CreateJob,
                          scenes, progress, Grows
  <1>5. QED
    BY <1>1, <1>2, <1>3, <1>4

\* A project with a snapshot is not deleted, one without has no deviation to lose.
LEMMA CascadeOK ==
  ASSUME IInv, NEW h \in Handlers, Cascade(h)
  PROVE  IInv'
  <1>1. UNCHANGED <<snap, dev>>
    BY DEF Cascade, progress
  <1>2. CASE End(h) /\ rev' = rev
    BY <1>1, <1>2, EndQuiet DEF Grows
  <1>3. CASE snap.pin = 0 /\ rev' = <<>> /\ Goto(h, [Idle EXCEPT !.pc = "files"])
    <2> DEFINE q == [Idle EXCEPT !.pc = "files"]
    <2>1. DOMAIN q = Keys /\ q.pc = "files"
      BY IdleOK DEF Keys
    <2>2. Goto(h, q)
      BY <1>3
    <2> HIDE DEF q
    <2>3. /\ DOMAIN req' = Handlers /\ req'[h] = q
          /\ \A g \in Handlers \ {h} : req'[g] = req[g]
      BY <2>2 DEF IInv, Shape, Goto
    <2>4. \A g \in Handlers : req'[g].pc \notin Fixing
      BY <1>3, <2>1, <2>3 DEF IInv, Pinned, Fixing
    <2>5. rev' \in Seq({})
      BY <1>3, EmptySeq
    <2>6. Shape'
      BY <1>1, <2>1, <2>3, <2>5 DEF IInv, Shape
    <2>7. Pinned' /\ AcceptedIsApplied'
      BY <1>1, <1>3, <2>4 DEF IInv, Pinned, AcceptedIsApplied
    <2>8. \A g \in Handlers : Applying(req[g])'
      BY <2>4 DEF Applying, Fixing
    <2>9. QED
      BY <2>6, <2>7, <2>8 DEF IInv
  <1>4. QED
    BY <1>2, <1>3 DEF Cascade

LEMMA EndStepOK ==
  ASSUME IInv, NEW h \in Handlers, DeleteFiles(h) \/ Die(h)
  PROVE  IInv'
  <1>1. CASE DeleteFiles(h)
    BY <1>1, EndQuiet DEF DeleteFiles, scenes, progress, Grows
  <1>2. CASE Die(h)
    BY <1>2, IdleOK, StepQuiet DEF Die, scenes, progress, Grows, Fixing
  <1>3. QED
    BY <1>1, <1>2

-----------------------------------------------------------------------------
\* Whichever request begins or goes on.
LEMMA StepOK ==
  ASSUME IInv, [WorkflowNext]_workflowVars
  PROVE  IInv'
  <1>1. CASE UNCHANGED workflowVars
    BY <1>1, ReqQuiet DEF workflowVars, scenes, progress, Grows
  <1>2. ASSUME NEW h \in Handlers, Begin(h)
        PROVE  IInv'
    BY <1>2, ProgressRequestOK, TurnRequestOK, PhotoRequestOK, JobRequestOK, OtherRequestOK
       DEF Begin
  <1>3. ASSUME NEW h \in Handlers, Continue(h)
        PROVE  IInv'
    BY <1>3, CompareOK, ApplyEditOK, WritePatchOK, ApplyFixOK, AcceptOK, DraftStepOK, TurnStepOK, PhotoStepOK,
       CascadeOK, EndStepOK DEF Continue
  <1>4. ASSUME NEW q \in queued, ImageJobEnds(q)
        PROVE  IInv'
    BY <1>4, ReqQuiet DEF ImageJobEnds, scenes, progress, Grows
  <1>5. QED
    BY <1>1, <1>2, <1>3, <1>4 DEF WorkflowNext

\* A project begins without a snapshot and without requests.
LEMMA InitOK == WorkflowInit => IInv
  <1>1. SUFFICES ASSUME WorkflowInit PROVE IInv
    OBVIOUS
  <1> DEFINE a == [line |-> "canonical", by |-> <<"start", 0>>, content |-> {}]
             b == [line |-> "variant", by |-> <<"start", 0>>, content |-> {}]
  <1>2. rev = <<a, b>>
    BY <1>1 DEF WorkflowInit
  <1> HIDE DEF a, b
  <1>3. rev \in Seq({a, b})
    BY <1>2
  <1>4. Shape
    BY <1>1, <1>3, IdleOK DEF WorkflowInit, Shape
  <1>5. Pinned /\ AcceptedIsApplied /\ \A h \in Handlers : Applying(req[h])
    BY <1>1, IdleOK DEF WorkflowInit, Pinned, AcceptedIsApplied, Applying, Fixing
  <1>6. QED
    BY <1>4, <1>5 DEF IInv

\* The fix of an accepted deviation is in the history, in the revision it names, however
\* requests interleave and wherever they die (accept_deviation).
THEOREM AcceptanceTrue == WorkflowSpec => []AcceptedIsApplied
  <1>1. IInv /\ [WorkflowNext]_workflowVars => IInv'
    BY StepOK
  <1>2. IInv => AcceptedIsApplied
    BY DEF IInv
  <1>3. QED
    BY <1>1, <1>2, InitOK, PTL DEF WorkflowSpec
-----------------------------------------------------------------------------
(* What points at a revision or an asset points at one that is there.  The *)
(* requests know where they will point before they do (Inside), and a      *)
(* request that does not overlap another has the project for itself        *)
(* (Alone), so that it leaves no job behind when it deletes the project.   *)

\* every set of naturals has a smallest element, so every set of revisions has a newest
LEMMA Newest ==
  ASSUME NEW n \in Nat, NEW on, on \subseteq 1..n, on # {}
  PROVE  \E r \in on : \A q \in on : q <= r
  <1> DEFINE Less == {p \in Nat \X Nat : p[1] < p[2]}
             T == {n - r : r \in on}
  <1>1. IsWellFoundedOn(Less, Nat)
    BY NatLessThanWellFounded DEF OpToRel
  <1>2. T \subseteq Nat
    OBVIOUS
  <1>3. T # {}
    <2>1. PICK r : r \in on
      OBVIOUS
    <2>2. n - r \in T
      BY <2>1
    <2>3. QED
      BY <2>2
  <1>4. PICK x \in T : \A y \in T : ~(<<y, x>> \in Less)
    <2> HIDE DEF Less, T
    <2>1. QED
      BY <1>1, <1>2, <1>3, WFMin
  <1>5. PICK r \in on : x = n - r
    BY <1>4
  <1>6. ASSUME NEW q \in on
        PROVE  q <= r
    <2>1. n - q \in T /\ n - q \in Nat /\ n - r \in Nat /\ q \in Nat /\ r \in Nat
      BY <1>2, <1>5
    <2>2. ~(n - q < n - r)
      BY <1>4, <1>5, <2>1
    <2> HIDE DEF Less, T
    <2>3. QED
      BY <2>1, <2>2
  <1>7. QED
    BY <1>6

LEMMA TipThere ==
  ASSUME Shape, NEW line
  PROVE  Len(rev) \in Nat /\ Tip(line) \in 0..Len(rev) /\ (rev = <<>> => Tip(line) = 0)
  <1> DEFINE on == {r \in Revs : rev[r].line = line}
  <1>1. Len(rev) \in Nat
    BY LenProperties DEF Shape
  <1>2. on \subseteq 1..Len(rev)
    BY DEF Revs
  <1>3. Tip(line) = IF on = {} THEN 0 ELSE CHOOSE r \in on : \A q \in on : q <= r
    BY DEF Tip
  <1> HIDE DEF on
  <1>4. CASE on = {}
    BY <1>1, <1>3, <1>4
  <1>5. CASE on # {}
    <2>1. Tip(line) \in on
      BY <1>1, <1>2, <1>3, <1>5, Newest
    <2>2. Tip(line) \in 1..Len(rev)
      BY <1>2, <2>1
    <2>3. rev # <<>>
      <3>1. SUFFICES ASSUME rev = <<>> PROVE FALSE
        OBVIOUS
      <3>2. Len(rev) = 0
        BY <3>1
      <3>3. QED
        BY <2>2, <3>2
    <2>4. QED
      BY <1>1, <2>2, <2>3
  <1>6. QED
    BY <1>4, <1>5

\* what a request will point at, or knows to be stored
Inside(r) ==
  /\ r.base \in 0..Len(rev)
  /\ r.arg = "payload" \/ r.uses \subseteq asset
  /\ r.pc = "row" => r.n \in store
  /\ r.pc # "files"

\* what a job points at is there
Sound(q) == q.rev \in 0..Len(rev) /\ (q.by = "route" => q.assets \subseteq asset)

There ==
  /\ snap.pin \in 0..Len(rev)
  /\ \A d \in Deviations : dev[d].planned \in 0..Len(rev)
  /\ \A q \in queued : Sound(q)
  /\ asset \subseteq store
  /\ \A j \in Turns : turn[j].base \in 0..Len(rev)
  /\ \A h \in Handlers : Inside(req[h])

Gone == rev = <<>> /\ draft = <<>> /\ asset = {} /\ snap.pin = 0

Alone ==
  /\ overlaps \in Nat
  /\ overlaps = 0 =>
       /\ \A g, h \in Handlers : g # h => req[g].pc = "idle" \/ req[h].pc = "idle"
       /\ ~alive => /\ queued = {} /\ turn = NoTurns
                    /\ \A h \in Handlers : req[h].pc \in {"idle", "files"}

TurnRows == DOMAIN turn = Turns /\ \A j \in Turns : DOMAIN turn[j] = {"status", "base"}

Tied ==
  /\ TurnRows /\ Alone
  /\ alive \in BOOLEAN
  /\ alive => There
  /\ ~alive => Gone

LEMMA GrowsLonger ==
  ASSUME Shape, Grows
  PROVE  Len(rev) \in Nat /\ Len(rev') \in Nat /\ Len(rev) <= Len(rev')
  <1>1. PICK S : rev \in Seq(S)
    BY DEF Shape
  <1>2. CASE rev' = rev
    BY <1>1, <1>2, LenProperties
  <1>3. ASSUME NEW x, rev' = Append(rev, x)
        PROVE  Len(rev) \in Nat /\ Len(rev') = Len(rev) + 1
    <2>1. S \subseteq S \cup {x}
      OBVIOUS
    <2>2. rev \in Seq(S \cup {x})
      BY <1>1, <2>1, SeqMonotonic
    <2>3. QED
      BY <1>1, <1>3, <2>2, AppendProperties, LenProperties
  <1>4. QED
    BY <1>2, <1>3 DEF Grows

LEMMA ServeCounts ==
  ASSUME Tied, NEW h \in Handlers, Serve(h)
  PROVE  /\ overlaps' \in Nat /\ req[h].pc = "idle"
         /\ overlaps' = 0 => /\ overlaps = 0
                             /\ \A g \in Handlers \ {h} : req[g].pc = "idle"
  BY DEF Tied, Alone, Serve, Free

LEMMA IdleInside ==
  ASSUME Len(rev) \in Nat
  PROVE  Inside(Idle)
  BY DEF Inside, Idle

\* A step of one request in a project that stays.
LEMMA LiveStep ==
  ASSUME IInv, Tied, alive, alive' = alive, Grows, TurnRows',
         asset \subseteq asset', store \subseteq store', asset' \subseteq store',
         snap'.pin = snap.pin \/ snap'.pin \in 0..Len(rev),
         \A d \in Deviations : dev'[d].planned \in {dev[d].planned, snap.pin},
         \A q \in queued' : q \in queued \/ Sound(q)',
         \A j \in Turns : turn'[j].base = turn[j].base \/ turn'[j].base \in 0..Len(rev),
         NEW h \in Handlers, \A g \in Handlers \ {h} : req'[g] = req[g], Inside(req[h])',
         overlaps' \in Nat,
         overlaps' = 0 => /\ overlaps = 0
                          /\ \/ req[h].pc # "idle" \/ req'[h].pc = "idle"
                             \/ \A g \in Handlers \ {h} : req[g].pc = "idle"
  PROVE  Tied'
  <1>1. Len(rev) \in Nat /\ Len(rev') \in Nat /\ Len(rev) <= Len(rev')
    BY GrowsLonger DEF IInv
  <1>2. \A i : i \in 0..Len(rev) => i \in 0..Len(rev')
    BY <1>1
  <1>3. There
    BY DEF Tied
  <1>4. \A g \in Handlers : Inside(req[g])'
    BY <1>2, <1>3 DEF There, Inside
  <1>5. There'
    BY <1>2, <1>3, <1>4 DEF There, Sound
  <1>6. Alone'
    BY DEF Tied, Alone
  <1>7. QED
    BY <1>5, <1>6 DEF Tied

\* A request begins that points at what is there.
LEMMA BeginLive ==
  ASSUME IInv, Tied, alive, alive' = alive, NEW h \in Handlers, NEW r, Start(h, r),
         UNCHANGED <<rev, snap, dev, turn, queued, asset, store>>,
         r.base \in 0..Len(rev), r.arg = "payload" \/ r.uses \subseteq asset,
         r.pc \notin {"row", "files"}
  PROVE  Tied'
  <1>1. /\ req'[h] = r /\ \A g \in Handlers \ {h} : req'[g] = req[g]
    BY DEF Start, IInv, Shape
  <1>2. /\ overlaps' \in Nat /\ req[h].pc = "idle"
        /\ overlaps' = 0 => /\ overlaps = 0
                            /\ \A g \in Handlers \ {h} : req[g].pc = "idle"
    BY ServeCounts DEF Start
  <1>3. Inside(req[h])'
    BY <1>1 DEF Inside
  <1>4. Grows /\ TurnRows' /\ asset' \subseteq store'
    BY DEF Grows, Tied, TurnRows, There
  <1>5. QED
    BY <1>1, <1>2, <1>3, <1>4, LiveStep

\* A request does all it does at once.
LEMMA AtOnceLive ==
  ASSUME IInv, Tied, alive, alive' = alive, NEW h \in Handlers, Serve(h), req' = req,
         Grows, TurnRows', UNCHANGED <<queued, asset, store>>,
         snap'.pin = snap.pin \/ snap'.pin \in 0..Len(rev),
         \A d \in Deviations : dev'[d].planned \in {dev[d].planned, snap.pin},
         \A j \in Turns : turn'[j].base = turn[j].base
  PROVE  Tied'
  <1>1. /\ overlaps' \in Nat /\ req[h].pc = "idle" /\ req'[h] = req[h]
        /\ overlaps' = 0 => overlaps = 0
    BY ServeCounts
  <1>2. Len(rev) \in Nat /\ Len(rev') \in Nat /\ Len(rev) <= Len(rev')
    BY GrowsLonger DEF IInv
  <1>3. Inside(req[h])' /\ asset' \subseteq store'
    BY <1>1, <1>2 DEF Tied, There, Inside
  <1>4. QED
    BY <1>1, <1>3, LiveStep

\* A request goes on or ends; only the queue and the history may change.
LEMMA GotoLive ==
  ASSUME IInv, Tied, alive, alive' = alive, NEW h \in Handlers, req[h].pc # "idle", NEW x,
         Goto(h, x), Grows, UNCHANGED <<snap, turn, asset, store>>,
         \A d \in Deviations : dev'[d].planned = dev[d].planned,
         \A q \in queued' : q \in queued \/ Sound(q)',
         x.base \in 0..Len(rev'), x.arg = "payload" \/ x.uses \subseteq asset,
         x.pc \notin {"row", "files"}
  PROVE  Tied'
  <1>1. /\ req'[h] = x /\ \A g \in Handlers \ {h} : req'[g] = req[g]
        /\ overlaps' = overlaps
    BY DEF Goto, counts, IInv, Shape
  <1>2. Inside(req[h])'
    BY <1>1 DEF Inside
  <1>3. TurnRows' /\ asset' \subseteq store' /\ overlaps' \in Nat
    BY <1>1 DEF Tied, TurnRows, There, Alone
  <1>4. QED
    BY <1>1, <1>2, <1>3, LiveStep

LEMMA EndLive ==
  ASSUME IInv, Tied, alive, alive' = alive, NEW h \in Handlers, req[h].pc # "idle", End(h),
         Grows, UNCHANGED <<snap, turn, asset, store>>,
         \A d \in Deviations : dev'[d].planned = dev[d].planned,
         \A q \in queued' : q \in queued \/ Sound(q)'
  PROVE  Tied'
  <1>1. Idle.base \in 0..Len(rev') /\ Idle.uses = {} /\ Idle.pc = "idle"
    BY GrowsLonger DEF Idle, IInv
  <1>2. Goto(h, Idle)
    BY DEF End
  <1> HIDE DEF Idle
  <1>3. QED
    BY <1>1, <1>2, GotoLive

\* A revision more.
LEMMA OneMore ==
  ASSUME Shape, NEW line, NEW by, NEW content, Inserted(line, by, content)
  PROVE  Grows /\ Len(rev) + 1 \in 0..Len(rev')
  <1> DEFINE x == [line |-> line, by |-> by, content |-> content]
  <1>1. PICK S : rev \in Seq(S)
    BY DEF Shape
  <1>2. rev' = Append(rev, x)
    BY DEF Inserted
  <1> HIDE DEF x
  <1>3. rev \in Seq(S \cup {x})
    <2>1. S \subseteq S \cup {x}
      OBVIOUS
    <2>2. QED
      BY <1>1, <2>1, SeqMonotonic
  <1>4. Len(rev') = Len(rev) + 1 /\ Len(rev) \in Nat
    BY <1>2, <1>3, AppendProperties, LenProperties
  <1>5. QED
    BY <1>2, <1>4 DEF Grows

-----------------------------------------------------------------------------
(* Requests that begin. *)

LEMMA LiveProgress ==
  ASSUME IInv, Tied, alive, NEW h \in Handlers, ProgressRequest(h)
  PROVE  Tied'
  <1>1. \A line : Tip(line) \in 0..Len(rev) /\ Len(rev) \in Nat
    BY TipThere DEF IInv
  <1>2. ASSUME NEW line, CreateSnapshot(h, line)
        PROVE  Tied'
    <2>1. snap' = [snap EXCEPT !.pin = Tip(line)]
      BY <1>2 DEF CreateSnapshot
    <2>2. snap'.pin = Tip(line)
      BY <2>1 DEF IInv, Shape
    <2>3. /\ Serve(h) /\ UNCHANGED <<req, alive, rev, dev, turn, queued, asset, store>>
      BY <1>2 DEF CreateSnapshot, scenes, jobs, files
    <2>4. TurnRows' /\ Grows
      BY <2>3 DEF Tied, TurnRows, Grows
    <2>5. QED
      BY <1>1, <2>2, <2>3, <2>4, AtOnceLive
  <1>3. CASE SoftDelete(h)
    <2>1. snap' = [snap EXCEPT !.deleted = TRUE]
      BY <1>3 DEF SoftDelete
    <2>2. snap'.pin = snap.pin
      BY <2>1 DEF IInv, Shape
    <2>3. /\ Serve(h) /\ UNCHANGED <<req, alive, rev, dev, turn, queued, asset, store>>
      BY <1>3 DEF SoftDelete, scenes, jobs, files
    <2>4. TurnRows' /\ Grows
      BY <2>3 DEF Tied, TurnRows, Grows
    <2>5. QED
      BY <2>2, <2>3, <2>4, AtOnceLive
  <1>4. ASSUME NEW d \in Deviations, NEW status, CreateDeviation(h, d, status)
        PROVE  Tied'
    <2>1. dev' = [dev EXCEPT ![d] = [status |-> status, planned |-> snap.pin, rev |-> 0]]
      BY <1>4 DEF CreateDeviation
    <2>2. \A e \in Deviations : dev'[e].planned \in {dev[e].planned, snap.pin}
      BY <2>1 DEF IInv, Shape
    <2>3. /\ Serve(h) /\ UNCHANGED <<req, alive, rev, snap, turn, queued, asset, store>>
      BY <1>4 DEF CreateDeviation, scenes, jobs, files
    <2>4. TurnRows' /\ Grows
      BY <2>3 DEF Tied, TurnRows, Grows
    <2>5. QED
      BY <2>2, <2>3, <2>4, AtOnceLive
  <1>5. ASSUME NEW d \in Deviations, NEW status, PatchDeviation(h, d, status)
        PROVE  Tied'
    <2> DEFINE r == [Idle EXCEPT !.pc = "patch", !.who = d, !.arg = status]
    <2>1. Start(h, r) /\ UNCHANGED <<alive, rev, snap, dev, turn, queued, asset, store>>
      BY <1>5 DEF PatchDeviation, scenes, progress, jobs, files
    <2>2. r.base = 0 /\ r.uses = {} /\ r.pc = "patch"
      BY DEF Idle
    <2> HIDE DEF r
    <2>3. QED
      BY <1>1, <2>1, <2>2, BeginLive
  <1>6. ASSUME NEW d \in Deviations, NEW line, AcceptDeviation(h, d, line)
        PROVE  Tied'
    <2> DEFINE r == [Idle EXCEPT !.pc = "fix", !.who = d, !.arg = line, !.base = Tip(line)]
    <2>1. Start(h, r) /\ UNCHANGED <<alive, rev, snap, dev, turn, queued, asset, store>>
      BY <1>6 DEF AcceptDeviation, scenes, progress, jobs, files
    <2>2. r.base = Tip(line) /\ r.uses = {} /\ r.pc = "fix"
      BY DEF Idle
    <2> HIDE DEF r
    <2>3. QED
      BY <1>1, <2>1, <2>2, BeginLive
  <1>7. QED
    BY <1>2, <1>3, <1>4, <1>5, <1>6 DEF ProgressRequest

LEMMA LiveTurn ==
  ASSUME IInv, Tied, alive, NEW h \in Handlers, TurnRequest(h)
  PROVE  Tied'
  <1>1. Tip("canonical") \in 0..Len(rev)
    BY TipThere DEF IInv
  <1>2. ASSUME NEW j \in Turns, Instruct(h, j)
        PROVE  Tied'
    <2> DEFINE r == [Idle EXCEPT !.pc = "instruct", !.who = j, !.base = Tip("canonical")]
    <2>1. Start(h, r) /\ UNCHANGED <<alive, rev, snap, dev, turn, queued, asset, store>>
      BY <1>2 DEF Instruct, scenes, progress, jobs, files
    <2>2. r.base = Tip("canonical") /\ r.uses = {} /\ r.pc = "instruct"
      BY DEF Idle
    <2> HIDE DEF r
    <2>3. QED
      BY <1>1, <2>1, <2>2, BeginLive
  <1>3. ASSUME NEW j \in Turns, CancelTurn(h, j)
        PROVE  Tied'
    <2>1. turn' = [turn EXCEPT ![j] = [@ EXCEPT !.status = "cancelled"]]
      BY <1>3 DEF CancelTurn
    <2>2. TurnRows' /\ \A k \in Turns : turn'[k].base = turn[k].base
      BY <2>1 DEF Tied, TurnRows
    <2>3. /\ Serve(h) /\ UNCHANGED <<req, alive, rev, snap, dev, queued, asset, store>>
      BY <1>3 DEF CancelTurn, scenes, progress, files
    <2>4. Grows
      BY <2>3 DEF Grows
    <2>5. QED
      BY <2>2, <2>3, <2>4, AtOnceLive
  <1>4. ASSUME NEW j \in Turns, NEW holds, NEW valid, CompleteTurn(h, j, holds, valid)
        PROVE  Tied'
    <2> DEFINE q == [Idle EXCEPT !.who = j, !.arg = turn[j].status, !.base = turn[j].base,
                                 !.holds = holds]
               r == [q EXCEPT !.pc = IF valid /\ q.base # 0 /\ q.base = Tip("canonical")
                                       THEN "turn" ELSE "reject"]
    <2>1. Start(h, r) /\ UNCHANGED <<alive, rev, snap, dev, turn, queued, asset, store>>
      BY <1>4 DEF CompleteTurn, scenes, progress, jobs, files
    <2>2. r.base = turn[j].base /\ r.uses = {} /\ r.pc \in {"turn", "reject"}
      BY DEF Idle
    <2> HIDE DEF r
    <2>3. turn[j].base \in 0..Len(rev)
      BY DEF Tied, There
    <2>4. QED
      BY <2>1, <2>2, <2>3, BeginLive
  <1>5. QED
    BY <1>2, <1>3, <1>4 DEF TurnRequest

LEMMA LivePhoto ==
  ASSUME IInv, Tied, alive, NEW h \in Handlers, PhotoRequest(h)
  PROVE  Tied'
  <1>1. Tip("canonical") \in 0..Len(rev) /\ Len(rev) \in Nat
    BY TipThere DEF IInv
  <1>2. ASSUME NEW kind, NEW images, NEW needs, EditPhoto(h, kind, images, needs)
        PROVE  Tied'
    <2> DEFINE r == [Idle EXCEPT !.pc = IF needs = 0 THEN "revise" ELSE "put", !.needs = needs,
                       !.base = Tip("canonical"), !.scene = rev[Tip("canonical")].content,
                       !.uses = images, !.arg = kind]
    <2>1. Start(h, r) /\ UNCHANGED <<alive, rev, snap, dev, turn, queued, asset, store>>
      BY <1>2 DEF EditPhoto, scenes, progress, jobs, files
    <2>2. r.base = Tip("canonical") /\ r.uses = images /\ r.pc \in {"revise", "put"}
      BY DEF Idle
    <2>3. images \subseteq asset
      BY <1>2 DEF EditPhoto
    <2> HIDE DEF r
    <2>4. QED
      BY <1>1, <2>1, <2>2, <2>3, BeginLive
  <1>3. CASE Upload(h) \/ ImportProduct(h)
    <2> DEFINE r == [Idle EXCEPT !.pc = "put", !.arg = "upload", !.needs = 1]
    <2>1. Start(h, r) /\ UNCHANGED <<alive, rev, snap, dev, turn, queued, asset, store>>
      BY <1>3 DEF Upload, ImportProduct, scenes, progress, jobs, files
    <2>2. r.base = 0 /\ r.uses = {} /\ r.pc = "put"
      BY DEF Idle
    <2> HIDE DEF r
    <2>3. QED
      BY <1>1, <2>1, <2>2, BeginLive
  <1>4. QED
    BY <1>2, <1>3 DEF PhotoRequest, Replace, Redesign

LEMMA LiveJob ==
  ASSUME IInv, Tied, alive, NEW h \in Handlers, JobRequest(h)
  PROVE  Tied'
  <1>1. Len(rev) \in Nat
    BY GrowsLonger, TipThere DEF IInv
  <1>2. ASSUME NEW kind, NEW b \in 0..Len(rev), NEW uses, Order(h, kind, b, uses),
               kind = "payload" \/ uses \subseteq asset
        PROVE  Tied'
    <2> DEFINE r == [Idle EXCEPT !.pc = "queue", !.arg = kind, !.base = b, !.uses = uses]
    <2>1. Start(h, r) /\ UNCHANGED <<alive, rev, snap, dev, turn, queued, asset, store>>
      BY <1>2 DEF Order, scenes, progress, jobs, files
    <2>2. r.base = b /\ r.uses = uses /\ r.pc = "queue" /\ r.arg = kind
      BY DEF Idle
    <2> HIDE DEF r
    <2>3. QED
      BY <1>2, <2>1, <2>2, BeginLive
  <1>3. \A r \in Revs : r \in 0..Len(rev)
    BY <1>1 DEF Revs
  <1>4. CASE \E r \in Revs : Render(h, r) \/ \E images \in Named : Generate(h, r, images)
    <2>1. PICK r \in Revs, images \in SUBSET asset : Order(h, "order", r, images)
      BY <1>4 DEF Generate, Render
    <2>2. QED
      BY <1>2, <1>3, <2>1
  <1>5. CASE \E r \in Revs, image \in asset : Diagnose(h, r, image)
    <2>1. PICK r \in Revs, image \in asset : Order(h, "order", r, {image})
      BY <1>5 DEF Diagnose
    <2>2. {image} \subseteq asset
      OBVIOUS
    <2>3. QED
      BY <1>2, <1>3, <2>1, <2>2
  <1>6. CASE \E image \in asset : AnalyzeStyle(h, image) \/ AnalyzePlan(h, image)
    <2>1. PICK image \in asset : Order(h, "order", 0, {image})
      BY <1>6 DEF AnalyzeStyle, AnalyzePlan
    <2>2. {image} \subseteq asset /\ 0 \in 0..Len(rev)
      BY <1>1
    <2>3. QED
      BY <1>2, <2>1, <2>2
  <1>7. CASE \E images \in Named : JobCreate(h, images)
    <2>1. PICK images \in Named : Order(h, "payload", 0, images)
      BY <1>7 DEF JobCreate
    <2>2. 0 \in 0..Len(rev)
      BY <1>1
    <2>3. QED
      BY <1>2, <2>1, <2>2
  <1>8. QED
    BY <1>4, <1>5, <1>6, <1>7 DEF JobRequest

LEMMA LiveOther ==
  ASSUME IInv, Tied, alive, NEW h \in Handlers,
         \/ SaveDraft(h) \/ CommitDraft(h) \/ DeleteProject(h)
         \/ EditScene(h) \/ ArchiveVariant(h)
  PROVE  Tied'
  <1>1. Len(rev) \in Nat
    BY TipThere DEF IInv
  <1>2. CASE SaveDraft(h) \/ CommitDraft(h) \/ DeleteProject(h)
    <2> DEFINE a == [Idle EXCEPT !.pc = "save", !.n = HighestVersion + 1]
               b == [Idle EXCEPT !.pc = "snapshot", !.n = LatestDraft]
               c == [Idle EXCEPT !.pc = "cascade"]
    <2>1. /\ Start(h, a) \/ Start(h, b) \/ Start(h, c)
          /\ UNCHANGED <<alive, rev, snap, dev, turn, queued, asset, store>>
      BY <1>2 DEF SaveDraft, CommitDraft, DeleteProject, scenes, progress, jobs, files
    <2>2. /\ a.base = 0 /\ a.uses = {} /\ a.pc = "save"
          /\ b.base = 0 /\ b.uses = {} /\ b.pc = "snapshot"
          /\ c.base = 0 /\ c.uses = {} /\ c.pc = "cascade"
      BY DEF Idle
    <2> HIDE DEF a, b, c
    <2>3. QED
      BY <1>1, <2>1, <2>2, BeginLive
  <1>3. CASE EditScene(h)
    <2> DEFINE r == [Idle EXCEPT !.pc = "edit", !.base = Tip("canonical")]
    <2>1. Start(h, r) /\ UNCHANGED <<alive, rev, snap, dev, turn, queued, asset, store>>
      BY <1>3 DEF EditScene, scenes, progress, jobs, files
    <2>2. r.base = Tip("canonical") /\ r.uses = {} /\ r.pc = "edit"
      BY DEF Idle
    <2>3. Tip("canonical") \in 0..Len(rev)
      BY TipThere DEF IInv
    <2> HIDE DEF r
    <2>4. QED
      BY <2>1, <2>2, <2>3, BeginLive
  <1>4. CASE ArchiveVariant(h)
    <2>1. Grows
      BY <1>4 DEF ArchiveVariant, Grows
    <2>2. /\ Serve(h) /\ UNCHANGED <<req, alive, snap, dev, turn, queued, asset, store>>
      BY <1>4 DEF ArchiveVariant, progress, jobs, files
    <2>3. TurnRows'
      BY <2>2 DEF Tied, TurnRows
    <2>4. QED
      BY <2>1, <2>2, <2>3, AtOnceLive
  <1>5. QED
    BY <1>2, <1>3, <1>4

\* In a project that is gone only a job that has outlived it is cancelled or completed.
LEMMA GoneBegins ==
  ASSUME IInv, Tied, ~alive, NEW h \in Handlers, Begin(h)
  PROVE  Tied'
  <1>1. /\ rev = <<>> /\ asset = {} /\ snap.pin = 0 /\ Revs = {} /\ draft = <<>>
    BY DEF Tied, Gone, Revs
  <1>2. \A line : Tip(line) = 0
    BY <1>1, TipThere DEF IInv
  <1>3. \A d \in Deviations : dev[d].status = "absent"
    BY <1>1 DEF IInv, Pinned
  <1>4. \E j \in Turns :
          CancelTurn(h, j) \/ \E holds, valid \in BOOLEAN : CompleteTurn(h, j, holds, valid)
    <2>1. ~ProgressRequest(h)
      BY <1>1, <1>2, <1>3
         DEF ProgressRequest, CreateSnapshot, AcceptDeviation, CreateDeviation, PatchDeviation,
             SoftDelete, Transitions
    <2>2. ~PhotoRequest(h)
      BY <1>1, <1>2 DEF PhotoRequest, Photos, Upload, ImportProduct
    <2>3. ~JobRequest(h)
      BY <1>1 DEF JobRequest, AnalyzeStyle, AnalyzePlan, JobCreate
    <2>4. \A j \in Turns : ~Instruct(h, j)
      BY <1>2 DEF Instruct
    <2>5. ~EditScene(h)
      BY <1>2 DEF EditScene
    <2>6. QED
      BY <2>1, <2>2, <2>3, <2>4, <2>5
         DEF Begin, TurnRequest, SaveDraft, CommitDraft, ArchiveVariant, DeleteProject
  <1>5. PICK j \in Turns :
          CancelTurn(h, j) \/ \E holds, valid \in BOOLEAN : CompleteTurn(h, j, holds, valid)
    BY <1>4
  <1>6. /\ Serve(h) /\ turn[j].status # "absent"
        /\ UNCHANGED <<alive, rev, snap, draft, asset>>
        /\ turn' = turn \/ turn' = [turn EXCEPT ![j] = [@ EXCEPT !.status = "cancelled"]]
    <2>1. CASE CancelTurn(h, j)
      BY <2>1 DEF CancelTurn, scenes, progress, files
    <2>2. ASSUME NEW holds, NEW valid, CompleteTurn(h, j, holds, valid)
          PROVE  /\ Serve(h) /\ turn[j].status # "absent"
                 /\ UNCHANGED <<alive, rev, snap, draft, asset, turn>>
      BY <2>2 DEF CompleteTurn, Start, scenes, progress, jobs, files
    <2>3. QED
      BY <1>5, <2>1, <2>2
  <1>7. turn # NoTurns
    BY <1>6 DEF NoTurns
  <1>8. overlaps' \in Nat /\ overlaps' # 0
    BY <1>6, <1>7, ServeCounts DEF Tied, Alone
  <1>9. TurnRows'
    BY <1>6 DEF Tied, TurnRows
  <1>10. Gone'
    BY <1>1, <1>6 DEF Gone
  <1>11. QED
    BY <1>6, <1>8, <1>9, <1>10 DEF Tied, Alone

-----------------------------------------------------------------------------
(* Requests that go on. *)

LEMMA LiveProgressStep ==
  ASSUME IInv, Tied, alive, NEW h \in Handlers, WritePatch(h) \/ ApplyFix(h) \/ Accept(h)
  PROVE  Tied'
  <1>1. req[h].pc # "idle"
    BY DEF WritePatch, ApplyFix, Accept
  <1>2. CASE WritePatch(h) \/ Accept(h)
    <2>1. \/ dev' = [dev EXCEPT ![req[h].who].status = req[h].arg]
          \/ dev' = [dev EXCEPT ![req[h].who].status = "accepted", ![req[h].who].rev = req[h].base]
      BY <1>2 DEF WritePatch, Accept
    <2>2. \A d \in Deviations : dev'[d].planned = dev[d].planned
      BY <2>1 DEF IInv, Shape
    <2>3. End(h) /\ UNCHANGED <<alive, rev, snap, turn, queued, asset, store>>
      BY <1>2 DEF WritePatch, Accept, scenes, jobs, files
    <2>4. Grows
      BY <2>3 DEF Grows
    <2>5. QED
      BY <1>1, <2>2, <2>3, <2>4, EndLive
  <1>3. CASE ApplyFix(h)
    <2> DEFINE r == req[h]
               by == <<"deviation", r.who>>
               x == [r EXCEPT !.pc = "accept", !.base = Len(rev) + 1]
    <2>1. UNCHANGED <<alive, snap, dev, turn, queued, asset, store>>
      BY <1>3 DEF ApplyFix, progress, jobs, files
    <2>2. CASE End(h) /\ UNCHANGED scenes
      BY <1>1, <2>1, <2>2, EndLive DEF scenes, Grows
    <2>3. CASE Inserted(r.arg, by, rev[r.base].content \cup {by}) /\ Goto(h, x)
      <3>1. x.base = Len(rev) + 1 /\ x.uses = r.uses /\ x.pc = "accept" /\ x.arg = r.arg
        BY DEF IInv, Shape, Keys
      <3>2. r.arg = "payload" \/ r.uses \subseteq asset
        BY DEF Tied, There, Inside
      <3>3. Grows /\ Len(rev) + 1 \in 0..Len(rev')
        BY <2>3, OneMore DEF IInv
      <3> HIDE DEF x
      <3>4. QED
        BY <1>1, <2>1, <2>3, <3>1, <3>2, <3>3, GotoLive
    <2>4. QED
      BY <1>3, <2>2, <2>3 DEF ApplyFix, Onto
  <1>4. QED
    BY <1>2, <1>3

LEMMA LiveDraftStep ==
  ASSUME IInv, Tied, alive, NEW h \in Handlers,
         InsertDraft(h) \/ AppendSnapshot(h) \/ MarkCommitted(h)
  PROVE  Tied'
  <1>1. /\ req[h].pc # "idle" /\ UNCHANGED <<alive, snap, dev, turn, queued, asset, store>>
    BY DEF InsertDraft, AppendSnapshot, MarkCommitted, progress, jobs, files
  <1>2. CASE End(h) /\ UNCHANGED scenes
    BY <1>1, <1>2, EndLive DEF scenes, Grows
  <1>3. CASE AppendSnapshot(h) /\ ~(End(h) /\ UNCHANGED scenes)
    <2> DEFINE by == <<"draft", req[h].n>>
               x == [req[h] EXCEPT !.pc = "commit"]
    <2>1. Inserted("canonical", by, {by}) /\ Goto(h, x)
      BY <1>3 DEF AppendSnapshot
    <2>2. /\ x.base = req[h].base /\ x.uses = req[h].uses /\ x.pc = "commit"
          /\ x.arg = req[h].arg
      BY DEF IInv, Shape, Keys
    <2> HIDE DEF x
    <2>3. /\ req[h].base \in 0..Len(rev)
          /\ req[h].arg = "payload" \/ req[h].uses \subseteq asset
      BY DEF Tied, There, Inside
    <2>4. Grows /\ Len(rev') \in Nat /\ Len(rev) <= Len(rev') /\ Len(rev) \in Nat
      BY <2>1, OneMore, GrowsLonger DEF IInv
    <2>5. QED
      BY <1>1, <2>1, <2>2, <2>3, <2>4, GotoLive
  <1>4. QED
    BY <1>2, <1>3 DEF InsertDraft, MarkCommitted

LEMMA LiveEditStep ==
  ASSUME IInv, Tied, alive, NEW h \in Handlers, Compare(h) \/ ApplyEdit(h)
  PROVE  Tied'
  <1> DEFINE r == req[h]
  <1>1. /\ r.pc \in {"edit", "fix", "turn", "revise"}
        /\ UNCHANGED <<alive, snap, dev, turn, queued, asset, store>>
    BY DEF Compare, ApplyEdit, progress, jobs, files
  <1>2. CASE Compare(h)
    <2> DEFINE a == [r EXCEPT !.seen = TRUE]
               b == [r EXCEPT !.pc = "reject"]
    <2>1. (Goto(h, a) \/ Goto(h, b) \/ End(h)) /\ rev' = rev
      BY <1>2 DEF Compare, End, scenes
    <2>2. /\ a.base = r.base /\ a.uses = r.uses /\ a.arg = r.arg /\ a.pc = r.pc
          /\ b.base = r.base /\ b.uses = r.uses /\ b.arg = r.arg /\ b.pc = "reject"
      BY DEF IInv, Shape, Keys
    <2> HIDE DEF a, b
    <2>3. r.base \in 0..Len(rev) /\ (r.arg = "payload" \/ r.uses \subseteq asset)
      BY DEF Tied, There, Inside
    <2>4. Grows
      BY <2>1 DEF Grows
    <2>5. QED
      BY <1>1, <2>1, <2>2, <2>3, <2>4, GotoLive, EndLive
  <1>3. CASE ApplyEdit(h)
    <2>1. End(h) /\ Grows
      BY <1>3 DEF ApplyEdit, Onto, Inserted, scenes, Grows
    <2>2. QED
      BY <1>1, <2>1, EndLive
  <1>4. QED
    BY <1>2, <1>3

\* The rows of the design agent's jobs: a base once given stays.
LEMMA TurnedRows ==
  ASSUME Tied, NEW h \in Handlers, InsertTurn(h) \/ Settle(h)
  PROVE  TurnRows' /\ \A j \in Turns : turn'[j].base \in {turn[j].base, req[h].base}
  <1> DEFINE r == req[h]
  <1>1. DOMAIN turn = Turns /\ \A j \in Turns : DOMAIN turn[j] = {"status", "base"}
    BY DEF Tied, TurnRows
  <1>2. CASE turn' = turn
    BY <1>1, <1>2 DEF TurnRows
  <1>3. CASE turn' = [turn EXCEPT ![r.who] = [status |-> "active", base |-> r.base]]
    BY <1>1, <1>3 DEF TurnRows
  <1>4. ASSUME NEW s, turn' = [turn EXCEPT ![r.who] = [@ EXCEPT !.status = s]]
        PROVE  TurnRows' /\ \A j \in Turns : turn'[j].base = turn[j].base
    BY <1>1, <1>4 DEF TurnRows
  <1>5. QED
    BY <1>2, <1>3, <1>4 DEF InsertTurn, Settle

LEMMA LiveTurnStep ==
  ASSUME IInv, Tied, alive, NEW h \in Handlers,
         \/ InsertTurn(h) \/ ApplyTurn(h) \/ Settle(h)
         \/ \E asked \in {"none", "known", "unknown"} : Preview(h, asked)
         \/ \E camera \in BOOLEAN, images \in Named : QueueGeneration(h, camera, images)
  PROVE  Tied'
  <1> DEFINE r == req[h]
  <1>1. /\ r.pc # "idle" /\ UNCHANGED <<alive, snap, dev, asset, store>>
    BY DEF InsertTurn, ApplyTurn, Settle, Preview, QueueGeneration, progress, files
  <1>2. /\ r.base \in 0..Len(rev) /\ Len(rev) \in Nat
        /\ r.arg = "payload" \/ r.uses \subseteq asset
        /\ asset \subseteq store
    BY GrowsLonger, TipThere DEF Tied, There, Inside, IInv
  <1>3. CASE InsertTurn(h) \/ Settle(h)
    <2>1. End(h) /\ UNCHANGED <<rev, queued>>
      BY <1>3 DEF InsertTurn, Settle, scenes
    <2>2. TurnRows' /\ \A j \in Turns : turn'[j].base \in {turn[j].base, r.base}
      BY <1>3, TurnedRows
    <2>3. /\ req'[h] = Idle /\ \A g \in Handlers \ {h} : req'[g] = req[g]
          /\ overlaps' = overlaps
      BY <2>1 DEF End, Goto, counts, IInv, Shape
    <2>4. Inside(req[h])'
      BY <1>2, <2>1, <2>3 DEF Inside, Idle
    <2>5. Grows /\ overlaps' \in Nat
      BY <2>1, <2>3 DEF Grows, Tied, Alone
    <2>6. QED
      BY <1>1, <1>2, <2>1, <2>2, <2>3, <2>4, <2>5, LiveStep
  <1>4. CASE ApplyTurn(h)
    <2> DEFINE by == <<"turn", r.who, r.n + 1>>
               a == [r EXCEPT !.n = @ + 1, !.base = Len(rev) + 1, !.seen = FALSE]
               b == [r EXCEPT !.pc = "reject"]
    <2>1. UNCHANGED <<turn, queued>> /\ r.pc = "turn"
      BY <1>4 DEF ApplyTurn, jobs
    <2>2. /\ a.base = Len(rev) + 1 /\ a.uses = r.uses /\ a.pc = "turn" /\ a.arg = r.arg
          /\ b.base = r.base /\ b.uses = r.uses /\ b.pc = "reject" /\ b.arg = r.arg
      BY <2>1 DEF IInv, Shape, Keys
    <2>3. \/ Inserted("canonical", by, rev[r.base].content \cup {by}) /\ Goto(h, a)
          \/ Goto(h, b) /\ UNCHANGED scenes
      BY <1>4 DEF ApplyTurn, Onto
    <2> HIDE DEF a, b
    <2>4. CASE Inserted("canonical", by, rev[r.base].content \cup {by}) /\ Goto(h, a)
      <3>1. Grows /\ Len(rev) + 1 \in 0..Len(rev')
        BY <2>4, OneMore DEF IInv
      <3>2. QED
        BY <1>1, <1>2, <2>1, <2>2, <2>4, <3>1, GotoLive
    <2>5. CASE Goto(h, b) /\ UNCHANGED scenes
      <3>1. Grows /\ rev' = rev
        BY <2>5 DEF scenes, Grows
      <3>2. QED
        BY <1>1, <1>2, <2>1, <2>2, <2>5, <3>1, GotoLive
    <2>6. QED
      BY <2>3, <2>4, <2>5
  <1>5. ASSUME NEW pc, Goto(h, [r EXCEPT !.pc = pc]), pc \in {"preview", "settle", "reject"},
               UNCHANGED <<rev, turn>>,
               queued' = queued
                 \/ \E u : queued' = queued \cup {[rev |-> r.base, assets |-> u, by |-> "agent"]}
        PROVE  Tied'
    <2> DEFINE x == [r EXCEPT !.pc = pc]
    <2>1. x.base = r.base /\ x.uses = r.uses /\ x.pc = pc /\ x.arg = r.arg
      BY DEF IInv, Shape, Keys
    <2>2. Goto(h, x)
      BY <1>5
    <2> HIDE DEF x
    <2>3. Grows
      BY <1>5 DEF Grows
    <2>4. \A q \in queued' : q \in queued \/ Sound(q)'
      BY <1>2, <1>5 DEF Sound
    <2>5. QED
      BY <1>1, <1>2, <1>5, <2>1, <2>2, <2>3, <2>4, GotoLive
  <1>6. ASSUME NEW asked, Preview(h, asked)
        PROVE  Tied'
    <2> DEFINE pc == IF asked = "unknown" THEN "reject" ELSE "settle"
    <2>1. /\ Goto(h, [r EXCEPT !.pc = pc]) /\ UNCHANGED <<rev, turn>>
          /\ \/ queued' = queued
             \/ \E u : queued' = queued \cup {[rev |-> r.base, assets |-> u, by |-> "agent"]}
      BY <1>6 DEF Preview, Queued, scenes
    <2>2. pc \in {"preview", "settle", "reject"}
      OBVIOUS
    <2> HIDE DEF pc
    <2>3. QED
      BY <1>5, <2>1, <2>2
  <1>7. ASSUME NEW camera, NEW images, QueueGeneration(h, camera, images)
        PROVE  Tied'
    <2>1. /\ Goto(h, [r EXCEPT !.pc = "preview"]) /\ UNCHANGED <<rev, turn>>
          /\ \/ queued' = queued
             \/ \E u : queued' = queued \cup {[rev |-> r.base, assets |-> u, by |-> "agent"]}
      BY <1>7 DEF QueueGeneration, Queued, scenes
    <2>2. QED
      BY <1>5, <2>1
  <1>8. QED
    BY <1>3, <1>4, <1>6, <1>7

LEMMA LivePhotoStep ==
  ASSUME IInv, Tied, alive, NEW h \in Handlers,
         \/ PutFile(h) \/ InsertAsset(h) \/ ReviseScene(h) \/ ReviseNothing(h)
         \/ QueueReplacement(h) \/ QueueRedesign(h) \/ QueueOrder(h) \/ QueuePayload(h)
  PROVE  Tied'
  <1> DEFINE r == req[h]
  <1>1. /\ r.pc # "idle" /\ UNCHANGED <<alive, snap, dev, turn>>
    BY DEF PutFile, InsertAsset, ReviseScene, ReviseNothing, QueueReplacement, QueueRedesign,
           QueueOrder, QueuePayload, CreateJob, progress, jobs
  <1>2. /\ r.base \in 0..Len(rev) /\ Len(rev) \in Nat
        /\ r.arg = "payload" \/ r.uses \subseteq asset
        /\ r.pc = "row" => r.n \in store
        /\ asset \subseteq store
    BY GrowsLonger, TipThere DEF Tied, There, Inside, IInv
  <1>3. TurnRows' /\ \A d \in Deviations : dev'[d].planned = dev[d].planned
    BY <1>1 DEF Tied, TurnRows
  <1>4. ASSUME NEW x, Goto(h, x)
        PROVE  /\ req'[h] = x /\ \A g \in Handlers \ {h} : req'[g] = req[g]
               /\ overlaps' = overlaps /\ overlaps' \in Nat
    BY <1>4 DEF Goto, counts, IInv, Shape, Tied, Alone
  <1>5. CASE PutFile(h)
    <2> DEFINE x == [r EXCEPT !.pc = "row", !.n = drawn + 1]
    <2>1. /\ Goto(h, x) /\ UNCHANGED <<rev, queued, asset>> /\ store' = store \cup {drawn + 1}
      BY <1>5 DEF PutFile, scenes, jobs
    <2>2. /\ x.base = r.base /\ x.uses = r.uses /\ x.arg = r.arg
          /\ x.n = drawn + 1 /\ x.pc = "row"
      BY DEF IInv, Shape, Keys
    <2> HIDE DEF x
    <2>3. Inside(req[h])'
      BY <1>2, <1>4, <2>1, <2>2 DEF Inside
    <2>4. Grows
      BY <2>1 DEF Grows
    <2>5. QED
      BY <1>1, <1>2, <1>3, <1>4, <2>1, <2>3, <2>4, LiveStep
  <1>6. CASE InsertAsset(h)
    <2> DEFINE x == [r EXCEPT !.needs = @ - 1, !.uses = @ \cup {r.n},
                              !.pc = IF r.needs = 1 THEN "revise" ELSE "put"]
               y == IF r.arg = "upload" THEN Idle ELSE x
    <2>1. /\ Goto(h, y) /\ UNCHANGED <<rev, queued, store>> /\ asset' = asset \cup {r.n}
          /\ r.pc = "row"
      BY <1>6 DEF InsertAsset, scenes, jobs
    <2>2. /\ x.base = r.base /\ x.uses = r.uses \cup {r.n} /\ x.arg = r.arg
          /\ x.pc \in {"revise", "put"}
      BY DEF IInv, Shape, Keys
    <2>3. Idle.base = 0 /\ Idle.uses = {} /\ Idle.pc = "idle"
      BY DEF Idle
    <2> HIDE DEF x
    <2>4. /\ y.base \in 0..Len(rev)
          /\ y.arg = "payload" \/ y.uses \subseteq asset \cup {r.n}
          /\ y.pc \in {"idle", "revise", "put"}
      BY <1>2, <2>2, <2>3
    <2> HIDE DEF y
    <2>5. Inside(req[h])'
      BY <1>4, <2>1, <2>4 DEF Inside
    <2>6. Grows
      BY <2>1 DEF Grows
    <2>7. QED
      BY <1>1, <1>2, <1>3, <1>4, <2>1, <2>5, <2>6, LiveStep
  <1>7. CASE ReviseScene(h) \/ ReviseNothing(h)
    <2> DEFINE x == [r EXCEPT !.pc = "queue", !.base = Len(rev) + 1]
               y == IF r.arg = "blind" THEN Idle ELSE x
    <2>1. UNCHANGED <<queued, asset, store>>
      BY <1>7 DEF ReviseScene, ReviseNothing, jobs, files
    <2>2. /\ x.base = Len(rev) + 1 /\ x.uses = r.uses /\ x.pc = "queue" /\ x.arg = r.arg
          /\ Idle.base = 0 /\ Idle.uses = {} /\ Idle.pc = "idle"
      BY DEF IInv, Shape, Keys, Idle
    <2>3. \/ End(h) /\ UNCHANGED scenes
          \/ /\ \E by, content : Inserted("canonical", by, content)
             /\ Goto(h, x) \/ Goto(h, y)
      BY <1>7 DEF ReviseScene, ReviseNothing, Onto
    <2> HIDE DEF x
    <2>4. CASE End(h) /\ UNCHANGED scenes
      BY <1>1, <1>3, <2>1, <2>4, EndLive DEF scenes, Grows
    <2>5. CASE /\ \E by, content : Inserted("canonical", by, content)
               /\ Goto(h, x) \/ Goto(h, y)
      <3>1. Grows /\ Len(rev) + 1 \in 0..Len(rev')
        BY <2>5, OneMore DEF IInv
      <3>2. 0 \in 0..Len(rev')
        BY <3>1
      <3>3. PICK z : Goto(h, z) /\ z \in {x, Idle}
        BY <2>5
      <3>4. /\ z.base \in 0..Len(rev') /\ z.pc \in {"queue", "idle"}
            /\ z.arg = "payload" \/ z.uses \subseteq asset
        BY <1>2, <2>2, <3>1, <3>2, <3>3
      <3>5. QED
        BY <1>1, <1>3, <2>1, <3>1, <3>3, <3>4, GotoLive
    <2>6. QED
      BY <2>3, <2>4, <2>5
  <1>8. CASE QueueReplacement(h) \/ QueueRedesign(h) \/ QueueOrder(h) \/ QueuePayload(h)
    <2>1. /\ End(h) /\ UNCHANGED <<rev, asset, store>>
          /\ \/ /\ queued' = queued \cup {[rev |-> r.base, assets |-> r.uses, by |-> "route"]}
                /\ r.arg # "payload"
             \/ queued' = queued \cup {[rev |-> r.base, assets |-> r.uses, by |-> "client"]}
      BY <1>8 DEF QueueReplacement, QueueRedesign, QueueOrder, QueuePayload, CreateJob, Queued,
                  scenes, files
    <2>2. \A q \in queued' : q \in queued \/ Sound(q)'
      BY <1>2, <2>1 DEF Sound
    <2>3. Grows
      BY <2>1 DEF Grows
    <2>4. QED
      BY <1>1, <1>3, <2>1, <2>2, <2>3, EndLive
  <1>9. QED
    BY <1>5, <1>6, <1>7, <1>8

\* The deletion: of a project without a snapshot, and in one step.
LEMMA LiveEndStep ==
  ASSUME IInv, Tied, alive, NEW h \in Handlers, Cascade(h) \/ DeleteFiles(h) \/ Die(h)
  PROVE  Tied'
  <1>1. /\ req[h].pc # "idle" /\ req[h].pc # "files"
    BY DEF Cascade, DeleteFiles, Die, Free, Tied, There, Inside
  <1>2. CASE Die(h)
    <2>1. /\ UNCHANGED <<alive, rev, snap, dev, turn, queued, asset, store>>
          /\ req'[h] = Idle /\ \A g \in Handlers \ {h} : req'[g] = req[g]
          /\ overlaps' = overlaps
      BY <1>2 DEF Die, scenes, progress, jobs, files, IInv, Shape
    <2>2. Inside(req[h])'
      BY <2>1, TipThere DEF Inside, Idle, IInv
    <2>3. Grows /\ TurnRows' /\ overlaps' \in Nat /\ asset \subseteq store
      BY <2>1 DEF Grows, Tied, TurnRows, Alone, There
    <2>4. QED
      BY <1>1, <2>1, <2>2, <2>3, LiveStep
  <1>3. CASE Cascade(h) /\ snap.pin # 0
    <2>1. End(h) /\ UNCHANGED <<alive, rev, turn, queued, asset, snap, dev, store>>
      BY <1>3 DEF Cascade, progress, jobs
    <2>2. Grows
      BY <2>1 DEF Grows
    <2>3. QED
      BY <1>1, <2>1, <2>2, EndLive
  <1>4. CASE Cascade(h) /\ snap.pin = 0
    <2> DEFINE x == [Idle EXCEPT !.pc = "files"]
    <2>1. /\ alive' = FALSE /\ rev' = <<>> /\ draft' = <<>> /\ asset' = {}
          /\ turn' = NoTurns /\ queued' = {} /\ snap' = snap
          /\ Goto(h, x)
      BY <1>4 DEF Cascade, progress
    <2>2. x.pc = "files"
      BY DEF Idle
    <2> HIDE DEF x
    <2>3. /\ req'[h] = x /\ \A g \in Handlers \ {h} : req'[g] = req[g]
          /\ overlaps' = overlaps
      BY <2>1 DEF Goto, counts, IInv, Shape
    <2>4. Alone'
      BY <1>1, <2>1, <2>2, <2>3 DEF Tied, Alone
    <2>5. TurnRows' /\ Gone'
      BY <1>4, <2>1 DEF TurnRows, NoTurns, Gone
    <2>6. QED
      BY <2>1, <2>4, <2>5 DEF Tied
  <1>5. QED
    BY <1>1, <1>2, <1>3, <1>4 DEF DeleteFiles

\* In a project that is gone requests find nothing to write, but for a job they queue
\* or finish, and this takes another request that was served at the same time.
LEMMA GoneContinues ==
  ASSUME IInv, Tied, ~alive, NEW h \in Handlers, ~Free(h), Continue(h)
  PROVE  Tied'
  <1>1. /\ rev = <<>> /\ draft = <<>> /\ asset = {} /\ snap.pin = 0 /\ DOMAIN draft = {}
        /\ ~CanInsert
    BY DEF Tied, Gone, CanInsert
  <1>2. req[h].pc \notin Fixing
    BY <1>1 DEF IInv, Pinned
  <1>3. /\ UNCHANGED <<rev, draft, asset, snap, alive, overlaps>>
        /\ \A g \in Handlers \ {h} : req'[g] = req[g]
    <2>1. ASSUME NEW x, Goto(h, x)
          PROVE  overlaps' = overlaps /\ \A g \in Handlers \ {h} : req'[g] = req[g]
      BY <2>1 DEF Goto, counts, IInv, Shape
    <2>2. ~WritePatch(h) /\ ~ApplyFix(h) /\ ~Accept(h)
      BY <1>2 DEF WritePatch, ApplyFix, Accept, Fixing
    <2>3. CASE InsertDraft(h) \/ AppendSnapshot(h) \/ MarkCommitted(h)
      BY <1>1, <2>1, <2>3
         DEF InsertDraft, AppendSnapshot, MarkCommitted, End, scenes, progress, files
    <2>4. CASE InsertTurn(h) \/ ApplyTurn(h) \/ Settle(h)
      BY <1>1, <2>1, <2>4 DEF InsertTurn, ApplyTurn, Settle, End, scenes, progress, files
    <2>5. CASE \/ \E asked \in {"none", "known", "unknown"} : Preview(h, asked)
               \/ \E camera \in BOOLEAN, images \in Named : QueueGeneration(h, camera, images)
      BY <2>1, <2>5 DEF Preview, QueueGeneration, scenes, progress, files
    <2>6. CASE PutFile(h) \/ InsertAsset(h) \/ ReviseScene(h) \/ ReviseNothing(h)
      BY <1>1, <2>1, <2>6
         DEF PutFile, InsertAsset, ReviseScene, ReviseNothing, End, scenes, progress, files
    <2>7. CASE QueueReplacement(h) \/ QueueRedesign(h) \/ QueueOrder(h) \/ QueuePayload(h)
      BY <2>1, <2>7
         DEF QueueReplacement, QueueRedesign, QueueOrder, QueuePayload, CreateJob, End, scenes,
             progress, files
    <2>8. CASE Cascade(h) \/ DeleteFiles(h)
      BY <2>1, <2>8 DEF Cascade, DeleteFiles, End, scenes, progress
    <2>9. CASE Die(h)
      BY <2>9 DEF Die, scenes, progress, files, IInv, Shape
    <2>10. CASE Compare(h) \/ ApplyEdit(h)
      BY <1>1, <2>1, <2>10 DEF Compare, ApplyEdit, End, scenes, progress, files
    <2>11. QED
      BY <2>2, <2>3, <2>4, <2>5, <2>6, <2>7, <2>8, <2>9, <2>10 DEF Continue
  <1>4. TurnRows'
    <2>1. CASE InsertTurn(h) \/ Settle(h)
      BY <2>1, TurnedRows
    <2>2. CASE ~(InsertTurn(h) \/ Settle(h))
      <3>1. turn' = turn
        BY <2>2
           DEF Continue, Compare, ApplyEdit, WritePatch, ApplyFix, Accept, InsertDraft,
               AppendSnapshot, MarkCommitted, ApplyTurn, Preview, QueueGeneration, PutFile,
               InsertAsset, ReviseScene, ReviseNothing, QueueReplacement, QueueRedesign,
               QueueOrder, QueuePayload, CreateJob, Cascade, DeleteFiles, Die, jobs
      <3>2. QED
        BY <3>1 DEF Tied, TurnRows
    <2>3. QED
      BY <2>1, <2>2
  <1>5. ASSUME overlaps = 0, req[h].pc # "idle"
        PROVE  req'[h].pc = "idle" /\ queued' = queued /\ turn' = turn
    <2>1. req[h].pc = "files"
      BY <1>5 DEF Tied, Alone
    <2>2. DeleteFiles(h) \/ Die(h)
      BY <2>1
         DEF Continue, Compare, ApplyEdit, WritePatch, ApplyFix, Accept, InsertDraft,
             AppendSnapshot, MarkCommitted, Preview, QueueGeneration, InsertTurn, ApplyTurn,
             Settle, PutFile, InsertAsset, ReviseScene, ReviseNothing, QueueReplacement,
             QueueRedesign, QueueOrder, QueuePayload, CreateJob, Cascade
    <2>3. req' = [req EXCEPT ![h] = Idle] /\ UNCHANGED <<queued, turn>>
      BY <2>2 DEF DeleteFiles, Die, End, Goto, jobs
    <2>4. QED
      BY <2>3 DEF Idle, IInv, Shape
  <1>6. Alone'
    BY <1>3, <1>5 DEF Tied, Alone, Free
  <1>7. QED
    BY <1>1, <1>3, <1>4, <1>6 DEF Tied, Gone

LEMMA TiedOK ==
  ASSUME IInv, Tied, [WorkflowNext]_workflowVars
  PROVE  Tied'
  <1>1. CASE UNCHANGED workflowVars
    BY <1>1 DEF Tied, TurnRows, Alone, There, Inside, Sound, Gone, workflowVars, scenes,
                progress, jobs, files, counts
  <1>2. ASSUME NEW h \in Handlers, Begin(h)
        PROVE  Tied'
    <2>1. CASE alive
      BY <1>2, <2>1, LiveProgress, LiveTurn, LivePhoto, LiveJob, LiveOther DEF Begin
    <2>2. CASE ~alive
      BY <1>2, <2>2, GoneBegins
    <2>3. QED
      BY <2>1, <2>2
  <1>3. ASSUME NEW h \in Handlers, ~Free(h), Continue(h)
        PROVE  Tied'
    <2>1. CASE alive
      BY <1>3, <2>1, LiveEditStep, LiveProgressStep, LiveDraftStep, LiveTurnStep, LivePhotoStep, LiveEndStep
         DEF Continue
    <2>2. CASE ~alive
      BY <1>3, <2>2, GoneContinues DEF Free
    <2>3. QED
      BY <2>1, <2>2
  <1>4. ASSUME NEW q \in queued, ImageJobEnds(q)
        PROVE  Tied'
    <2>1. /\ UNCHANGED <<alive, rev, snap, dev, draft, turn, asset, store, req, overlaps>>
          /\ queued' \subseteq queued
      BY <1>4 DEF ImageJobEnds, scenes, progress, files, counts
    <2>2. QED
      BY <2>1 DEF Tied, TurnRows, Alone, There, Inside, Sound, Gone
  <1>5. QED
    BY <1>1, <1>2, <1>3, <1>4 DEF WorkflowNext

LEMMA TiedAtFirst == WorkflowInit => Tied
  <1>1. SUFFICES ASSUME WorkflowInit PROVE Tied
    OBVIOUS
  <1>2. Len(rev) \in Nat
    BY <1>1, InitOK, TipThere DEF IInv
  <1>3. \A h \in Handlers : Inside(req[h]) /\ req[h].pc = "idle"
    BY <1>1, <1>2 DEF WorkflowInit, Inside, Idle
  <1>4. TurnRows /\ \A j \in Turns : turn[j].base = 0
    BY <1>1 DEF WorkflowInit, TurnRows, NoTurns
  <1>5. There
    BY <1>1, <1>2, <1>3, <1>4 DEF WorkflowInit, There, Sound
  <1>6. Alone
    BY <1>1, <1>3 DEF WorkflowInit, Alone
  <1>7. QED
    BY <1>1, <1>4, <1>5, <1>6 DEF WorkflowInit, Tied

\* Rows point at rows that are there and assets have their files, as long as the project
\* is there (create_snapshot, create_job, create_black_reference_asset, delete_project);
\* of a deleted one nothing is left but jobs that were created while it was deleted.
THEOREM NothingLost == WorkflowSpec => []NothingDangles
  <1>1. IInv /\ Tied => NothingDangles
    <2>1. SUFFICES ASSUME IInv, Tied PROVE NothingDangles
      OBVIOUS
    <2>2. CASE alive
      BY <2>1, <2>2 DEF Tied, There, Sound, NothingDangles
    <2>3. CASE ~alive
      <3>1. snap.pin = 0 /\ rev = <<>> /\ draft = <<>> /\ asset = {}
        BY <2>1, <2>3 DEF Tied, Gone
      <3>2. \A d \in Deviations : dev[d].status = "absent"
        BY <2>1, <3>1 DEF IInv, Pinned
      <3>3. overlaps = 0 => queued = {} /\ turn = NoTurns
        BY <2>1, <2>3 DEF Tied, Alone
      <3>4. QED
        BY <2>3, <3>1, <3>2, <3>3 DEF NothingDangles
    <2>4. QED
      BY <2>2, <2>3
  <1>2. IInv /\ Tied /\ [WorkflowNext]_workflowVars => IInv' /\ Tied'
    BY StepOK, TiedOK
  <1>3. WorkflowInit => IInv /\ Tied
    BY InitOK, TiedAtFirst
  <1>4. QED
    BY <1>1, <1>2, <1>3, PTL DEF WorkflowSpec

=============================================================================
