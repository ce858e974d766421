------------------------------ MODULE TurnProofs ------------------------------
(***************************************************************************)
(* The turns of the agent, and requests that are served one at a time, for *)
(* any number of turns, commands, drafts, deviations and requests.         *)
(*                                                                         *)
(* A turn does not mix with others' edits.  A request that applies its     *)
(* commands knows that the revision it has come to holds the scene the     *)
(* instruction was given for and the commands applied so far, and nothing  *)
(* else (Knows), because a command is applied to the scene that was read   *)
(* when it was compared and not to the tip there is when it is inserted;   *)
(* so a revision of a turn holds just what its number says (InTurn).       *)
(*                                                                         *)
(* One request at a time.  What a request has read is still so when it     *)
(* writes (Ready), a revision tells what it was made for, so that the next *)
(* is told apart from it (Labelled), and what is applied is marked but for *)
(* the request that is about to mark it (Marked, Fixed).                   *)
(***************************************************************************)
EXTENDS WorkflowProofs

Commands(j, n) == {<<"turn", j, k>> : k \in 1..n}

\* the scene the instruction was given for, with the first n commands
Onward(j, n) == rev[turn[j].base].content \cup Commands(j, n)

\* every command up to the n-th has been applied
Through(j, n) == \A k \in 1..n : \E r \in Applied(j) : rev[r].by[3] = k

\* a revision of a turn holds what its number says
InTurn(r) ==
  rev[r].by[1] = "turn" =>
    LET j == rev[r].by[2]
    IN /\ j \in Turns /\ turn[j].status # "absent" /\ turn[j].base \in Revs
       /\ rev[r].by[3] \in 1..TurnLength
       /\ rev[r].content = Onward(j, rev[r].by[3])

\* what a request about a turn is at once the job is there
Turning == {"turn", "preview", "settle"}

\* a request that applies the commands of a turn has come so far
Knows(r) ==
  r.pc \in Turning =>
    /\ r.who \in Turns /\ turn[r.who].status # "absent"
    /\ r.n \in 0..TurnLength /\ (r.pc # "turn" => r.n = TurnLength)
    /\ r.pc = "turn" /\ r.seen => r.n < TurnLength
    /\ turn[r.who].base \in Revs /\ r.base \in Revs
    /\ rev[r.base].content = Onward(r.who, r.n)
    /\ Through(r.who, r.n)

\* as long as the project lives; a turn that has succeeded is applied to its end
Turned ==
  alive =>
    /\ \A r \in Revs : InTurn(r)
    /\ \A h \in Handlers : Knows(req[h])
    /\ \A j \in Turns : turn[j].status = "succeeded" => Through(j, TurnLength)

\* One command more.
LEMMA CommandMore ==
  ASSUME NEW j, NEW n \in Nat
  PROVE  Commands(j, n + 1) = Commands(j, n) \cup {<<"turn", j, n + 1>>}
  <1>1. 1..(n + 1) = (1..n) \cup {n + 1}
    OBVIOUS
  <1>2. QED
    BY <1>1 DEF Commands

\* A step of one request that applies no command of a turn.
LEMMA TurnFrame ==
  ASSUME IInv, Turned, alive,
         rev' = rev \/ \E x : rev' = Append(rev, x) /\ x.by[1] # "turn",
         \A j \in Turns : /\ turn'[j].base = turn[j].base \/ turn[j].status = "absent"
                          /\ turn[j].status # "absent" => turn'[j].status # "absent"
                          /\ turn'[j].status = "succeeded" =>
                               turn[j].status = "succeeded" \/ Through(j, TurnLength),
         NEW h \in Handlers, \A g \in Handlers \ {h} : req'[g] = req[g],
         NEW y, req'[h] = y, Knows(y)
  PROVE  Turned'
  <1>1. /\ \A r \in Revs : r \in Revs' /\ rev'[r] = rev[r]
        /\ \A r \in Revs' : r \in Revs \/ rev'[r].by[1] # "turn"
    <2>1. CASE rev' = rev
      BY <2>1 DEF Revs
    <2>2. ASSUME NEW x, rev' = Append(rev, x), x.by[1] # "turn"
          PROVE  /\ \A r \in Revs : r \in Revs' /\ rev'[r] = rev[r]
                 /\ \A r \in Revs' : r \in Revs \/ rev'[r].by[1] # "turn"
      <3>1. PICK S : rev \in Seq(S)
        BY DEF IInv, Shape
      <3>2. /\ Revs' = Revs \cup {Len(rev) + 1} /\ rev'[Len(rev) + 1] = x
            /\ \A r \in Revs : rev'[r] = rev[r]
        BY <2>2, <3>1, AppendedKeeps
      <3>3. QED
        BY <2>2, <3>2
    <2>3. QED
      BY <2>1, <2>2
  <1>2. \A j \in Turns : turn[j].status = "absent" => Applied(j) = {}
    BY DEF Turned, InTurn, Applied
  <1>3. \A j \in Turns : Applied(j)' = Applied(j)
    BY <1>1 DEF Applied
  <1>4. \A j \in Turns : \A n : Through(j, n) => Through(j, n)'
    BY <1>1, <1>3 DEF Through, Applied
  <1>5. ASSUME NEW j \in Turns, turn[j].status # "absent", turn[j].base \in Revs, NEW n
        PROVE  turn'[j].base \in Revs' /\ Onward(j, n)' = Onward(j, n)
    BY <1>1, <1>5 DEF Onward, Commands
  <1>6. ASSUME NEW r \in Revs'
        PROVE  InTurn(r)'
    <2> SUFFICES ASSUME rev'[r].by[1] = "turn"
                 PROVE  InTurn(r)'
      BY DEF InTurn
    <2>0. PICK j, n : j = rev[r].by[2] /\ n = rev[r].by[3]
      OBVIOUS
    <2>1. r \in Revs /\ rev'[r] = rev[r]
      BY <1>1
    <2>2. InTurn(r) /\ rev[r].by[1] = "turn"
      BY <2>1 DEF Turned
    <2>3. /\ j \in Turns /\ turn[j].status # "absent" /\ turn[j].base \in Revs
          /\ n \in 1..TurnLength /\ rev[r].content = Onward(j, n)
      BY <2>0, <2>2 DEF InTurn
    <2>4. turn'[j].base \in Revs' /\ Onward(j, n)' = Onward(j, n) /\ turn'[j].status # "absent"
      BY <1>5, <2>3
    <2>5. rev'[r].by[2] = j /\ rev'[r].by[3] = n /\ rev'[r].content = rev[r].content
      BY <2>0, <2>1
    <2>6. rev'[r].content = Onward(j, n)'
      BY <2>3, <2>4, <2>5
    <2>7. QED
      BY <2>3, <2>4, <2>5, <2>6 DEF InTurn
  <1>7. ASSUME NEW z, Knows(z)
        PROVE  Knows(z)'
    <2> SUFFICES ASSUME z.pc \in Turning
                 PROVE  Knows(z)'
      BY DEF Knows
    <2>1. /\ z.who \in Turns /\ turn[z.who].status # "absent" /\ Through(z.who, z.n)
          /\ turn[z.who].base \in Revs /\ z.base \in Revs
          /\ rev[z.base].content = Onward(z.who, z.n)
      BY <1>7 DEF Knows
    <2>2. /\ turn'[z.who].base \in Revs' /\ turn'[z.who].status # "absent"
          /\ Onward(z.who, z.n)' = Onward(z.who, z.n)
      BY <1>5, <2>1
    <2>3. z.base \in Revs' /\ rev'[z.base] = rev[z.base]
      BY <1>1, <2>1
    <2>4. Through(z.who, z.n)'
      BY <1>4, <2>1
    <2>5. QED
      BY <1>7, <2>1, <2>2, <2>3, <2>4 DEF Knows
  <1>8. ASSUME NEW g \in Handlers
        PROVE  Knows(req[g])'
    BY <1>7 DEF Turned
  <1>9. ASSUME NEW j \in Turns, turn'[j].status = "succeeded"
        PROVE  Through(j, TurnLength)'
    BY <1>4, <1>9 DEF Turned
  <1>10. QED
    BY <1>6, <1>8, <1>9 DEF Turned

\* no revision more, or one that is not of a turn
Foreign == rev' = rev \/ \E x : rev' = Append(rev, x) /\ x.by[1] # "turn"

\* The same, of a request that is not about a turn.
LEMMA TurnApart ==
  ASSUME IInv, Tied, Turned, alive, Foreign, turn' = turn,
         NEW h \in Handlers, NEW y, req' = [req EXCEPT ![h] = y], y.pc \notin Turning
  PROVE  Turned'
  <1>1. req'[h] = y /\ \A g \in Handlers \ {h} : req'[g] = req[g]
    BY DEF IInv, Shape
  <1>2. Knows(y)
    BY DEF Knows
  <1>3. QED
    BY <1>1, <1>2, TurnFrame DEF Foreign

\* A revision that is appended for something else than a turn is foreign to the turns.
LEMMA InsertedForeign ==
  ASSUME NEW line, NEW by, NEW content, Inserted(line, by, content), by[1] # "turn"
  PROVE  Foreign
  <1> DEFINE x == [line |-> line, by |-> by, content |-> content]
  <1>1. rev' = Append(rev, x) /\ x.by = by
    BY DEF Inserted
  <1> HIDE DEF x
  <1>2. QED
    BY <1>1 DEF Foreign

\* A request that has ended is about no turn.
LEMMA IdleApart == Idle.pc = "idle" /\ "idle" \notin Turning
  BY DEF Idle, Turning

\* A request that is about no turn begins.
LEMMA TurnedBegin ==
  ASSUME IInv, Tied, Turned, alive, NEW h \in Handlers, Begin(h), ~TurnRequest(h)
  PROVE  Turned'
  <1>1. ASSUME NEW r, Start(h, r), r.pc \notin Turning, UNCHANGED <<rev, turn>>
        PROVE  Turned'
    BY <1>1, TurnApart DEF Start, Foreign
  <1>2. ASSUME Serve(h), req' = req, turn' = turn, Foreign
        PROVE  Turned'
    <2>1. req[h].pc \notin Turning
      BY <1>2, IdleApart DEF Serve, Free
    <2>2. Knows(req[h])
      BY <2>1 DEF Knows
    <2>3. QED
      BY <1>2, <2>1, <2>2, TurnFrame DEF Foreign
  <1>3. CASE ProgressRequest(h)
    <2>1. ASSUME NEW d, NEW status, PatchDeviation(h, d, status)
          PROVE  Turned'
      <3> DEFINE r == [Idle EXCEPT !.pc = "patch", !.who = d, !.arg = status]
      <3>1. r.pc \notin Turning
        BY DEF Idle, Turning
      <3>2. Start(h, r) /\ UNCHANGED <<rev, turn>>
        BY <2>1 DEF PatchDeviation, scenes, jobs
      <3> HIDE DEF r
      <3>3. QED
        BY <1>1, <3>1, <3>2
    <2>2. ASSUME NEW d, NEW line, AcceptDeviation(h, d, line)
          PROVE  Turned'
      <3> DEFINE r == [Idle EXCEPT !.pc = "fix", !.who = d, !.arg = line, !.base = Tip(line)]
      <3>1. r.pc \notin Turning
        BY DEF Idle, Turning
      <3>2. Start(h, r) /\ UNCHANGED <<rev, turn>>
        BY <2>2 DEF AcceptDeviation, scenes, jobs
      <3> HIDE DEF r
      <3>3. QED
        BY <1>1, <3>1, <3>2
    <2>3. CASE \/ \E line : CreateSnapshot(h, line)
               \/ \E d, s : CreateDeviation(h, d, s)
               \/ SoftDelete(h)
      BY <1>2, <2>3 DEF CreateSnapshot, CreateDeviation, SoftDelete, scenes, jobs, Foreign
    <2>4. QED
      BY <1>3, <2>1, <2>2, <2>3 DEF ProgressRequest
  <1>4. CASE PhotoRequest(h)
    <2>1. ASSUME NEW kind, NEW images, NEW needs, EditPhoto(h, kind, images, needs)
          PROVE  Turned'
      <3> DEFINE r == [Idle EXCEPT !.pc = IF needs = 0 THEN "revise" ELSE "put", !.needs = needs,
                         !.base = Tip("canonical"), !.scene = rev[Tip("canonical")].content,
                         !.uses = images, !.arg = kind]
      <3>1. r.pc \notin Turning
        BY DEF Idle, Turning
      <3>2. Start(h, r) /\ UNCHANGED <<rev, turn>>
        BY <2>1 DEF EditPhoto, scenes, jobs
      <3> HIDE DEF r
      <3>3. QED
        BY <1>1, <3>1, <3>2
    <2>2. CASE Upload(h) \/ ImportProduct(h)
      <3> DEFINE r == [Idle EXCEPT !.pc = "put", !.arg = "upload", !.needs = 1]
      <3>1. r.pc \notin Turning
        BY DEF Idle, Turning
      <3>2. Start(h, r) /\ UNCHANGED <<rev, turn>>
        BY <2>2 DEF Upload, ImportProduct, scenes, jobs
      <3> HIDE DEF r
      <3>3. QED
        BY <1>1, <3>1, <3>2
    <2>3. QED
      BY <1>4, <2>1, <2>2 DEF PhotoRequest, Replace, Redesign
  <1>5. CASE JobRequest(h)
    <2>1. ASSUME NEW kind, NEW b, NEW uses, Order(h, kind, b, uses)
          PROVE  Turned'
      <3> DEFINE r == [Idle EXCEPT !.pc = "queue", !.arg = kind, !.base = b, !.uses = uses]
      <3>1. r.pc \notin Turning
        BY DEF Idle, Turning
      <3>2. Start(h, r) /\ UNCHANGED <<rev, turn>>
        BY <2>1 DEF Order, scenes, jobs
      <3> HIDE DEF r
      <3>3. QED
        BY <1>1, <3>1, <3>2
    <2>2. QED
      BY <1>5, <2>1
         DEF JobRequest, Generate, Render, Diagnose, AnalyzeStyle, AnalyzePlan, JobCreate
  <1>6. ASSUME NEW r, Start(h, r), UNCHANGED <<rev, turn>>,
               \E n : \/ r = [Idle EXCEPT !.pc = "save", !.n = n]
                      \/ r = [Idle EXCEPT !.pc = "snapshot", !.n = n]
                      \/ r = [Idle EXCEPT !.pc = "cascade"]
        PROVE  Turned'
    <2>1. r.pc \notin Turning
      BY <1>6 DEF Idle, Turning
    <2>2. QED
      BY <1>1, <1>6, <2>1
  <1>7. CASE SaveDraft(h) \/ CommitDraft(h) \/ DeleteProject(h)
    BY <1>6, <1>7 DEF SaveDraft, CommitDraft, DeleteProject, scenes, jobs
  <1>8. CASE EditScene(h)
    <2> DEFINE r == [Idle EXCEPT !.pc = "edit", !.base = Tip("canonical")]
    <2>1. r.pc \notin Turning
      BY DEF Idle, Turning
    <2>2. Start(h, r) /\ UNCHANGED <<rev, turn>>
      BY <1>8 DEF EditScene, scenes, jobs
    <2> HIDE DEF r
    <2>3. QED
      BY <1>1, <2>1, <2>2
  <1>9. CASE ArchiveVariant(h)
    BY <1>2, <1>9 DEF ArchiveVariant, jobs, Foreign
  <1>10. QED
    BY <1>3, <1>4, <1>5, <1>7, <1>8, <1>9 DEF Begin

\* A request that is about no turn goes on.
LEMMA TurnedGoesOn ==
  ASSUME IInv, Tied, Turned, alive, NEW h \in Handlers,
         \/ ApplyEdit(h) \/ WritePatch(h) \/ ApplyFix(h) \/ Accept(h)
         \/ InsertDraft(h) \/ AppendSnapshot(h) \/ MarkCommitted(h)
         \/ PutFile(h) \/ InsertAsset(h) \/ ReviseScene(h) \/ ReviseNothing(h)
         \/ QueueReplacement(h) \/ QueueRedesign(h) \/ QueueOrder(h) \/ QueuePayload(h)
         \/ DeleteFiles(h) \/ Die(h)
  PROVE  Turned'
  <1>1. ASSUME NEW x, Goto(h, x), x.pc \notin Turning, turn' = turn, Foreign
        PROVE  Turned'
    BY <1>1, TurnApart DEF Goto
  <1>2. ASSUME End(h), turn' = turn, rev' = rev
        PROVE  Turned'
    BY <1>1, <1>2, IdleApart DEF End, Foreign
  <1>3. CASE \/ WritePatch(h) \/ Accept(h) \/ InsertDraft(h) \/ MarkCommitted(h)
             \/ QueueReplacement(h) \/ QueueRedesign(h) \/ QueueOrder(h) \/ QueuePayload(h)
             \/ DeleteFiles(h)
    BY <1>2, <1>3 DEF WritePatch, Accept, InsertDraft, MarkCommitted, QueueReplacement,
                      QueueRedesign, QueueOrder, QueuePayload, CreateJob, DeleteFiles, scenes,
                      jobs
  <1>4. CASE ApplyFix(h)
    <2> DEFINE r == req[h]
               by == <<"deviation", r.who>>
               x == [r EXCEPT !.pc = "accept", !.base = Len(rev) + 1]
    <2>1. x.pc \notin Turning /\ by[1] # "turn"
      BY DEF IInv, Shape, Keys, Turning
    <2>2. \/ Inserted(r.arg, by, rev[r.base].content \cup {by}) /\ Goto(h, x)
          \/ End(h) /\ UNCHANGED scenes
      BY <1>4 DEF ApplyFix, Onto
    <2>3. turn' = turn
      BY <1>4 DEF ApplyFix, jobs
    <2> HIDE DEF x, by
    <2>4. QED
      BY <1>1, <1>2, <2>1, <2>2, <2>3, InsertedForeign DEF scenes
  <1>5. CASE AppendSnapshot(h)
    <2> DEFINE by == <<"draft", req[h].n>>
               x == [req[h] EXCEPT !.pc = "commit"]
    <2>1. x.pc \notin Turning /\ by[1] # "turn"
      BY DEF IInv, Shape, Keys, Turning
    <2>2. \/ Inserted("canonical", by, {by}) /\ Goto(h, x)
          \/ End(h) /\ UNCHANGED scenes
      BY <1>5 DEF AppendSnapshot
    <2>3. turn' = turn
      BY <1>5 DEF AppendSnapshot, jobs
    <2> HIDE DEF x, by
    <2>4. QED
      BY <1>1, <1>2, <2>1, <2>2, <2>3, InsertedForeign DEF scenes
  <1>6. CASE PutFile(h)
    <2> DEFINE x == [req[h] EXCEPT !.pc = "row", !.n = drawn + 1]
    <2>1. x.pc \notin Turning
      BY DEF IInv, Shape, Keys, Turning
    <2>2. Goto(h, x) /\ UNCHANGED <<rev, turn>>
      BY <1>6 DEF PutFile, scenes, jobs
    <2> HIDE DEF x
    <2>3. QED
      BY <1>1, <2>1, <2>2 DEF Foreign
  <1>7. CASE InsertAsset(h)
    <2> DEFINE r == req[h]
               a == [r EXCEPT !.needs = @ - 1, !.uses = @ \cup {r.n},
                              !.pc = IF r.needs = 1 THEN "revise" ELSE "put"]
               x == IF r.arg = "upload" THEN Idle ELSE a
    <2>1. a.pc \notin Turning
      BY DEF IInv, Shape, Keys, Turning
    <2>2. (Goto(h, x) \/ End(h)) /\ UNCHANGED <<rev, turn>>
      BY <1>7 DEF InsertAsset, scenes, jobs
    <2> HIDE DEF a
    <2>3. x.pc \notin Turning
      BY <2>1, IdleApart
    <2> HIDE DEF x
    <2>4. QED
      BY <1>1, <1>2, <2>2, <2>3 DEF Foreign
  <1>8. CASE ReviseScene(h) \/ ReviseNothing(h)
    <2> DEFINE r == req[h]
               by == <<"photo", Len(rev) + 1>>
               a == [r EXCEPT !.pc = "queue", !.base = Len(rev) + 1]
               x == IF r.arg = "blind" THEN Idle ELSE a
    <2>1. a.pc \notin Turning /\ by[1] # "turn"
      BY DEF IInv, Shape, Keys, Turning
    <2>2. \/ /\ \E content : Inserted("canonical", by, content)
             /\ Goto(h, a) \/ Goto(h, x)
          \/ End(h) /\ UNCHANGED scenes
      BY <1>8 DEF ReviseScene, ReviseNothing, Onto
    <2>3. turn' = turn
      BY <1>8 DEF ReviseScene, ReviseNothing, jobs
    <2> HIDE DEF a, by
    <2>4. x.pc \notin Turning
      BY <2>1, IdleApart
    <2> HIDE DEF x
    <2>5. QED
      BY <1>1, <1>2, <2>1, <2>2, <2>3, <2>4, InsertedForeign DEF scenes
  <1>9. CASE Die(h)
    BY <1>9, IdleApart, TurnApart DEF Die, scenes, jobs, Foreign
  <1>10. CASE ApplyEdit(h)
    <2> DEFINE by == <<"edit", Len(rev) + 1>>
    <2>1. by[1] # "turn"
      OBVIOUS
    <2>2. \/ Inserted("canonical", by, rev[req[h].base].content \cup {by})
          \/ UNCHANGED scenes
      BY <1>10 DEF ApplyEdit, Onto
    <2> HIDE DEF by
    <2>3. Foreign
      BY <2>1, <2>2, InsertedForeign DEF scenes, Foreign
    <2>4. QED
      BY <1>1, <1>10, <2>3, IdleApart DEF ApplyEdit, End, jobs
  <1>11. QED
    BY <1>3, <1>4, <1>5, <1>6, <1>7, <1>8, <1>9, <1>10

\* A request has compared its base with the tip.
LEMMA TurnedCompares ==
  ASSUME IInv, Turned, alive, NEW h \in Handlers, Compare(h)
  PROVE  Turned'
  <1> DEFINE r == req[h]
             a == [r EXCEPT !.seen = TRUE]
             b == [r EXCEPT !.pc = "reject"]
  <1>1. /\ Goto(h, a) \/ Goto(h, b) \/ Goto(h, Idle)
        /\ UNCHANGED <<rev, turn>>
        /\ r.pc \in {"edit", "fix", "revise"} \/ (r.pc = "turn" /\ r.n < TurnLength)
    BY DEF Compare, scenes, jobs
  <1>2. /\ a.pc = r.pc /\ a.who = r.who /\ a.n = r.n /\ a.base = r.base
        /\ b.pc = "reject"
    BY DEF IInv, Shape, Keys
  <1>3. Shape
    BY DEF IInv
  <1>4. Knows(r)
    BY DEF Turned
  <1> HIDE DEF a, b
  <1>5. Knows(a) /\ Knows(b) /\ Knows(Idle)
    BY <1>1, <1>2, <1>4, IdleApart DEF Knows, Turning
  <1>6. PICK x \in {a, b, Idle} : Goto(h, x)
    BY <1>1
  <1>7. Knows(x) /\ req'[h] = x /\ \A g \in Handlers \ {h} : req'[g] = req[g]
    BY <1>3, <1>5, <1>6 DEF Goto, Shape
  <1>8. QED
    BY <1>1, <1>7, TurnFrame

\* A turn of the agent is ordered, cancelled, or completed, perhaps for the second time.
LEMMA TurnedOrders ==
  ASSUME IInv, Tied, Turned, alive, NEW h \in Handlers, TurnRequest(h)
  PROVE  Turned'
  <1>1. There /\ TurnRows /\ Shape /\ TurnLength \in Nat
    BY WorkflowsAssumption DEF Tied, IInv
  <1>2. ASSUME NEW j \in Turns, Instruct(h, j)
        PROVE  Turned'
    <2> DEFINE r == [Idle EXCEPT !.pc = "instruct", !.who = j, !.base = Tip("canonical")]
    <2>1. r.pc \notin Turning
      BY DEF Idle, Turning
    <2>2. Start(h, r) /\ UNCHANGED <<rev, turn>>
      BY <1>2 DEF Instruct, scenes, jobs
    <2> HIDE DEF r
    <2>3. QED
      BY <2>1, <2>2, TurnApart DEF Start, Foreign
  <1>3. ASSUME NEW j \in Turns, CancelTurn(h, j)
        PROVE  Turned'
    <2>1. /\ turn' = [turn EXCEPT ![j] = [@ EXCEPT !.status = "cancelled"]]
          /\ req' = req /\ rev' = rev /\ Serve(h)
      BY <1>3 DEF CancelTurn, scenes
    <2>2. \A k \in Turns : /\ turn'[k].base = turn[k].base
                           /\ turn'[k].status = turn[k].status \/ turn'[k].status = "cancelled"
      BY <1>1, <2>1 DEF TurnRows
    <2>3. req[h].pc \notin Turning
      BY <2>1, IdleApart DEF Serve, Free
    <2>4. Knows(req[h])
      BY <2>3 DEF Knows
    <2>5. QED
      BY <2>1, <2>2, <2>3, <2>4, TurnFrame
  <1>4. ASSUME NEW j \in Turns, NEW holds, NEW valid, CompleteTurn(h, j, holds, valid)
        PROVE  Turned'
    <2> DEFINE q == [Idle EXCEPT !.who = j, !.arg = turn[j].status, !.base = turn[j].base,
                                 !.holds = holds]
               r == [q EXCEPT !.pc = IF valid /\ q.base # 0 /\ q.base = Tip("canonical")
                                       THEN "turn" ELSE "reject"]
    <2>1. Start(h, r) /\ UNCHANGED <<rev, turn>> /\ turn[j].status # "absent"
      BY <1>4 DEF CompleteTurn, scenes, jobs
    <2>2. /\ r.base = turn[j].base /\ r.who = j /\ r.n = 0 /\ r.seen = FALSE
          /\ r.pc = "reject" \/ (r.pc = "turn" /\ turn[j].base # 0)
      BY DEF Idle
    <2> HIDE DEF r
    <2>3. turn[j].base \in 0..Len(rev) /\ Len(rev) \in Nat
      BY <1>1, TipThere DEF There
    <2>4. r.pc = "turn" => turn[j].base \in Revs
      BY <2>2, <2>3 DEF Revs
    <2>5. Through(j, 0) /\ Onward(j, 0) = rev[turn[j].base].content
      BY DEF Through, Onward, Commands
    <2>6. r.pc = "turn" \/ r.pc \notin Turning
      BY <2>2 DEF Turning
    <2>7. Knows(r)
      BY <1>1, <2>1, <2>2, <2>4, <2>5, <2>6 DEF Knows
    <2>8. req'[h] = r /\ \A g \in Handlers \ {h} : req'[g] = req[g]
      BY <1>1, <2>1 DEF Start, Shape
    <2>9. QED
      BY <2>1, <2>2, <2>3, <2>7, <2>8, TurnFrame
  <1>5. QED
    BY <1>2, <1>3, <1>4 DEF TurnRequest

\* The job is created, or settled when the last command is in.
LEMMA TurnedRow ==
  ASSUME IInv, Tied, Turned, alive, NEW h \in Handlers, InsertTurn(h) \/ Settle(h)
  PROVE  Turned'
  <1> DEFINE r == req[h]
  <1>1. TurnRows /\ Shape /\ TurnLength \in Nat
    BY WorkflowsAssumption DEF Tied, IInv
  <1>2. /\ rev' = rev /\ req'[h] = Idle /\ \A g \in Handlers \ {h} : req'[g] = req[g]
    BY <1>1 DEF InsertTurn, Settle, End, Goto, scenes, Shape
  <1>3. Knows(Idle) /\ Idle.pc \notin Turning
    BY IdleApart DEF Knows
  <1>4. ASSUME \A j \in Turns : /\ turn'[j].base = turn[j].base \/ turn[j].status = "absent"
                                /\ turn[j].status # "absent" => turn'[j].status # "absent"
                                /\ turn'[j].status = "succeeded" =>
                                     turn[j].status = "succeeded" \/ Through(j, TurnLength)
        PROVE  Turned'
    BY <1>2, <1>3, <1>4, TurnFrame
  <1>5. CASE InsertTurn(h)
    <2>1. \/ turn' = turn
          \/ /\ turn[r.who].status = "absent"
             /\ turn' = [turn EXCEPT ![r.who] = [status |-> "active", base |-> r.base]]
      BY <1>5 DEF InsertTurn
    <2>2. QED
      BY <1>1, <1>4, <2>1 DEF TurnRows
  <1>6. CASE Settle(h)
    <2>1. ASSUME NEW s \in {"failed", "succeeded"},
                 turn' = [turn EXCEPT ![r.who] = [@ EXCEPT !.status = s]],
                 s = "succeeded" => Through(r.who, TurnLength)
          PROVE  Turned'
      <3>1. \A j \in Turns : /\ turn'[j].base = turn[j].base
                             /\ \/ turn'[j].status = turn[j].status
                                \/ j = r.who /\ turn'[j].status = s
        BY <1>1, <2>1 DEF TurnRows
      <3>2. \A j \in Turns : /\ turn'[j].base = turn[j].base
                             /\ turn[j].status # "absent" => turn'[j].status # "absent"
                             /\ turn'[j].status = "succeeded" =>
                                  turn[j].status = "succeeded" \/ Through(j, TurnLength)
        BY <2>1, <3>1
      <3>3. QED
        BY <1>4, <3>2
    <2>2. CASE r.pc = "settle"
      <3>1. Through(r.who, TurnLength)
        BY <2>2 DEF Turned, Knows, Turning
      <3>2. turn' = turn \/ turn' = [turn EXCEPT ![r.who] = [@ EXCEPT !.status = "succeeded"]]
        BY <1>6, <2>2 DEF Settle
      <3>3. QED
        BY <1>4, <2>1, <3>1, <3>2
    <2>3. CASE r.pc # "settle"
      <3>1. turn' = turn \/ turn' = [turn EXCEPT ![r.who] = [@ EXCEPT !.status = "failed"]]
        BY <1>6, <2>3 DEF Settle
      <3>2. CASE turn' = turn
        BY <1>4, <3>2
      <3>3. CASE turn' = [turn EXCEPT ![r.who] = [@ EXCEPT !.status = "failed"]]
        <4>1. PICK s \in {"failed", "succeeded"} : s = "failed"
          OBVIOUS
        <4>2. turn' = [turn EXCEPT ![r.who] = [@ EXCEPT !.status = s]]
          BY <3>3, <4>1
        <4>3. QED
          BY <2>1, <4>1, <4>2
      <3>4. QED
        BY <3>1, <3>2, <3>3
    <2>4. QED
      BY <2>2, <2>3
  <1>7. QED
    BY <1>5, <1>6

\* The commands are in and the images ordered, or something is amiss.
LEMMA TurnedOn ==
  ASSUME IInv, Tied, Turned, alive, NEW h \in Handlers,
         \/ \E asked \in {"none", "known", "unknown"} : Preview(h, asked)
         \/ \E camera \in BOOLEAN, images \in Named : QueueGeneration(h, camera, images)
  PROVE  Turned'
  <1> DEFINE r == req[h]
  <1>1. Shape /\ TurnLength \in Nat /\ Knows(r) /\ r.base \in 0..Len(rev)
    BY WorkflowsAssumption DEF Tied, There, Inside, Turned, IInv
  <1>2. UNCHANGED <<rev, turn>> /\ r.pc \in Turning /\ r.n = TurnLength
    BY <1>1 DEF Preview, QueueGeneration, scenes, Knows, Turning
  <1>3. PICK pc \in {"preview", "settle", "reject"} : Goto(h, [r EXCEPT !.pc = pc])
    BY DEF Preview, QueueGeneration
  <1> DEFINE x == [r EXCEPT !.pc = pc]
  <1>4. x.base = r.base /\ x.who = r.who /\ x.n = r.n /\ x.pc = pc /\ x.seen = r.seen
    BY <1>1 DEF Shape, Keys
  <1> HIDE DEF x
  <1>5. Knows(x)
    BY <1>1, <1>2, <1>4 DEF Knows
  <1>6. req'[h] = x /\ \A g \in Handlers \ {h} : req'[g] = req[g]
    BY <1>1, <1>3 DEF Goto, Shape, x
  <1>7. QED
    BY <1>1, <1>2, <1>4, <1>5, <1>6, TurnFrame

\* A command of a turn is applied to the scene the turn has come to, or not at all.
LEMMA TurnedApplies ==
  ASSUME IInv, Tied, Turned, alive, NEW h \in Handlers, ApplyTurn(h)
  PROVE  Turned'
  <1>1. PICK j, m, n, c : j = req[h].who /\ m = req[h].n /\ n = Len(rev) + 1 /\ c = req[h].base
    OBVIOUS
  <1> DEFINE by == <<"turn", j, m + 1>>
             x == [line |-> "canonical", by |-> by, content |-> rev[c].content \cup {by}]
             a == [req[h] EXCEPT !.n = @ + 1, !.base = Len(rev) + 1, !.seen = FALSE]
             b == [req[h] EXCEPT !.pc = "reject"]
  <1>2. Shape /\ TurnLength \in Nat
    BY WorkflowsAssumption DEF IInv
  <1>3. turn' = turn /\ req[h].pc = "turn" /\ req[h].seen
    BY <1>1 DEF ApplyTurn, jobs
  <1>4. /\ j \in Turns /\ turn[j].status # "absent" /\ m \in 0..TurnLength /\ m < TurnLength
        /\ turn[j].base \in Revs /\ c \in Revs
        /\ rev[c].content = Onward(j, m) /\ Through(j, m)
    BY <1>1, <1>3 DEF Turned, Knows, Turning
  <1>5. CASE Goto(h, b) /\ UNCHANGED scenes
    <2>1. b.pc \notin Turning
      BY <1>2 DEF Shape, Keys, Turning
    <2> HIDE DEF b
    <2>2. QED
      BY <1>3, <1>5, <2>1, TurnApart DEF Goto, scenes, Foreign
  <1>6. CASE rev' = Append(rev, x) /\ Goto(h, a)
    <2>1. x.by = by /\ x.content = Onward(j, m) \cup {by}
      BY <1>4
    <2>2. /\ a.pc = "turn" /\ a.who = j /\ a.n = m + 1 /\ a.base = n /\ a.seen = FALSE
      BY <1>1, <1>2, <1>3 DEF Shape, Keys
    <2>3. req'[h] = a /\ \A g \in Handlers \ {h} : req'[g] = req[g]
      BY <1>2, <1>6 DEF Goto, Shape
    <2>4. by[1] = "turn" /\ by[2] = j /\ by[3] = m + 1
      OBVIOUS
    <2>5. Onward(j, m) \cup {by} = Onward(j, m + 1)
      BY <1>2, <1>4, CommandMore DEF Onward
    <2> HIDE DEF x, a, b, by
    <2>6. PICK S : rev \in Seq(S)
      BY <1>2 DEF Shape
    <2>7. /\ Len(rev) \in Nat /\ Revs' = Revs \cup {n} /\ rev'[n] = x
          /\ \A q \in Revs : rev'[q] = rev[q]
      BY <1>1, <1>6, <2>6, AppendedKeeps
    <2>8. \A k, i : turn[k].base \in Revs => Onward(k, i)' = Onward(k, i)
      BY <1>3, <2>7 DEF Onward, Commands
    <2>9. n \in Applied(j)' /\ rev'[n].by[3] = m + 1
      BY <2>1, <2>4, <2>7 DEF Applied
    <2>10. \A k \in Turns : \A i : Through(k, i) => Through(k, i)'
      BY <2>7 DEF Through, Applied
    <2>11. Through(j, m + 1)'
      <3>1. Through(j, m)'
        BY <1>4, <2>10
      <3>2. \A k \in 1..(m + 1) : k \in 1..m \/ k = m + 1
        BY <1>4
      <3>3. QED
        BY <2>9, <3>1, <3>2 DEF Through
    <2>12. m + 1 \in 0..TurnLength /\ m + 1 \in 1..TurnLength
      BY <1>2, <1>4
    <2>13. rev'[n].content = Onward(j, m + 1)' /\ n \in Revs' /\ turn'[j].base \in Revs'
      BY <1>3, <1>4, <2>1, <2>5, <2>7, <2>8
    <2>14. InTurn(n)'
      BY <1>3, <1>4, <2>1, <2>4, <2>7, <2>12, <2>13 DEF InTurn
    <2>15. ASSUME NEW q \in Revs
           PROVE  InTurn(q)'
      <3>1. InTurn(q) /\ rev'[q] = rev[q]
        BY <2>7 DEF Turned
      <3>2. QED
        BY <1>3, <2>7, <2>8, <3>1 DEF InTurn
    <2>16. Knows(req[h])'
      BY <1>3, <1>4, <2>2, <2>3, <2>11, <2>12, <2>13 DEF Knows
    <2>17. ASSUME NEW g \in Handlers \ {h}
           PROVE  Knows(req[g])'
      <3>1. Knows(req[g]) /\ req'[g] = req[g]
        BY <2>3 DEF Turned
      <3>2. QED
        BY <1>3, <2>7, <2>8, <2>10, <3>1 DEF Knows
    <2>18. QED
      BY <1>3, <2>7, <2>10, <2>14, <2>15, <2>16, <2>17 DEF Turned
  <1>7. QED
    BY <1>1, <1>5, <1>6 DEF ApplyTurn, Onto, Inserted

\* Every step leaves the turns in order.
LEMMA TurnedStep ==
  ASSUME IInv, Tied, Turned, [WorkflowNext]_workflowVars
  PROVE  Turned'
  <1>1. CASE UNCHANGED <<alive, rev, turn, req>>
    <2>1. Revs' = Revs
      BY <1>1 DEF Revs
    <2>2. \A j, n : Through(j, n)' <=> Through(j, n)
      BY <1>1, <2>1 DEF Through, Applied
    <2>3. \A j, n : Onward(j, n)' = Onward(j, n)
      BY <1>1 DEF Onward, Commands
    <2>4. \A r : InTurn(r)' <=> InTurn(r)
      BY <1>1, <2>1, <2>3 DEF InTurn
    <2>5. \A r : Knows(r)' <=> Knows(r)
      BY <1>1, <2>1, <2>2, <2>3 DEF Knows
    <2>6. QED
      BY <1>1, <2>1, <2>2, <2>4, <2>5 DEF Turned
  <1>2. CASE UNCHANGED workflowVars \/ \E q \in queued : ImageJobEnds(q)
    BY <1>1, <1>2 DEF workflowVars, ImageJobEnds, scenes, jobs
  <1>3. ASSUME NEW h \in Handlers, Begin(h)
        PROVE  Turned'
    <2>1. CASE alive
      BY <1>3, <2>1, TurnedBegin, TurnedOrders
    <2>2. CASE ~alive
      <3>1. alive' = alive
        BY <1>3, <2>2
           DEF Begin, ProgressRequest, CreateSnapshot, AcceptDeviation, CreateDeviation,
               PatchDeviation, SoftDelete, TurnRequest, Instruct, CancelTurn, CompleteTurn,
               PhotoRequest, Replace, Redesign, EditPhoto, Upload, ImportProduct, JobRequest,
               Generate, Render, Diagnose, AnalyzeStyle, AnalyzePlan, JobCreate, Order,
               SaveDraft, CommitDraft, EditScene, ArchiveVariant, DeleteProject
      <3>2. QED
        BY <2>2, <3>1 DEF Turned
    <2>3. QED
      BY <2>1, <2>2
  <1>4. ASSUME NEW h \in Handlers, Continue(h)
        PROVE  Turned'
    <2>1. CASE Cascade(h)
      <3>1. alive' = FALSE \/ (End(h) /\ UNCHANGED <<alive, rev, turn>>)
        BY <2>1 DEF Cascade, jobs
      <3>2. QED
        BY <3>1, TurnApart, IdleApart DEF Turned, End, Goto, Foreign
    <2>2. CASE alive /\ ~Cascade(h)
      BY <1>4, <2>2, TurnedGoesOn, TurnedCompares, TurnedRow, TurnedOn,
         TurnedApplies DEF Continue
    <2>3. CASE ~alive /\ ~Cascade(h)
      <3>1. alive' = alive
        BY <1>4, <2>3
           DEF Continue, Compare, ApplyEdit, WritePatch, ApplyFix, Accept, InsertDraft,
               AppendSnapshot, MarkCommitted, ApplyTurn, InsertTurn, Settle, Preview,
               QueueGeneration, PutFile, InsertAsset, ReviseScene, ReviseNothing,
               QueueReplacement, QueueRedesign, QueueOrder, QueuePayload, CreateJob,
               DeleteFiles, Die
      <3>2. QED
        BY <2>3, <3>1 DEF Turned
    <2>4. QED
      BY <2>1, <2>2, <2>3
  <1>5. QED
    BY <1>2, <1>3, <1>4 DEF WorkflowNext

\* No turn has begun at first.
LEMMA TurnedAtFirst == WorkflowInit => Turned
  <1>1. SUFFICES ASSUME WorkflowInit PROVE Turned
    OBVIOUS
  <1> DEFINE a == [line |-> "canonical", by |-> <<"start", 0>>, content |-> {}]
             b == [line |-> "variant", by |-> <<"start", 0>>, content |-> {}]
  <1>2. rev = <<a, b>>
    BY <1>1 DEF WorkflowInit
  <1>3. a.by[1] = "start" /\ b.by[1] = "start"
    OBVIOUS
  <1> HIDE DEF a, b
  <1>4. Revs = 1..2 /\ rev[1] = a /\ rev[2] = b
    BY <1>2 DEF Revs
  <1>5. \A r \in Revs : rev[r].by[1] # "turn"
    BY <1>3, <1>4
  <1>6. \A h \in Handlers : req[h].pc \notin Turning
    BY <1>1, IdleApart DEF WorkflowInit
  <1>7. \A j \in Turns : turn[j].status = "absent"
    BY <1>1 DEF WorkflowInit, NoTurns
  <1>8. QED
    BY <1>5, <1>6, <1>7 DEF Turned, InTurn, Knows

\* The scene of a turn's n-th command is the one the instruction was given for with the
\* first n commands and nothing else, whichever edits are committed between two commands,
\* and all commands are there once the turn has succeeded: the loop of agent.py passes on
\* the revision a command made as the base of the next one, a command whose base is no
\* longer the tip ends the turn, and one that has been compared is applied to the scene
\* that was read.
THEOREM TurnsWhole == WorkflowSpec => []TurnsUnmixed
  <1>1. IInv /\ Tied /\ Turned => TurnsUnmixed
    BY DEF Turned, InTurn, Applied, Onward, Commands, Through, TurnsUnmixed
  <1>2. /\ IInv /\ Tied /\ Turned /\ [WorkflowNext]_workflowVars
        => IInv' /\ Tied' /\ Turned'
    BY StepOK, TiedOK, TurnedStep
  <1>3. WorkflowInit => IInv /\ Tied /\ Turned
    BY InitOK, TiedAtFirst, TurnedAtFirst
  <1>4. QED
    BY <1>1, <1>2, <1>3, PTL DEF WorkflowSpec

-----------------------------------------------------------------------------
\* the canonical revisions
Trunk == {r \in Revs : rev[r].line = "canonical"}

\* The tip is the last of them.
LEMMA TurnTip ==
  ASSUME Shape
  PROVE  /\ Len(rev) \in Nat /\ Tip("canonical") \in 0..Len(rev)
         /\ Tip("canonical") # 0 => Tip("canonical") \in Trunk
         /\ \A q \in Trunk : q <= Tip("canonical")
  <1>1. Len(rev) \in Nat /\ Tip("canonical") \in 0..Len(rev)
    BY TipThere
  <1>2. Trunk \subseteq 1..Len(rev)
    BY DEF Trunk, Revs
  <1>3. Tip("canonical") = IF Trunk = {} THEN 0
                           ELSE CHOOSE r \in Trunk : \A q \in Trunk : q <= r
    BY DEF Tip, Trunk
  <1>4. CASE Trunk = {}
    BY <1>1, <1>3, <1>4
  <1>5. CASE Trunk # {}
    <2>1. \E r \in Trunk : \A q \in Trunk : q <= r
      BY <1>1, <1>2, <1>5, Newest
    <2>2. Tip("canonical") \in Trunk /\ \A q \in Trunk : q <= Tip("canonical")
      BY <1>3, <1>5, <2>1
    <2>3. QED
      BY <1>1, <2>2
  <1>6. QED
    BY <1>4, <1>5

\* somebody has made a revision for this
Made(by) == \E r \in Revs : rev[r].by = by

\* what a revision was made for says where it is
Labelled ==
  \A r \in Revs :
    LET by == rev[r].by
    IN /\ by[1] \in {"edit", "photo"} => by[2] = r
       /\ by[1] = "draft" => by[2] \in DOMAIN draft
       /\ by[1] = "turn" => /\ by[2] \in Turns /\ turn[by[2]].status # "absent"
                            /\ rev[r].line = "canonical" /\ turn[by[2]].base < r

\* a draft says it is committed if and only if its snapshot is in the history, but while
\* the request that has appended it is about to say so
Marked ==
  \A i \in DOMAIN draft :
    draft[i].committed <=> /\ Made(<<"draft", i>>)
                           /\ \A h \in Handlers : ~(req[h].pc = "commit" /\ req[h].n = i)

\* a deviation whose fix was applied is accepted or about to be
Fixed ==
  \A d \in Deviations :
    Made(<<"deviation", d>>) =>
      dev[d].status = "accepted" \/ \E h \in Handlers : req[h].pc = "accept" /\ req[h].who = d

\* of a photo edit that copies the scene it has found
Copies(r) == r.pc \in {"put", "row", "revise"} /\ r.arg # "upload" /\ r.arg \notin OfTheScene

\* a request whose base has been compared and that goes on to apply a command to it
Compared(r) == r.seen /\ r.pc \in {"edit", "turn", "fix", "revise"}

\* the line such a request is about
LineOf(r) == IF r.pc = "fix" THEN r.arg ELSE "canonical"

\* what a request has read is still so
Ready(r) ==
  /\ r.pc \in {"put", "row"} => ~r.seen
  /\ Compared(r) => r.base = Tip(LineOf(r)) /\ r.base # 0
  /\ r.pc \in {"patch", "fix"} => r.who \in Deviations /\ dev[r.who].status # "accepted"
  /\ r.pc = "accept" => r.who \in Deviations
  /\ r.pc = "save" => r.n \in Nat /\ \A i \in DOMAIN draft : draft[i].version < r.n
  /\ r.pc \in {"snapshot", "commit"} => r.n \in DOMAIN draft
  /\ r.pc = "snapshot" => ~draft[r.n].committed
  /\ r.pc = "commit" => Made(<<"draft", r.n>>)
  /\ r.pc = "instruct" => r.who \in Turns
  /\ r.pc = "turn" => /\ r.who \in Turns /\ turn[r.who].status # "absent" /\ r.n \in Nat
                      /\ \A q \in Applied(r.who) : rev[q].by[3] \in 1..r.n
  /\ r.pc = "revise" => r.arg # "upload"
  /\ Copies(r) => Tip("canonical") # 0 /\ r.scene = rev[Tip("canonical")].content

\* a row of the plan drafts
DraftRow == [version : Nat, committed : BOOLEAN]

\* all this
Orderly ==
  /\ draft \in Seq(DraftRow)
  /\ Once /\ Versioned /\ EditsKept
  /\ Labelled /\ Marked /\ Fixed
  /\ \A h \in Handlers : Ready(req[h])

\* as long as no two requests have overlapped and none has died
Serial == died \in Nat /\ (overlaps = 0 /\ died = 0 => Orderly)

\* nobody but h is served
Sole(h) == \A g \in Handlers \ {h} : req[g].pc = "idle"

\* A request that ends, or goes on to a step that relies on nothing it has read.
LEMMA IdleReady ==
  ASSUME NEW r, r.pc \notin {"patch", "fix", "accept", "save", "snapshot", "commit", "instruct",
                             "turn", "revise", "put", "row", "edit"}
  PROVE  Ready(r) /\ Ready(r)'
  BY DEF Ready, Copies, Compared

\* A request that is not about to mark anything reads, ends, or goes on.
LEMMA OnlyReads ==
  ASSUME Orderly, NEW h \in Handlers, Sole(h), UNCHANGED <<rev, draft, dev, turn>>,
         \A g \in Handlers \ {h} : req'[g] = req[g], NEW y, req'[h] = y, Ready(y),
         req[h].pc \notin {"commit", "accept"}, y.pc \notin {"commit", "accept"}
  PROVE  Orderly'
  <1>1. Revs' = Revs
    BY DEF Revs
  <1>2. Once' /\ Versioned' /\ EditsKept' /\ Labelled' /\ draft' \in Seq(DraftRow)
    BY <1>1 DEF Orderly, Once, Versioned, EditsKept, Labelled
  <1>3. \A by : Made(by)' <=> Made(by)
    BY <1>1 DEF Made
  <1>4. \A g \in Handlers : /\ req[g].pc \notin {"commit", "accept"}
                            /\ req'[g].pc \notin {"commit", "accept"}
    BY DEF Sole
  <1>5. Marked' /\ Fixed'
    BY <1>3, <1>4 DEF Orderly, Marked, Fixed
  <1>6. \A r : Ready(r)' <=> Ready(r)
    <2>1. (\A line : Tip(line)' = Tip(line)) /\ \A j : Applied(j)' = Applied(j)
      BY <1>1 DEF Tip, Applied
    <2>2. QED
      BY <1>3, <2>1 DEF Ready, Copies, Compared, LineOf
  <1>7. \A g \in Handlers : Ready(req[g])'
    BY <1>6 DEF Orderly
  <1>8. QED
    BY <1>2, <1>5, <1>7 DEF Orderly

\* What is made, and made once, when a revision is appended.
LEMMA MadeMore ==
  ASSUME NEW n, NEW x, Revs' = Revs \cup {n}, rev'[n] = x, \A r \in Revs : rev'[r] = rev[r]
  PROVE  \A by : Made(by)' <=> Made(by) \/ by = x.by
  <1>1. TAKE by
  <1>2. Made(by)' <=> \E r \in Revs' : rev'[r].by = by
    BY DEF Made
  <1>3. CASE Made(by)
    BY <1>2, <1>3 DEF Made
  <1>4. CASE by = x.by
    BY <1>2, <1>4
  <1>5. CASE Made(by)'
    <2>1. PICK r \in Revs' : rev'[r].by = by
      BY <1>2, <1>5
    <2>2. CASE r = n
      BY <1>5, <2>1, <2>2
    <2>3. CASE r \in Revs
      BY <1>5, <2>1, <2>3 DEF Made
    <2>4. QED
      BY <2>2, <2>3
  <1>6. QED
    BY <1>3, <1>4, <1>5

\* A revision for what none was made for leaves each made once.
LEMMA OnceMore ==
  ASSUME NEW n, NEW x, Revs' = Revs \cup {n}, rev'[n] = x, \A r \in Revs : rev'[r] = rev[r],
         Once, ~Made(x.by)
  PROVE  Once'
  <1>1. SUFFICES ASSUME NEW q \in Revs', NEW r \in Revs',
                        rev'[q].by = rev'[r].by, rev'[q].by[1] # "start"
                 PROVE  q = r
    BY DEF Once
  <1>2. \A p \in Revs : rev'[p].by # x.by /\ rev'[p] = rev[p]
    BY DEF Made
  <1>3. CASE q \in Revs /\ r \in Revs
    <2>1. rev[q].by = rev[r].by /\ rev[q].by[1] # "start"
      BY <1>1, <1>2, <1>3
    <2>2. QED
      BY <1>3, <2>1 DEF Once
  <1>4. CASE q = n \/ r = n
    BY <1>1, <1>2, <1>4
  <1>5. QED
    BY <1>3, <1>4

\* A revision is appended that was not made before, by a request that is about to mark
\* what it was made for.
LEMMA AppendsOnce ==
  ASSUME IInv, Orderly, NEW h \in Handlers, Sole(h), UNCHANGED <<draft, dev, turn>>,
         \A g \in Handlers \ {h} : req'[g] = req[g], NEW y, req'[h] = y, Ready(y)',
         req[h].pc \notin {"commit", "accept"},
         NEW x, rev' = Append(rev, x), NEW n, n = Len(rev) + 1,
         ~Made(x.by),
         x.by[1] \in {"edit", "photo"} => x.by[2] = n,
         x.by[1] = "draft" => x.by[2] \in DOMAIN draft,
         x.by[1] = "turn" => /\ x.by[2] \in Turns /\ turn[x.by[2]].status # "absent"
                             /\ x.line = "canonical" /\ turn[x.by[2]].base < n,
         x.by[1] # "draft" /\ x.line = "canonical" /\ Tip("canonical") # 0 =>
           rev[Tip("canonical")].content \subseteq x.content,
         \A i \in DOMAIN draft : x.by = <<"draft", i>> <=> y.pc = "commit" /\ y.n = i,
         \A d \in Deviations : x.by = <<"deviation", d>> => y.pc = "accept" /\ y.who = d
  PROVE  Orderly'
  <1>1. PICK S : rev \in Seq(S)
    BY DEF IInv, Shape
  <1>2. /\ Len(rev) \in Nat /\ Revs' = Revs \cup {n} /\ rev'[n] = x
        /\ \A r \in Revs : rev'[r] = rev[r]
    BY <1>1, AppendedKeeps
  <1>3. Revs = 1..Len(rev) /\ n \in Nat /\ \A r \in Revs : r \in Nat /\ r < n
    BY <1>2 DEF Revs
  <1>4. \A by : Made(by)' <=> Made(by) \/ by = x.by
    BY <1>2, MadeMore
  <1>5. Once'
    BY <1>2, OnceMore DEF Orderly
  <1>6. EditsKept'
    <2>1. SUFFICES ASSUME NEW q \in Revs', NEW r \in Revs',
                          rev'[q].line = "canonical", rev'[r].line = "canonical", q < r,
                          rev'[r].by[1] # "draft",
                          \A p \in Revs' : q < p /\ p < r => rev'[p].line # "canonical"
                   PROVE  rev'[q].content \subseteq rev'[r].content
      BY DEF EditsKept
    <2>2. q \in Revs
      BY <1>2, <1>3, <2>1
    <2>3. CASE r \in Revs
      <3>1. \A p \in Revs : q < p /\ p < r => rev[p].line # "canonical"
        BY <1>2, <2>1
      <3>2. rev'[q] = rev[q] /\ rev'[r] = rev[r]
        BY <1>2, <2>2, <2>3
      <3>3. QED
        BY <2>1, <2>2, <2>3, <3>1, <3>2 DEF Orderly, EditsKept
    <2>4. CASE r = n
      <3> DEFINE c == Tip("canonical")
      <3>1. /\ c # 0 => c \in Trunk
            /\ \A p \in Trunk : p <= c
        BY TurnTip DEF IInv
      <3>2. q \in Trunk /\ q \in Nat /\ q # 0 /\ c \in Nat
        BY <1>2, <1>3, <2>1, <2>2, TurnTip DEF Trunk, IInv
      <3> HIDE DEF c
      <3>3. q <= c /\ c # 0 /\ c \in Trunk
        BY <3>1, <3>2
      <3>4. c \in Revs /\ rev'[c].line = "canonical" /\ c \in Revs' /\ c < n
        BY <1>2, <1>3, <3>3 DEF Trunk
      <3>5. ~(q < c)
        BY <2>1, <2>4, <3>4
      <3>6. q = c
        BY <3>2, <3>3, <3>5
      <3>7. QED
        BY <1>2, <2>1, <2>2, <2>4, <3>3, <3>6 DEF c
    <2>5. QED
      BY <1>2, <2>3, <2>4
  <1>7. Versioned' /\ draft' \in Seq(DraftRow)
    BY DEF Orderly, Versioned
  <1>8. Labelled'
    <2>1. SUFFICES ASSUME NEW r \in Revs'
                   PROVE  LET by == rev'[r].by
                          IN /\ by[1] \in {"edit", "photo"} => by[2] = r
                             /\ by[1] = "draft" => by[2] \in DOMAIN draft
                             /\ by[1] = "turn" => /\ by[2] \in Turns
                                                  /\ turn[by[2]].status # "absent"
                                                  /\ rev'[r].line = "canonical"
                                                  /\ turn[by[2]].base < r
      BY DEF Labelled
    <2>2. CASE r = n
      BY <1>2, <2>2
    <2>3. CASE r \in Revs
      <3>1. rev'[r] = rev[r]
        BY <1>2, <2>3
      <3>2. QED
        BY <2>3, <3>1 DEF Orderly, Labelled
    <2>4. QED
      BY <1>2, <2>2, <2>3
  <1>9. \A g \in Handlers : req[g].pc \notin {"commit", "accept"}
    BY DEF Sole
  <1>10. \A g \in Handlers : req'[g].pc \in {"commit", "accept"} => g = h
    BY <1>9
  <1>11. Marked'
    <2>1. \A i \in DOMAIN draft : draft[i].committed <=> Made(<<"draft", i>>)
      BY <1>9 DEF Orderly, Marked
    <2>2. \A i \in DOMAIN draft : (\A g \in Handlers : ~(req'[g].pc = "commit" /\ req'[g].n = i))
                                  <=> ~(x.by = <<"draft", i>>)
      BY <1>10
    <2>3. \A i \in DOMAIN draft : Made(<<"draft", i>>)' <=>
                                  Made(<<"draft", i>>) \/ <<"draft", i>> = x.by
      BY <1>4
    <2>4. ASSUME NEW i \in DOMAIN draft
          PROVE  /\ draft[i].committed => Made(<<"draft", i>>) /\ x.by # <<"draft", i>>
                 /\ ~draft[i].committed => ~Made(<<"draft", i>>)
      BY <2>1
    <2>5. \A i \in DOMAIN draft :
            draft[i].committed <=>
              Made(<<"draft", i>>)' /\ \A g \in Handlers : ~(req'[g].pc = "commit" /\ req'[g].n = i)
      BY <2>2, <2>3, <2>4
    <2>6. QED
      BY <2>5 DEF Marked
  <1>12. Fixed'
    BY <1>4, <1>9 DEF Orderly, Fixed
  <1>13. ASSUME NEW g \in Handlers \ {h}
         PROVE  Ready(req[g])'
    <2>1. req'[g].pc = "idle"
      BY DEF Sole
    <2>2. QED
      BY <2>1 DEF Ready, Copies, Compared
  <1>14. QED
    BY <1>5, <1>6, <1>7, <1>8, <1>11, <1>12, <1>13 DEF Orderly

\* A step that appends nothing: what else it has to keep.
LEMMA WritesRows ==
  ASSUME Orderly, rev' = rev, draft' \in Seq(DraftRow), Versioned',
         DOMAIN draft \subseteq DOMAIN draft',
         \A j \in Turns : turn[j].status # "absent" =>
           turn'[j].status # "absent" /\ turn'[j].base = turn[j].base,
         Marked', Fixed', \A h \in Handlers : Ready(req[h])'
  PROVE  Orderly'
  <1>1. Revs' = Revs
    BY DEF Revs
  <1>2. Once' /\ EditsKept'
    BY <1>1 DEF Orderly, Once, EditsKept
  <1>3. Labelled'
    BY <1>1 DEF Orderly, Labelled
  <1>4. QED
    BY <1>2, <1>3 DEF Orderly

\* What was made is told by the revisions alone.
LEMMA MadeSame ==
  ASSUME rev' = rev
  PROVE  \A by : Made(by)' <=> Made(by)
  BY DEF Made, Revs

\* The drafts' versions ascend: the newest draft has the highest.
LEMMA DraftOrder ==
  ASSUME draft \in Seq(DraftRow), Versioned
  PROVE  /\ HighestVersion \in Nat /\ \A i \in DOMAIN draft : draft[i].version <= HighestVersion
         /\ LatestDraft # 0 => LatestDraft \in DOMAIN draft
  <1> DEFINE all == {draft[i].version : i \in DOMAIN draft}
             n == Len(draft)
             top == {i \in DOMAIN draft : draft[i].version = HighestVersion}
  <1>1. /\ DOMAIN draft = 1..n /\ n \in Nat
        /\ \A i \in DOMAIN draft : draft[i] \in DraftRow
    BY LenProperties, ElementOfSeq
  <1>2. \A i \in DOMAIN draft : draft[i].version \in Nat
    BY <1>1 DEF DraftRow
  <1>3. HighestVersion = IF all = {} THEN 0 ELSE CHOOSE v \in all : \A w \in all : w <= v
    BY DEF HighestVersion
  <1>4. LatestDraft = IF top = {} THEN 0 ELSE CHOOSE i \in top : \A k \in top : k <= i
    BY DEF LatestDraft
  <1>5. CASE DOMAIN draft = {}
    <2>1. all = {} /\ top = {}
      BY <1>5
    <2>2. QED
      BY <1>3, <1>4, <1>5, <2>1
  <1>6. CASE DOMAIN draft # {}
    <2>1. n \in DOMAIN draft /\ \A i \in DOMAIN draft : i = n \/ i < n
      BY <1>1, <1>6
    <2>2. \A i \in DOMAIN draft : draft[i].version <= draft[n].version
      <3>1. SUFFICES ASSUME NEW i \in DOMAIN draft
                     PROVE  draft[i].version <= draft[n].version
        OBVIOUS
      <3>2. draft[i].version \in Nat /\ draft[n].version \in Nat
        BY <1>2, <2>1
      <3>3. i = n \/ draft[i].version < draft[n].version
        BY <2>1 DEF Versioned
      <3>4. QED
        BY <3>2, <3>3
    <2>3. draft[n].version \in all /\ \A w \in all : w <= draft[n].version
      BY <2>1, <2>2
    <2>4. HighestVersion \in all /\ \A w \in all : w <= HighestVersion
      <3> HIDE DEF all
      <3>1. QED
        BY <1>3, <2>3
    <2>5. HighestVersion \in Nat /\ \A i \in DOMAIN draft : draft[i].version <= HighestVersion
      BY <1>2, <2>4
    <2>6. HighestVersion = draft[n].version
      <3>1. HighestVersion <= draft[n].version /\ draft[n].version <= HighestVersion
        BY <2>3, <2>4
      <3>2. QED
        BY <1>2, <2>1, <2>5, <3>1
    <2>7. n \in top /\ top \subseteq DOMAIN draft
      BY <2>1, <2>6
    <2>8. n \in top /\ \A k \in top : k <= n
      BY <1>1, <2>7
    <2>9. LatestDraft \in DOMAIN draft
      <3> HIDE DEF top
      <3>1. LatestDraft \in top
        BY <1>4, <2>8
      <3>2. QED
        BY <2>7, <3>1
    <2>10. QED
      BY <2>5, <2>9
  <1>7. QED
    BY <1>5, <1>6

\* Nobody else is served: what the step of a request that is taken up leaves as it was.
LEMMA SoleServes ==
  ASSUME Tied, Serial, NEW h \in Handlers, Serve(h), overlaps' = 0, died' = 0
  PROVE  /\ died' \in Nat /\ Orderly /\ Sole(h) /\ req[h].pc = "idle"
  BY ServeCounts DEF Serial, Serve, Sole

\* The same of a request that goes on.
LEMMA SoleGoes ==
  ASSUME IInv, Tied, Serial, NEW h \in Handlers, ~Free(h), NEW x, Goto(h, x)
  PROVE  /\ died' \in Nat /\ overlaps' = overlaps /\ died' = died
         /\ req'[h] = x /\ \A g \in Handlers \ {h} : req'[g] = req[g]
         /\ overlaps' = 0 /\ died' = 0 => Orderly /\ Sole(h)
  <1>1. overlaps' = overlaps /\ died' = died
    BY DEF Goto, counts
  <1>2. req'[h] = x /\ \A g \in Handlers \ {h} : req'[g] = req[g]
    BY DEF Goto, IInv, Shape
  <1>3. overlaps = 0 => Sole(h)
    BY DEF Tied, Alone, Sole, Free
  <1>4. QED
    BY <1>1, <1>2, <1>3 DEF Serial

\* A request begins with what it reads.
LEMMA BeginsReady ==
  ASSUME IInv, Tied, Serial, NEW h \in Handlers, NEW r, Start(h, r),
         UNCHANGED <<rev, draft, dev, turn>>,
         Orderly => Ready(r), r.pc \notin {"commit", "accept"}
  PROVE  Serial'
  <1>1. /\ died' \in Nat /\ Serve(h)
        /\ req'[h] = r /\ \A g \in Handlers \ {h} : req'[g] = req[g]
    BY DEF Start, Serve, Serial, IInv, Shape
  <1>2. ASSUME overlaps' = 0, died' = 0
        PROVE  Orderly'
    <2>1. Orderly /\ Sole(h) /\ req[h].pc = "idle"
      BY <1>1, <1>2, SoleServes
    <2>2. QED
      BY <1>1, <2>1, OnlyReads
  <1>3. QED
    BY <1>1, <1>2 DEF Serial

\* A request goes on that is not about to mark anything.
LEMMA GoesReady ==
  ASSUME IInv, Tied, Serial, NEW h \in Handlers, ~Free(h), NEW x, Goto(h, x),
         UNCHANGED <<rev, draft, dev, turn>>,
         Orderly => Ready(x), x.pc \notin {"commit", "accept"},
         req[h].pc \notin {"commit", "accept"}
  PROVE  Serial'
  <1>1. ASSUME overlaps' = 0, died' = 0
        PROVE  Orderly'
    <2>1. /\ Orderly /\ Sole(h) /\ req'[h] = x
          /\ \A g \in Handlers \ {h} : req'[g] = req[g]
      BY <1>1, SoleGoes
    <2>2. QED
      BY <2>1, OnlyReads
  <1>2. QED
    BY <1>1, SoleGoes DEF Serial

\* A request ends that was not about to mark anything.
LEMMA EndsReady ==
  ASSUME IInv, Tied, Serial, NEW h \in Handlers, ~Free(h), End(h),
         UNCHANGED <<rev, draft, dev, turn>>, req[h].pc \notin {"commit", "accept"}
  PROVE  Serial'
  <1>1. Ready(Idle) /\ Idle.pc = "idle"
    BY IdleReady, IdleApart
  <1>2. QED
    BY <1>1, GoesReady DEF End

\* When the only request there is has ended, none relies on anything.
LEMMA EndsIdle ==
  ASSUME Orderly, NEW h \in Handlers, Sole(h), \A g \in Handlers \ {h} : req'[g] = req[g],
         req'[h].pc = "idle"
  PROVE  \A g \in Handlers : Ready(req[g])' /\ req'[g].pc = "idle"
  <1>1. \A g \in Handlers : req'[g].pc = "idle"
    BY DEF Sole
  <1>2. QED
    BY <1>1 DEF Ready, Copies, Compared

\* A request that is served at once and writes none of the rows in question.
LEMMA AtOnceReady ==
  ASSUME IInv, Tied, Serial, NEW h \in Handlers, Serve(h), UNCHANGED <<rev, draft, dev, turn, req>>
  PROVE  Serial'
  <1>1. died' \in Nat
    BY DEF Serve, Serial
  <1>2. ASSUME overlaps' = 0, died' = 0
        PROVE  Orderly'
    <2>1. Orderly /\ Sole(h) /\ req[h].pc = "idle"
      BY <1>2, SoleServes
    <2>2. QED
      BY <2>1, OnlyReads DEF Orderly
  <1>3. QED
    BY <1>1, <1>2 DEF Serial

\* A snapshot is taken or deleted, a deviation recorded, dismissed or about to be fixed.
LEMMA SerialProgress ==
  ASSUME IInv, Tied, Serial, NEW h \in Handlers, ProgressRequest(h)
  PROVE  Serial'
  <1>1. CASE (\E line : CreateSnapshot(h, line)) \/ SoftDelete(h)
    BY <1>1, AtOnceReady DEF CreateSnapshot, SoftDelete, scenes, jobs
  <1>2. ASSUME NEW d \in Deviations, NEW s, CreateDeviation(h, d, s)
        PROVE  Serial'
    <2>1. /\ Serve(h) /\ UNCHANGED <<rev, draft, turn, req>> /\ dev[d].status = "absent"
          /\ dev' = [dev EXCEPT ![d] = [status |-> s, planned |-> snap.pin, rev |-> 0]]
      BY <1>2 DEF CreateDeviation, scenes, jobs
    <2>2. died' \in Nat
      BY <2>1 DEF Serve, Serial
    <2>3. ASSUME overlaps' = 0, died' = 0
          PROVE  Orderly'
      <3>1. Orderly /\ Sole(h) /\ req[h].pc = "idle"
        BY <2>1, <2>3, SoleServes
      <3>2. \A g \in Handlers : Ready(req[g])' /\ req'[g].pc = "idle" /\ req[g].pc = "idle"
        BY <2>1, <3>1, EndsIdle
      <3>3. \A e \in Deviations \ {d} : dev'[e] = dev[e]
        BY <2>1 DEF IInv, Shape
      <3>4. \A by : Made(by)' <=> Made(by)
        BY <2>1, MadeSame
      <3>5. ~Made(<<"deviation", d>>)
        BY <2>1, <3>1, <3>2 DEF Orderly, Fixed
      <3>6. Fixed'
        <4>1. \A e \in Deviations : Made(<<"deviation", e>>) => dev[e].status = "accepted"
          BY <3>1, <3>2 DEF Orderly, Fixed
        <4>2. \A e \in Deviations : Made(<<"deviation", e>>)' => dev'[e].status = "accepted"
          BY <3>3, <3>4, <3>5, <4>1
        <4>3. QED
          BY <4>2 DEF Fixed
      <3>7. Marked' /\ Versioned' /\ draft' \in Seq(DraftRow)
        BY <2>1, <3>1, <3>4 DEF Orderly, Marked, Versioned
      <3>8. QED
        BY <2>1, <3>1, <3>2, <3>6, <3>7, WritesRows
    <2>4. QED
      BY <2>2, <2>3 DEF Serial
  <1>3. ASSUME NEW d \in Deviations, NEW s, PatchDeviation(h, d, s)
        PROVE  Serial'
    <2> DEFINE r == [Idle EXCEPT !.pc = "patch", !.who = d, !.arg = s]
    <2>1. Start(h, r) /\ UNCHANGED <<rev, draft, dev, turn>>
      BY <1>3 DEF PatchDeviation, scenes, progress, jobs
    <2>2. r.pc = "patch" /\ r.who = d
      BY DEF Idle
    <2>3. dev[d].status # "accepted"
      BY <1>3 DEF PatchDeviation, Transitions
    <2> HIDE DEF r
    <2>4. Ready(r)
      BY <2>2, <2>3 DEF Ready, Copies, Compared
    <2>5. QED
      BY <2>1, <2>2, <2>4, BeginsReady
  <1>4. ASSUME NEW d \in Deviations, NEW line, AcceptDeviation(h, d, line)
        PROVE  Serial'
    <2> DEFINE r == [Idle EXCEPT !.pc = "fix", !.who = d, !.arg = line, !.base = Tip(line)]
    <2>1. Start(h, r) /\ UNCHANGED <<rev, draft, dev, turn>> /\ dev[d].status = "confirmed"
      BY <1>4 DEF AcceptDeviation, scenes, progress, jobs
    <2>2. r.pc = "fix" /\ r.who = d /\ ~r.seen
      BY DEF Idle
    <2> HIDE DEF r
    <2>3. Ready(r)
      BY <2>1, <2>2 DEF Ready, Copies, Compared
    <2>4. QED
      BY <2>1, <2>2, <2>3, BeginsReady
  <1>5. QED
    BY <1>1, <1>2, <1>3, <1>4 DEF ProgressRequest

\* A turn is ordered, cancelled or completed.
LEMMA SerialTurn ==
  ASSUME IInv, Tied, Serial, NEW h \in Handlers, TurnRequest(h)
  PROVE  Serial'
  <1>1. ASSUME NEW j \in Turns, Instruct(h, j)
        PROVE  Serial'
    <2> DEFINE r == [Idle EXCEPT !.pc = "instruct", !.who = j, !.base = Tip("canonical")]
    <2>1. Start(h, r) /\ UNCHANGED <<rev, draft, dev, turn>>
      BY <1>1 DEF Instruct, scenes, progress, jobs
    <2>2. r.pc = "instruct" /\ r.who = j
      BY DEF Idle
    <2> HIDE DEF r
    <2>3. Ready(r)
      BY <2>2 DEF Ready, Copies, Compared
    <2>4. QED
      BY <2>1, <2>2, <2>3, BeginsReady
  <1>2. ASSUME NEW j \in Turns, CancelTurn(h, j)
        PROVE  Serial'
    <2>1. /\ Serve(h) /\ UNCHANGED <<rev, draft, dev, req>>
          /\ turn' = [turn EXCEPT ![j] = [@ EXCEPT !.status = "cancelled"]]
      BY <1>2 DEF CancelTurn, scenes, progress
    <2>2. died' \in Nat
      BY <2>1 DEF Serve, Serial
    <2>3. ASSUME overlaps' = 0, died' = 0
          PROVE  Orderly'
      <3>1. Orderly /\ Sole(h) /\ req[h].pc = "idle"
        BY <2>1, <2>3, SoleServes
      <3>2. \A g \in Handlers : Ready(req[g])'
        BY <2>1, <3>1, EndsIdle
      <3>3. \A k \in Turns : /\ turn'[k].base = turn[k].base
                             /\ turn'[k].status \in {turn[k].status, "cancelled"}
        BY <2>1 DEF Tied, TurnRows
      <3>4. \A by : Made(by)' <=> Made(by)
        BY <2>1, MadeSame
      <3>5. Marked' /\ Fixed' /\ Versioned' /\ draft' \in Seq(DraftRow)
        BY <2>1, <3>1, <3>4 DEF Orderly, Marked, Fixed, Versioned
      <3>6. QED
        BY <2>1, <3>1, <3>2, <3>3, <3>5, WritesRows
    <2>4. QED
      BY <2>2, <2>3 DEF Serial
  <1>3. ASSUME NEW j \in Turns, NEW holds, NEW valid, CompleteTurn(h, j, holds, valid)
        PROVE  Serial'
    <2> DEFINE q == [Idle EXCEPT !.who = j, !.arg = turn[j].status, !.base = turn[j].base,
                                 !.holds = holds]
               r == [q EXCEPT !.pc = IF valid /\ q.base # 0 /\ q.base = Tip("canonical")
                                       THEN "turn" ELSE "reject"]
    <2>1. Start(h, r) /\ UNCHANGED <<rev, draft, dev, turn>> /\ turn[j].status # "absent"
      BY <1>3 DEF CompleteTurn, scenes, progress, jobs
    <2>2. /\ r.who = j /\ r.n = 0 /\ ~r.seen
          /\ r.pc = "reject" \/ (r.pc = "turn" /\ turn[j].base = Tip("canonical"))
      BY DEF Idle
    <2> HIDE DEF r
    <2>3. ASSUME Orderly, turn[j].base = Tip("canonical")
          PROVE  Applied(j) = {}
      <3>1. ASSUME NEW p \in Applied(j)
            PROVE  FALSE
        <4>1. p \in Trunk /\ Tip("canonical") < p
          BY <2>3, <3>1 DEF Orderly, Labelled, Applied, Trunk
        <4>2. p <= Tip("canonical") /\ p \in Nat /\ Tip("canonical") \in Nat
          BY <4>1, TurnTip DEF IInv, Trunk, Revs
        <4>3. QED
          BY <4>1, <4>2
      <3>2. QED
        BY <3>1
    <2>4. Orderly => Ready(r)
      BY <2>1, <2>2, <2>3 DEF Ready, Copies, Compared
    <2>5. r.pc \notin {"commit", "accept"}
      BY <2>2
    <2>6. QED
      BY <2>1, <2>4, <2>5, BeginsReady
  <1>4. QED
    BY <1>1, <1>2, <1>3 DEF TurnRequest

\* A photo edit begins with a copy of the scene it has found.
LEMMA SerialPhoto ==
  ASSUME IInv, Tied, Serial, NEW h \in Handlers, PhotoRequest(h)
  PROVE  Serial'
  <1>1. ASSUME NEW kind, NEW images, NEW needs, EditPhoto(h, kind, images, needs), kind # "upload"
        PROVE  Serial'
    <2> DEFINE r == [Idle EXCEPT !.pc = IF needs = 0 THEN "revise" ELSE "put", !.needs = needs,
                       !.base = Tip("canonical"), !.scene = rev[Tip("canonical")].content,
                       !.uses = images, !.arg = kind]
    <2>1. /\ Start(h, r) /\ UNCHANGED <<rev, draft, dev, turn>> /\ Tip("canonical") # 0
      BY <1>1 DEF EditPhoto, scenes, progress, jobs
    <2>2. /\ r.pc \in {"revise", "put"} /\ r.arg = kind /\ ~r.seen
          /\ r.scene = rev[Tip("canonical")].content
      BY DEF Idle
    <2> HIDE DEF r
    <2>3. Ready(r)
      BY <1>1, <2>1, <2>2 DEF Ready, Copies, Compared
    <2>4. QED
      BY <2>1, <2>2, <2>3, BeginsReady
  <1>2. CASE Upload(h) \/ ImportProduct(h)
    <2> DEFINE r == [Idle EXCEPT !.pc = "put", !.arg = "upload", !.needs = 1]
    <2>1. Start(h, r) /\ UNCHANGED <<rev, draft, dev, turn>>
      BY <1>2 DEF Upload, ImportProduct, scenes, progress, jobs
    <2>2. r.pc = "put" /\ r.arg = "upload" /\ ~r.seen
      BY DEF Idle
    <2> HIDE DEF r
    <2>3. Ready(r)
      BY <2>2 DEF Ready, Copies, Compared
    <2>4. QED
      BY <2>1, <2>2, <2>3, BeginsReady
  <1>3. QED
    BY <1>1, <1>2 DEF PhotoRequest, Replace, Redesign, OfTheScene

\* An image job is ordered.
LEMMA SerialJob ==
  ASSUME IInv, Tied, Serial, NEW h \in Handlers, JobRequest(h)
  PROVE  Serial'
  <1>1. ASSUME NEW kind, NEW b, NEW uses, Order(h, kind, b, uses)
        PROVE  Serial'
    <2> DEFINE r == [Idle EXCEPT !.pc = "queue", !.arg = kind, !.base = b, !.uses = uses]
    <2>1. Start(h, r) /\ UNCHANGED <<rev, draft, dev, turn>>
      BY <1>1 DEF Order, scenes, progress, jobs
    <2>2. r.pc = "queue"
      BY DEF Idle
    <2> HIDE DEF r
    <2>3. Ready(r)
      BY <2>2, IdleReady
    <2>4. QED
      BY <2>1, <2>2, <2>3, BeginsReady
  <1>2. QED
    BY <1>1 DEF JobRequest, Generate, Render, Diagnose, AnalyzeStyle, AnalyzePlan, JobCreate

\* Drafts are saved or committed, the scene edited, the project deleted.
LEMMA SerialOther ==
  ASSUME IInv, Tied, Serial, NEW h \in Handlers,
         \/ SaveDraft(h) \/ CommitDraft(h) \/ DeleteProject(h)
         \/ EditScene(h) \/ ArchiveVariant(h)
  PROVE  Serial'
  <1>1. CASE ArchiveVariant(h)
    BY <1>1, AtOnceReady DEF ArchiveVariant, progress, jobs
  <1>2. CASE DeleteProject(h)
    <2> DEFINE r == [Idle EXCEPT !.pc = "cascade"]
    <2>1. Start(h, r) /\ UNCHANGED <<rev, draft, dev, turn>>
      BY <1>2 DEF DeleteProject, scenes, progress, jobs
    <2>2. r.pc = "cascade"
      BY DEF Idle
    <2> HIDE DEF r
    <2>3. Ready(r)
      BY <2>2, IdleReady
    <2>4. QED
      BY <2>1, <2>2, <2>3, BeginsReady
  <1>3. CASE SaveDraft(h)
    <2> DEFINE r == [Idle EXCEPT !.pc = "save", !.n = HighestVersion + 1]
    <2>1. Start(h, r) /\ UNCHANGED <<rev, draft, dev, turn>>
      BY <1>3 DEF SaveDraft, scenes, progress, jobs
    <2>2. r.pc = "save" /\ r.n = HighestVersion + 1
      BY DEF Idle
    <2> HIDE DEF r
    <2>3. ASSUME Orderly
          PROVE  r.n \in Nat /\ \A i \in DOMAIN draft : draft[i].version < r.n
      <3>1. /\ HighestVersion \in Nat /\ \A i \in DOMAIN draft : draft[i].version <= HighestVersion
            /\ \A i \in DOMAIN draft : draft[i] \in DraftRow
        BY <2>3, DraftOrder, ElementOfSeq, LenProperties DEF Orderly
      <3>2. QED
        BY <2>2, <3>1 DEF DraftRow
    <2>4. Orderly => Ready(r)
      BY <2>2, <2>3 DEF Ready, Copies, Compared
    <2>5. QED
      BY <2>1, <2>2, <2>4, BeginsReady
  <1>4. CASE CommitDraft(h)
    <2> DEFINE r == [Idle EXCEPT !.pc = "snapshot", !.n = LatestDraft]
    <2>1. /\ Start(h, r) /\ UNCHANGED <<rev, draft, dev, turn>>
          /\ LatestDraft # 0 /\ ~draft[LatestDraft].committed
      BY <1>4 DEF CommitDraft, scenes, progress, jobs
    <2>2. r.pc = "snapshot" /\ r.n = LatestDraft
      BY DEF Idle
    <2> HIDE DEF r
    <2>3. Orderly => LatestDraft \in DOMAIN draft
      BY <2>1, DraftOrder DEF Orderly
    <2>4. Orderly => Ready(r)
      BY <2>1, <2>2, <2>3 DEF Ready, Copies, Compared
    <2>5. QED
      BY <2>1, <2>2, <2>4, BeginsReady
  <1>5. CASE EditScene(h)
    <2> DEFINE r == [Idle EXCEPT !.pc = "edit", !.base = Tip("canonical")]
    <2>1. Start(h, r) /\ UNCHANGED <<rev, draft, dev, turn>>
      BY <1>5 DEF EditScene, scenes, progress, jobs
    <2>2. r.pc = "edit" /\ ~r.seen
      BY DEF Idle
    <2> HIDE DEF r
    <2>3. Ready(r)
      BY <2>2 DEF Ready, Copies, Compared
    <2>4. QED
      BY <2>1, <2>2, <2>3, BeginsReady
  <1>6. QED
    BY <1>1, <1>2, <1>3, <1>4, <1>5

\* A request that goes on appends what was not made before.
LEMMA GoesOnAppending ==
  ASSUME IInv, Tied, Serial, NEW h \in Handlers, ~Free(h), NEW z, Goto(h, z),
         UNCHANGED <<draft, dev, turn>>, req[h].pc \notin {"commit", "accept"},
         NEW x, rev' = Append(rev, x), NEW n, n = Len(rev) + 1,
         Orderly /\ Sole(h) =>
           /\ ~Made(x.by)
           /\ x.by[1] \in {"edit", "photo"} => x.by[2] = n
           /\ x.by[1] = "draft" => x.by[2] \in DOMAIN draft
           /\ x.by[1] = "turn" => /\ x.by[2] \in Turns /\ turn[x.by[2]].status # "absent"
                                  /\ x.line = "canonical" /\ turn[x.by[2]].base < n
           /\ x.by[1] # "draft" /\ x.line = "canonical" /\ Tip("canonical") # 0 =>
                rev[Tip("canonical")].content \subseteq x.content,
         \A i : x.by = <<"draft", i>> <=> z.pc = "commit" /\ z.n = i,
         \A d : x.by = <<"deviation", d>> => z.pc = "accept" /\ z.who = d,
         Orderly /\ req'[h] = z => Ready(req[h])'
  PROVE  Serial'
  <1>1. ASSUME overlaps' = 0, died' = 0
        PROVE  Orderly'
    <2>1. /\ Orderly /\ Sole(h) /\ req'[h] = z
          /\ \A g \in Handlers \ {h} : req'[g] = req[g]
      BY <1>1, SoleGoes
    <2>2. PICK y : y = z
      OBVIOUS
    <2>3. Ready(y)' /\ req'[h] = y
      BY <2>1, <2>2
    <2>4. /\ ~Made(x.by)
          /\ x.by[1] \in {"edit", "photo"} => x.by[2] = n
          /\ x.by[1] = "draft" => x.by[2] \in DOMAIN draft
          /\ x.by[1] = "turn" => /\ x.by[2] \in Turns /\ turn[x.by[2]].status # "absent"
                                 /\ x.line = "canonical" /\ turn[x.by[2]].base < n
          /\ x.by[1] # "draft" /\ x.line = "canonical" /\ Tip("canonical") # 0 =>
               rev[Tip("canonical")].content \subseteq x.content
      BY <2>1
    <2>5. /\ \A i \in DOMAIN draft : x.by = <<"draft", i>> <=> y.pc = "commit" /\ y.n = i
          /\ \A d \in Deviations : x.by = <<"deviation", d>> => y.pc = "accept" /\ y.who = d
      BY <2>2
    <2>6. QED
      BY <2>1, <2>3, <2>4, <2>5, AppendsOnce
  <1>2. QED
    BY <1>1, SoleGoes DEF Serial

\* A base is compared with the tip: it is the tip, or the request ends.
LEMMA SerialCompare ==
  ASSUME IInv, Tied, Serial, NEW h \in Handlers, Compare(h)
  PROVE  Serial'
  <1> DEFINE r == req[h]
             line == IF r.pc = "fix" THEN r.arg ELSE "canonical"
             a == [r EXCEPT !.seen = TRUE]
             b == [r EXCEPT !.pc = "reject"]
  <1>1. /\ UNCHANGED <<rev, draft, dev, turn>> /\ ~Free(h)
        /\ r.pc \in {"edit", "fix", "turn", "revise"}
    BY DEF Compare, Free, scenes, progress, jobs
  <1>2. \/ Goto(h, a) /\ r.base # 0 /\ Tip(line) = r.base
        \/ Goto(h, b)
        \/ End(h)
    BY DEF Compare, End
  <1>3. CASE Goto(h, a) /\ r.base # 0 /\ Tip(line) = r.base
    <2>1. /\ a.pc = r.pc /\ a.who = r.who /\ a.arg = r.arg /\ a.base = r.base
          /\ a.n = r.n /\ a.scene = r.scene
      BY DEF IInv, Shape, Keys
    <2> HIDE DEF a
    <2>2. LineOf(a) = line
      BY <2>1 DEF LineOf
    <2>3. Orderly => Ready(a)
      BY <1>1, <1>3, <2>1, <2>2 DEF Orderly, Ready, Copies, Compared
    <2>4. QED
      BY <1>1, <1>3, <2>1, <2>3, GoesReady
  <1>4. CASE Goto(h, b)
    <2>1. b.pc = "reject"
      BY DEF IInv, Shape, Keys
    <2> HIDE DEF b
    <2>2. Ready(b)
      BY <2>1, IdleReady
    <2>3. QED
      BY <1>1, <1>4, <2>1, <2>2, GoesReady
  <1>5. CASE End(h)
    BY <1>1, <1>5, EndsReady
  <1>6. QED
    BY <1>2, <1>3, <1>4, <1>5

\* An ordinary command is applied.
LEMMA SerialEdit ==
  ASSUME IInv, Tied, Serial, NEW h \in Handlers, ApplyEdit(h)
  PROVE  Serial'
  <1>1. PICK n : n = Len(rev) + 1
    OBVIOUS
  <1> DEFINE by == <<"edit", n>>
             x == [line |-> "canonical", by |-> by,
                   content |-> rev[req[h].base].content \cup {by}]
  <1>2. /\ UNCHANGED <<draft, dev, turn>> /\ req[h].pc = "edit" /\ req[h].seen /\ ~Free(h)
        /\ End(h) /\ (rev' = Append(rev, x) \/ rev' = rev)
    BY <1>1 DEF ApplyEdit, progress, jobs, scenes, Onto, Inserted, Free
  <1>3. CASE rev' = Append(rev, x)
    <2>1. x.by = by /\ x.line = "canonical" /\ rev[req[h].base].content \subseteq x.content
      OBVIOUS
    <2>2. /\ by[1] = "edit" /\ by[2] = n
          /\ \A i : by # <<"draft", i>> /\ by # <<"deviation", i>>
      OBVIOUS
    <2> HIDE DEF x, by
    <2>3. Orderly => req[h].base = Tip("canonical")
      BY <1>2 DEF Orderly, Ready, Compared, LineOf
    <2>4. Orderly => ~Made(by)
      <3>1. \A r \in Revs : r # n
        BY <1>1, TurnTip DEF Revs, IInv
      <3>2. QED
        BY <2>2, <3>1 DEF Orderly, Labelled, Made
    <2>5. Goto(h, Idle) /\ Idle.pc = "idle" /\ Ready(Idle)'
      BY <1>2, IdleApart, IdleReady DEF End
    <2>6. req'[h] = Idle => Ready(req[h])'
      BY <2>5
    <2>7. QED
      BY <1>1, <1>2, <1>3, <2>1, <2>2, <2>3, <2>4, <2>5, <2>6, GoesOnAppending
  <1>4. CASE rev' = rev
    BY <1>2, <1>4, EndsReady
  <1>5. QED
    BY <1>2, <1>3, <1>4

\* The fix of a deviation is applied, which was not applied before.
LEMMA SerialFix ==
  ASSUME IInv, Tied, Serial, NEW h \in Handlers, ApplyFix(h)
  PROVE  Serial'
  <1>1. PICK n, w, line : n = Len(rev) + 1 /\ w = req[h].who /\ line = req[h].arg
    OBVIOUS
  <1> DEFINE by == <<"deviation", w>>
             x == [line |-> line, by |-> by,
                   content |-> rev[req[h].base].content \cup {by}]
             z == [req[h] EXCEPT !.pc = "accept", !.base = Len(rev) + 1]
  <1>2. /\ UNCHANGED <<draft, dev, turn>> /\ req[h].pc = "fix" /\ req[h].seen /\ ~Free(h)
        /\ \/ rev' = Append(rev, x) /\ Goto(h, z)
           \/ End(h) /\ rev' = rev
    BY <1>1 DEF ApplyFix, progress, jobs, scenes, Onto, Inserted, Free
  <1>3. CASE rev' = Append(rev, x) /\ Goto(h, z)
    <2>1. z.pc = "accept" /\ z.who = w
      BY <1>1, <1>2 DEF IInv, Shape, Keys
    <2>2. x.by = by /\ x.line = line /\ rev[req[h].base].content \subseteq x.content
      OBVIOUS
    <2>3. /\ by[1] = "deviation" /\ by[2] = w /\ \A i : by # <<"draft", i>>
          /\ \A d : by = <<"deviation", d>> => d = w
      OBVIOUS
    <2> HIDE DEF x, z, by
    <2>4. Orderly /\ x.line = "canonical" => rev[Tip("canonical")].content \subseteq x.content
      <3>1. Orderly => req[h].base = Tip(line)
        BY <1>1, <1>2 DEF Orderly, Ready, Compared, LineOf
      <3>2. QED
        BY <2>2, <3>1
    <2>5. Orderly => w \in Deviations /\ dev[w].status # "accepted"
      BY <1>1, <1>2 DEF Orderly, Ready
    <2>6. Orderly /\ Sole(h) => ~Made(by)
      BY <1>2, <2>5 DEF Orderly, Fixed, Sole, by
    <2>7. Orderly /\ req'[h] = z => Ready(req[h])'
      BY <2>1, <2>5 DEF Ready, Copies, Compared
    <2>8. QED
      BY <1>1, <1>2, <1>3, <2>1, <2>2, <2>3, <2>4, <2>6, <2>7, GoesOnAppending
  <1>4. CASE End(h) /\ rev' = rev
    BY <1>2, <1>4, EndsReady
  <1>5. QED
    BY <1>2, <1>3, <1>4

\* A deviation is patched or marked.
LEMMA SerialDeviation ==
  ASSUME IInv, Tied, Serial, NEW h \in Handlers, WritePatch(h) \/ Accept(h)
  PROVE  Serial'
  <1>1. PICK w : w = req[h].who
    OBVIOUS
  <1>2. /\ ~Free(h) /\ End(h) /\ UNCHANGED <<rev, draft, turn>>
        /\ req[h].pc \in {"patch", "accept"}
    BY DEF WritePatch, Accept, Free, scenes, jobs
  <1>3. /\ \A d \in Deviations \ {w} : dev'[d] = dev[d]
        /\ req[h].pc = "accept" => \A d \in Deviations \cap {w} : dev'[d].status = "accepted"
    BY <1>1 DEF WritePatch, Accept, IInv, Shape
  <1>4. /\ died' \in Nat /\ req'[h] = Idle
        /\ \A g \in Handlers \ {h} : req'[g] = req[g]
        /\ overlaps' = 0 /\ died' = 0 => Orderly /\ Sole(h)
    BY <1>2, SoleGoes DEF End
  <1>5. ASSUME Orderly, Sole(h)
        PROVE  Orderly'
    <2>1. \A g \in Handlers : Ready(req[g])' /\ req'[g].pc = "idle"
      BY <1>4, <1>5, EndsIdle, IdleApart
    <2>2. \A by : Made(by)' <=> Made(by)
      BY <1>2, MadeSame
    <2>3. /\ w \in Deviations
          /\ req[h].pc = "patch" => dev[w].status # "accepted"
      BY <1>1, <1>2, <1>5 DEF Orderly, Ready
    <2>4. \A g \in Handlers : req[g].pc = "accept" => g = h
      BY <1>5 DEF Sole
    <2>5. \A d \in Deviations \ {w} : Made(<<"deviation", d>>) => dev[d].status = "accepted"
      BY <1>1, <1>5, <2>4 DEF Orderly, Fixed
    <2>6. Made(<<"deviation", w>>) => req[h].pc = "accept"
      BY <1>2, <1>5, <2>3, <2>4 DEF Orderly, Fixed
    <2>7. \A d \in Deviations : Made(<<"deviation", d>>)' => dev'[d].status = "accepted"
      BY <1>3, <2>2, <2>3, <2>5, <2>6
    <2>8. Fixed'
      BY <2>7 DEF Fixed
    <2>9. \A g \in Handlers : req[g].pc # "commit" /\ req'[g].pc # "commit"
      BY <1>2, <1>5, <2>1 DEF Sole
    <2>10. Marked' /\ Versioned' /\ draft' \in Seq(DraftRow)
      BY <1>2, <1>5, <2>2, <2>9 DEF Orderly, Marked, Versioned
    <2>11. QED
      BY <1>2, <1>5, <2>1, <2>8, <2>10, WritesRows
  <1>6. QED
    BY <1>4, <1>5 DEF Serial

\* The snapshot of a draft is appended, which was not appended before.
LEMMA SerialSnapshot ==
  ASSUME IInv, Tied, Serial, NEW h \in Handlers, AppendSnapshot(h)
  PROVE  Serial'
  <1>1. PICK n, i : n = Len(rev) + 1 /\ i = req[h].n
    OBVIOUS
  <1> DEFINE by == <<"draft", i>>
             x == [line |-> "canonical", by |-> by, content |-> {by}]
             z == [req[h] EXCEPT !.pc = "commit"]
  <1>2. /\ UNCHANGED <<draft, dev, turn>> /\ req[h].pc = "snapshot" /\ ~Free(h)
        /\ \/ rev' = Append(rev, x) /\ Goto(h, z)
           \/ End(h) /\ rev' = rev
    BY <1>1 DEF AppendSnapshot, progress, jobs, scenes, Inserted, Free
  <1>3. CASE rev' = Append(rev, x) /\ Goto(h, z)
    <2>1. z.pc = "commit" /\ z.n = i
      BY <1>1, <1>2 DEF IInv, Shape, Keys
    <2>2. x.by = by
      OBVIOUS
    <2>3. /\ by[1] = "draft" /\ by[2] = i
          /\ \A k : by = <<"draft", k>> <=> k = i
          /\ \A d : by # <<"deviation", d>>
      OBVIOUS
    <2> HIDE DEF x, z
    <2>4. Orderly => i \in DOMAIN draft /\ ~draft[i].committed
      BY <1>1, <1>2 DEF Orderly, Ready
    <2>5. Orderly /\ Sole(h) => ~Made(by)
      BY <1>2, <2>4 DEF Orderly, Marked, Sole
    <2>6. Made(by)'
      <3>1. PICK S : rev \in Seq(S)
        BY DEF IInv, Shape
      <3>2. n \in Revs' /\ rev'[n] = x
        BY <1>1, <1>3, <3>1, AppendedKeeps
      <3>3. QED
        BY <2>2, <3>2 DEF Made
    <2>7. Orderly /\ req'[h] = z => Ready(req[h])'
      <3>1. SUFFICES ASSUME Orderly, req'[h] = z
                     PROVE  Ready(req[h])'
        OBVIOUS
      <3>2. req'[h].pc = "commit" /\ req'[h].n = i
        BY <2>1, <3>1
      <3>3. Made(<<"draft", req[h].n>>)'
        BY <2>6, <3>2
      <3>4. i \in DOMAIN draft'
        BY <1>2, <2>4, <3>1
      <3>5. QED
        BY <3>2, <3>3, <3>4 DEF Ready, Copies, Compared
    <2> HIDE DEF by
    <2>8. QED
      BY <1>1, <1>2, <1>3, <2>1, <2>2, <2>3, <2>4, <2>5, <2>7, GoesOnAppending
  <1>4. CASE End(h) /\ rev' = rev
    BY <1>2, <1>4, EndsReady
  <1>5. QED
    BY <1>2, <1>3, <1>4

\* A draft is saved or marked as committed.
LEMMA SerialDraft ==
  ASSUME IInv, Tied, Serial, NEW h \in Handlers, InsertDraft(h) \/ MarkCommitted(h)
  PROVE  Serial'
  <1>1. PICK i : i = req[h].n
    OBVIOUS
  <1>2. /\ ~Free(h) /\ End(h) /\ UNCHANGED <<rev, dev, turn>>
        /\ req[h].pc \in {"save", "commit"}
    BY DEF InsertDraft, MarkCommitted, Free, scenes, progress, jobs
  <1>3. /\ died' \in Nat /\ req'[h] = Idle
        /\ \A g \in Handlers \ {h} : req'[g] = req[g]
        /\ overlaps' = 0 /\ died' = 0 => Orderly /\ Sole(h)
    BY <1>2, SoleGoes DEF End
  <1>4. ASSUME Orderly, Sole(h)
        PROVE  Orderly'
    <2>1. \A g \in Handlers : Ready(req[g])' /\ req'[g].pc = "idle"
      BY <1>3, <1>4, EndsIdle, IdleApart
    <2>2. \A by : Made(by)' <=> Made(by)
      BY <1>2, MadeSame
    <2>3. \A g \in Handlers : req[g].pc \in {"commit", "accept"} => g = h
      BY <1>4 DEF Sole
    <2>4. Fixed'
      BY <1>2, <1>4, <2>2, <2>3 DEF Orderly, Fixed
    <2>5. Ready(req[h]) /\ draft \in Seq(DraftRow) /\ Versioned /\ Marked /\ Labelled
      BY <1>4 DEF Orderly
    <2>6. /\ DOMAIN draft = 1..Len(draft) /\ Len(draft) \in Nat
          /\ \A k \in DOMAIN draft : draft[k] \in DraftRow
      BY <2>5, ElementOfSeq, LenProperties
    <2>7. CASE draft' = draft /\ req[h].pc = "save"
      <3>1. Marked' /\ Versioned'
        BY <1>2, <2>1, <2>2, <2>3, <2>5, <2>7 DEF Marked, Versioned
      <3>2. QED
        BY <1>2, <1>4, <2>1, <2>4, <2>5, <2>7, <3>1, WritesRows
    <2>8. CASE req[h].pc = "save" /\ draft' = Append(draft, [version |-> i, committed |-> FALSE])
      <3> DEFINE x == [version |-> i, committed |-> FALSE]
                 n == Len(draft) + 1
      <3>1. i \in Nat /\ \A k \in DOMAIN draft : draft[k].version < i
        BY <1>1, <2>5, <2>8 DEF Ready
      <3>2. x \in DraftRow /\ x.version = i /\ x.committed = FALSE
        BY <3>1 DEF DraftRow
      <3> HIDE DEF x
      <3>3. /\ draft' \in Seq(DraftRow) /\ DOMAIN draft' = DOMAIN draft \cup {n}
            /\ draft'[n] = x /\ \A k \in DOMAIN draft : draft'[k] = draft[k]
        <4>1. draft' = Append(draft, x)
          BY <2>8 DEF x
        <4>2. /\ draft' \in Seq(DraftRow) /\ Len(draft') = n /\ draft'[n] = x
              /\ \A k \in 1..Len(draft) : draft'[k] = draft[k]
          BY <2>5, <3>2, <4>1, AppendProperties
        <4>3. DOMAIN draft' = 1..n
          BY <4>2, LenProperties
        <4>4. QED
          BY <2>6, <4>2, <4>3
      <3>4. n \notin DOMAIN draft /\ \A k \in DOMAIN draft : k < n /\ ~(n < k)
        BY <2>6
      <3> HIDE DEF n
      <3>5. Versioned'
        <4>1. SUFFICES ASSUME NEW k \in DOMAIN draft', NEW l \in DOMAIN draft', k < l
                       PROVE  draft'[k].version < draft'[l].version
          BY DEF Versioned
        <4>2. CASE l \in DOMAIN draft
          <5>1. k \in DOMAIN draft
            BY <3>3, <3>4, <4>1, <4>2
          <5>2. QED
            BY <2>5, <3>3, <4>1, <4>2, <5>1 DEF Versioned
        <4>3. CASE l = n
          <5>1. k \in DOMAIN draft
            <6>1. n \in Nat
              BY <2>6 DEF n
            <6>2. k # n
              BY <4>1, <4>3, <6>1
            <6>3. QED
              BY <3>3, <6>2
          <5>2. QED
            BY <3>1, <3>2, <3>3, <4>3, <5>1
        <4>4. QED
          BY <3>3, <4>2, <4>3
      <3>6. Marked'
        <4>1. ~Made(<<"draft", n>>)
          <5>1. SUFFICES ASSUME NEW r \in Revs, rev[r].by = <<"draft", n>>
                         PROVE  FALSE
            BY DEF Made
          <5>2. rev[r].by[1] = "draft" /\ rev[r].by[2] = n
            BY <5>1
          <5>3. QED
            BY <2>5, <3>4, <5>2 DEF Labelled
        <4>2. \A k \in DOMAIN draft : draft[k].committed <=> Made(<<"draft", k>>)
          BY <2>3, <2>5, <2>8 DEF Marked
        <4>3. \A k \in DOMAIN draft' : draft'[k].committed <=> Made(<<"draft", k>>)
          BY <3>2, <3>3, <4>1, <4>2
        <4>4. QED
          BY <2>1, <2>2, <4>3 DEF Marked
      <3>7. QED
        BY <1>2, <1>4, <2>1, <2>4, <3>3, <3>5, <3>6, WritesRows
    <2>9. CASE req[h].pc = "commit" /\ draft' = [draft EXCEPT ![i] = [@ EXCEPT !.committed = TRUE]]
      <3>1. i \in DOMAIN draft /\ Made(<<"draft", i>>)
        BY <1>1, <2>5, <2>9 DEF Ready
      <3>2. /\ DOMAIN draft' = DOMAIN draft
            /\ \A k \in DOMAIN draft : k # i => draft'[k] = draft[k]
            /\ draft'[i].version = draft[i].version /\ draft'[i].committed = TRUE
            /\ draft'[i] \in DraftRow
        BY <2>6, <2>9, <3>1 DEF DraftRow
      <3>3. draft' \in Seq(DraftRow)
        BY <2>5, <2>9, <3>1, <3>2, ExceptSeq
      <3>4. Versioned'
        <4>1. \A k \in DOMAIN draft : draft'[k].version = draft[k].version
          BY <3>2
        <4>2. QED
          BY <2>5, <3>2, <4>1 DEF Versioned
      <3>5. Marked'
        <4>1. \A k \in DOMAIN draft : k # i => (draft[k].committed <=> Made(<<"draft", k>>))
          BY <1>1, <2>3, <2>5 DEF Marked
        <4>2. \A k \in DOMAIN draft' : draft'[k].committed <=> Made(<<"draft", k>>)
          BY <3>1, <3>2, <4>1
        <4>3. QED
          BY <2>1, <2>2, <4>2 DEF Marked
      <3>6. QED
        BY <1>2, <1>4, <2>1, <2>4, <3>2, <3>3, <3>4, <3>5, WritesRows
    <2>10. QED
      <3>1. CASE InsertDraft(h)
        BY <1>1, <2>7, <2>8, <3>1 DEF InsertDraft
      <3>2. CASE MarkCommitted(h)
        <4>1. i \in DOMAIN draft /\ req[h].pc = "commit"
          BY <1>1, <2>5, <3>2 DEF Ready, MarkCommitted
        <4>2. QED
          BY <1>1, <2>9, <3>2, <4>1 DEF MarkCommitted
      <3>3. QED
        BY <3>1, <3>2
  <1>5. QED
    BY <1>3, <1>4 DEF Serial

\* A turn is ordered or settled.
LEMMA SerialRow ==
  ASSUME IInv, Tied, Serial, NEW h \in Handlers, InsertTurn(h) \/ Settle(h)
  PROVE  Serial'
  <1>1. /\ ~Free(h) /\ End(h) /\ UNCHANGED <<rev, draft, dev>>
        /\ req[h].pc \notin {"commit", "accept"}
    BY DEF InsertTurn, Settle, Free, scenes, progress
  <1>2. /\ died' \in Nat /\ req'[h] = Idle
        /\ \A g \in Handlers \ {h} : req'[g] = req[g]
        /\ overlaps' = 0 /\ died' = 0 => Orderly /\ Sole(h)
    BY <1>1, SoleGoes DEF End
  <1>3. PICK w, b : w = req[h].who /\ b = req[h].base
    OBVIOUS
  <1>4. \/ turn' = turn
        \/ /\ turn[w].status = "absent"
           /\ turn' = [turn EXCEPT ![w] = [status |-> "active", base |-> b]]
        \/ \E s \in {"succeeded", "failed"} : turn' = [turn EXCEPT ![w] = [@ EXCEPT !.status = s]]
    BY <1>3 DEF InsertTurn, Settle
  <1>5. TurnRows
    BY DEF Tied
  <1>6. \A j \in Turns : turn[j].status # "absent" =>
                           turn'[j].status # "absent" /\ turn'[j].base = turn[j].base
    <2>1. CASE turn' = turn
      BY <2>1
    <2>2. CASE /\ turn[w].status = "absent"
               /\ turn' = [turn EXCEPT ![w] = [status |-> "active", base |-> b]]
      BY <1>5, <2>2 DEF TurnRows
    <2>3. ASSUME NEW s \in {"succeeded", "failed"},
                 turn' = [turn EXCEPT ![w] = [@ EXCEPT !.status = s]]
          PROVE  \A j \in Turns : /\ turn'[j].base = turn[j].base
                                  /\ turn'[j].status \in {turn[j].status, s}
      BY <1>5, <2>3 DEF TurnRows
    <2>4. QED
      BY <1>4, <2>1, <2>2, <2>3
  <1>7. ASSUME Orderly, Sole(h)
        PROVE  Orderly'
    <2>1. \A g \in Handlers : Ready(req[g])' /\ req'[g].pc = "idle"
      BY <1>2, <1>7, EndsIdle, IdleApart
    <2>2. \A by : Made(by)' <=> Made(by)
      BY <1>1, MadeSame
    <2>3. \A g \in Handlers : req[g].pc \notin {"commit", "accept"}
      BY <1>1, <1>7 DEF Sole
    <2>4. Marked' /\ Fixed' /\ Versioned' /\ draft' \in Seq(DraftRow)
      BY <1>1, <1>7, <2>1, <2>2, <2>3 DEF Orderly, Marked, Fixed, Versioned
    <2>5. QED
      BY <1>1, <1>6, <1>7, <2>1, <2>4, WritesRows
  <1>8. QED
    BY <1>2, <1>7 DEF Serial

\* A command of a turn is applied, which was not applied before, or the turn rejected.
LEMMA SerialApply ==
  ASSUME IInv, Tied, Serial, NEW h \in Handlers, ApplyTurn(h)
  PROVE  Serial'
  <1>1. PICK n, j, m : n = Len(rev) + 1 /\ j = req[h].who /\ m = req[h].n
    OBVIOUS
  <1> DEFINE by == <<"turn", j, m + 1>>
             x == [line |-> "canonical", by |-> by,
                   content |-> rev[req[h].base].content \cup {by}]
             z == [req[h] EXCEPT !.n = @ + 1, !.base = Len(rev) + 1, !.seen = FALSE]
             b == [req[h] EXCEPT !.pc = "reject"]
  <1>2. /\ UNCHANGED <<draft, dev, turn>> /\ req[h].pc = "turn" /\ req[h].seen /\ ~Free(h)
        /\ \/ rev' = Append(rev, x) /\ Goto(h, z) /\ alive
           \/ Goto(h, b) /\ rev' = rev
    BY <1>1 DEF ApplyTurn, progress, jobs, scenes, Onto, Inserted, Free, CanInsert
  <1>3. CASE rev' = Append(rev, x) /\ Goto(h, z) /\ alive
    <2>1. z.pc = "turn" /\ z.who = j /\ z.n = m + 1 /\ ~z.seen
      BY <1>1, <1>2 DEF IInv, Shape, Keys
    <2>2. x.by = by /\ x.line = "canonical" /\ rev[req[h].base].content \subseteq x.content
      OBVIOUS
    <2>3. /\ by[1] = "turn" /\ by[2] = j /\ by[3] = m + 1
          /\ \A i : by # <<"draft", i>> /\ by # <<"deviation", i>>
      <3>1. \A i : <<"draft", i>>[1] = "draft" /\ <<"deviation", i>>[1] = "deviation"
        OBVIOUS
      <3>2. by[1] = "turn" /\ by[2] = j /\ by[3] = m + 1
        OBVIOUS
      <3> HIDE DEF by
      <3>3. QED
        BY <3>1, <3>2
    <2> HIDE DEF x, z, by
    <2>4. Orderly => /\ j \in Turns /\ turn[j].status # "absent" /\ m \in Nat
                     /\ \A q \in Applied(j) : rev[q].by[3] \in 1..m
      BY <1>1, <1>2 DEF Orderly, Ready
    <2>5. Orderly => ~Made(by)
      <3>1. SUFFICES ASSUME Orderly, NEW r \in Revs, rev[r].by = by
                     PROVE  FALSE
        BY DEF Made
      <3>2. r \in Applied(j) /\ rev[r].by[3] = m + 1
        BY <2>3, <3>1 DEF Applied
      <3>3. QED
        BY <2>4, <3>1, <3>2
    <2>6. Orderly => turn[j].base < n
      <3>1. Orderly => turn[j].base \in 0..Len(rev)
        BY <1>3, <2>4 DEF Tied, There
      <3>2. QED
        BY <1>1, <3>1, TurnTip DEF IInv
    <2>7. Orderly /\ req'[h] = z => Ready(req[h])'
      <3>1. SUFFICES ASSUME Orderly, req'[h] = z
                     PROVE  Ready(req[h])'
        OBVIOUS
      <3>2. req'[h].pc = "turn" /\ req'[h].who = j /\ req'[h].n = m + 1 /\ ~req'[h].seen
        BY <2>1, <3>1
      <3>3. PICK S : rev \in Seq(S)
        BY DEF IInv, Shape
      <3>4. /\ Revs' = Revs \cup {n} /\ rev'[n] = x
            /\ \A r \in Revs : rev'[r] = rev[r]
        BY <1>1, <1>3, <3>3, AppendedKeeps
      <3>5. \A q \in Applied(j)' : rev'[q].by[3] \in 1..(m + 1)
        <4>1. SUFFICES ASSUME NEW q \in Revs', rev'[q].by[1] = "turn" /\ rev'[q].by[2] = j
                       PROVE  rev'[q].by[3] \in 1..(m + 1)
          BY DEF Applied
        <4>2. CASE q = n
          BY <2>2, <2>3, <2>4, <3>1, <3>4, <4>2
        <4>3. CASE q \in Revs
          <5>1. q \in Applied(j) /\ rev'[q] = rev[q]
            BY <3>4, <4>1, <4>3 DEF Applied
          <5>2. QED
            BY <2>4, <3>1, <5>1
        <4>4. QED
          BY <3>4, <4>2, <4>3
      <3>6. Applied(req[h].who)' = Applied(j)'
        BY <3>2 DEF Applied
      <3>7. m + 1 \in Nat /\ j \in Turns /\ turn'[j].status # "absent"
        BY <1>2, <2>4, <3>1
      <3>8. QED
        BY <3>2, <3>5, <3>6, <3>7 DEF Ready, Copies, Compared
    <2>8. Orderly => req[h].base = Tip("canonical")
      BY <1>2 DEF Orderly, Ready, Compared, LineOf
    <2>9. QED
      BY <1>1, <1>2, <1>3, <2>1, <2>2, <2>3, <2>4, <2>5, <2>6, <2>7, <2>8, GoesOnAppending
  <1>4. CASE Goto(h, b) /\ rev' = rev
    <2>1. b.pc = "reject"
      BY DEF IInv, Shape, Keys
    <2> HIDE DEF b
    <2>2. Ready(b)
      BY <2>1, IdleReady
    <2>3. QED
      BY <1>2, <1>4, <2>1, <2>2, GoesReady
  <1>5. QED
    BY <1>2, <1>3, <1>4

\* A turn goes on to its images, or ends there.
LEMMA SerialTurnStep ==
  ASSUME IInv, Tied, Serial, NEW h \in Handlers,
         \/ \E asked \in {"none", "known", "unknown"} : Preview(h, asked)
         \/ \E camera \in BOOLEAN, images \in Named : QueueGeneration(h, camera, images)
  PROVE  Serial'
  <1>1. PICK pc \in {"preview", "settle", "reject"} : Goto(h, [req[h] EXCEPT !.pc = pc])
    BY DEF Preview, QueueGeneration
  <1>2. /\ UNCHANGED <<rev, draft, dev, turn>> /\ ~Free(h)
        /\ req[h].pc \notin {"commit", "accept"}
    BY DEF Preview, QueueGeneration, Free, scenes, progress
  <1> DEFINE x == [req[h] EXCEPT !.pc = pc]
  <1>3. x.pc = pc
    BY DEF IInv, Shape, Keys
  <1> HIDE DEF x
  <1>4. Ready(x)
    BY <1>3, IdleReady
  <1>5. QED
    BY <1>1, <1>2, <1>3, <1>4, GoesReady DEF x

\* The files and the rows of a photo edit, and the jobs.
LEMMA SerialPhotoStep ==
  ASSUME IInv, Tied, Serial, NEW h \in Handlers,
         \/ PutFile(h) \/ InsertAsset(h)
         \/ QueueReplacement(h) \/ QueueRedesign(h) \/ QueueOrder(h) \/ QueuePayload(h)
  PROVE  Serial'
  <1>1. /\ UNCHANGED <<rev, draft, dev, turn>> /\ ~Free(h)
        /\ req[h].pc \in {"put", "row", "queue"}
    BY DEF PutFile, InsertAsset, QueueReplacement, QueueRedesign, QueueOrder, QueuePayload,
           CreateJob, Free, scenes, progress, jobs
  <1>2. CASE End(h)
    BY <1>1, <1>2, EndsReady
  <1>3. CASE PutFile(h)
    <2> DEFINE x == [req[h] EXCEPT !.pc = "row", !.n = drawn + 1]
    <2>1. Goto(h, x) /\ req[h].pc = "put"
      BY <1>3 DEF PutFile
    <2>2. x.pc = "row" /\ x.arg = req[h].arg /\ x.scene = req[h].scene /\ x.seen = req[h].seen
      BY DEF IInv, Shape, Keys
    <2> HIDE DEF x
    <2>3. Orderly => Ready(x)
      BY <2>1, <2>2 DEF Orderly, Ready, Copies, Compared
    <2>4. QED
      BY <1>1, <2>1, <2>2, <2>3, GoesReady
  <1>4. CASE InsertAsset(h) /\ ~End(h)
    <2> DEFINE r == req[h]
               a == [r EXCEPT !.needs = @ - 1, !.uses = @ \cup {r.n},
                              !.pc = IF r.needs = 1 THEN "revise" ELSE "put"]
    <2>1. /\ Goto(h, IF r.arg = "upload" THEN Idle ELSE a) /\ r.pc = "row"
      BY <1>4 DEF InsertAsset
    <2>2. Goto(h, a) /\ r.arg # "upload"
      BY <1>4, <2>1 DEF End
    <2>3. a.pc \in {"revise", "put"} /\ a.arg = r.arg /\ a.scene = r.scene /\ a.seen = r.seen
      BY DEF IInv, Shape, Keys
    <2> HIDE DEF a
    <2>4. Orderly => Ready(a)
      BY <2>1, <2>2, <2>3 DEF Orderly, Ready, Copies, Compared
    <2>5. QED
      BY <1>1, <2>2, <2>3, <2>4, GoesReady
  <1>5. QED
    BY <1>2, <1>3, <1>4 DEF QueueReplacement, QueueRedesign, QueueOrder, QueuePayload, CreateJob

\* A photo edit changes the scene, or copies the one it has found.
LEMMA SerialRevise ==
  ASSUME IInv, Tied, Serial, NEW h \in Handlers, ReviseScene(h) \/ ReviseNothing(h)
  PROVE  Serial'
  <1>1. PICK n : n = Len(rev) + 1
    OBVIOUS
  <1> DEFINE by == <<"photo", n>>
             r == req[h]
             x(content) == [line |-> "canonical", by |-> by, content |-> content]
             a == [r EXCEPT !.pc = "queue", !.base = Len(rev) + 1]
  <1>2. UNCHANGED <<draft, dev, turn>> /\ r.pc = "revise" /\ ~Free(h)
    BY DEF ReviseScene, ReviseNothing, Free, progress, jobs
  <1>3. CASE End(h) /\ UNCHANGED scenes
    BY <1>2, <1>3, EndsReady DEF scenes
  <1>4. ASSUME NEW content, rev' = Append(rev, x(content)), NEW z, Goto(h, z),
               z.pc \in {"idle", "queue"},
               Orderly => rev[Tip("canonical")].content \subseteq content
        PROVE  Serial'
    <2> DEFINE y == x(content)
    <2>1. y.by = by /\ y.line = "canonical" /\ y.content = content
      OBVIOUS
    <2>2. /\ by[1] = "photo" /\ by[2] = n
          /\ \A i : by # <<"draft", i>> /\ by # <<"deviation", i>>
      OBVIOUS
    <2>3. rev' = Append(rev, y)
      BY <1>4
    <2> HIDE DEF y, by
    <2>4. Orderly => ~Made(by)
      <3>1. \A q \in Revs : q # n
        BY <1>1, TurnTip DEF Revs, IInv
      <3>2. QED
        BY <2>2, <3>1 DEF Orderly, Labelled, Made
    <2>5. req'[h] = z => Ready(req[h])'
      BY <1>4 DEF Ready, Copies, Compared
    <2>6. QED
      BY <1>1, <1>2, <1>4, <2>1, <2>2, <2>3, <2>4, <2>5, GoesOnAppending
  <1>5. a.pc = "queue" /\ Idle.pc = "idle"
    BY IdleApart DEF IInv, Shape, Keys
  <1>6. CASE ReviseScene(h) /\ ~(End(h) /\ UNCHANGED scenes)
    <2> DEFINE z == IF r.arg = "blind" THEN Idle ELSE a
    <2>1. /\ rev' = Append(rev, x(rev[r.base].content \cup {by})) /\ Goto(h, z) /\ r.seen
      BY <1>1, <1>6 DEF ReviseScene, Onto, Inserted
    <2>2. z.pc \in {"idle", "queue"}
      BY <1>5
    <2>3. Orderly => rev[Tip("canonical")].content \subseteq rev[r.base].content \cup {by}
      BY <1>2, <2>1 DEF Orderly, Ready, Compared, LineOf
    <2> HIDE DEF z
    <2>4. QED
      BY <1>4, <2>1, <2>2, <2>3
  <1>7. CASE ReviseNothing(h) /\ ~(End(h) /\ UNCHANGED scenes)
    <2>1. rev' = Append(rev, x(r.scene)) /\ Goto(h, a) /\ r.arg \notin OfTheScene
      BY <1>1, <1>7 DEF ReviseNothing, Inserted
    <2>2. Orderly => rev[Tip("canonical")].content \subseteq r.scene
      BY <1>2, <2>1 DEF Orderly, Ready, Copies, Compared
    <2> HIDE DEF a
    <2>3. QED
      BY <1>4, <1>5, <2>1, <2>2
  <1>8. QED
    BY <1>3, <1>6, <1>7

\* Of a deleted project there is nothing to keep; after a death nothing is claimed.
LEMMA SerialEnd ==
  ASSUME IInv, Tied, Serial, NEW h \in Handlers, ~Free(h), Cascade(h) \/ DeleteFiles(h) \/ Die(h)
  PROVE  Serial'
  <1>1. CASE DeleteFiles(h)
    BY <1>1, EndsReady DEF DeleteFiles, scenes, progress, jobs
  <1>2. CASE Die(h)
    <2>1. died' = died + 1
      BY <1>2 DEF Die
    <2>2. died' \in Nat /\ died' # 0
      BY <2>1 DEF Serial
    <2>3. QED
      BY <2>2 DEF Serial
  <1>3. CASE Cascade(h) /\ ~(End(h) /\ UNCHANGED <<alive, rev, draft, jobs, asset>>)
    <2> DEFINE x == [Idle EXCEPT !.pc = "files"]
    <2>1. rev' = <<>> /\ draft' = <<>> /\ Goto(h, x)
      BY <1>3 DEF Cascade
    <2>2. x.pc = "files"
      BY DEF Idle
    <2> HIDE DEF x
    <2>3. Revs' = {} /\ DOMAIN draft' = {} /\ draft' \in Seq(DraftRow)
      <3>1. Len(rev') = 0
        BY <2>1
      <3>2. Revs' = 1..0
        BY <3>1 DEF Revs
      <3>3. QED
        BY <2>1, <3>2
    <2>4. ASSUME overlaps' = 0, died' = 0
          PROVE  Orderly'
      <3>1. Sole(h) /\ req'[h].pc = "files" /\ \A g \in Handlers \ {h} : req'[g] = req[g]
        BY <2>1, <2>2, <2>4, SoleGoes
      <3>2. \A g \in Handlers : req'[g].pc \in {"idle", "files"}
        BY <3>1 DEF Sole
      <3>3. \A g \in Handlers : Ready(req[g])'
        BY <3>2 DEF Ready, Copies, Compared
      <3>4. Once' /\ Versioned' /\ EditsKept' /\ Labelled' /\ Marked' /\ Fixed'
        BY <2>3 DEF Once, Versioned, EditsKept, Labelled, Marked, Fixed, Made
      <3>5. QED
        BY <2>3, <3>3, <3>4 DEF Orderly
    <2>5. QED
      BY <2>1, <2>4, SoleGoes DEF Serial
  <1>4. CASE Cascade(h) /\ End(h) /\ UNCHANGED <<alive, rev, draft, jobs, asset>>
    BY <1>4, EndsReady DEF Cascade, progress, jobs
  <1>5. QED
    BY <1>1, <1>2, <1>3, <1>4

\* A step that writes nothing of this.
LEMMA SerialStays ==
  ASSUME Serial, UNCHANGED <<rev, draft, dev, turn, req, overlaps, died>>
  PROVE  Serial'
  <1>1. /\ Revs' = Revs /\ \A line : Tip(line)' = Tip(line)
        /\ \A j : Applied(j)' = Applied(j)
    BY DEF Revs, Tip, Applied
  <1>2. \A by : Made(by)' <=> Made(by)
    BY MadeSame
  <1>3. \A r : Ready(r)' <=> Ready(r)
    BY <1>1, <1>2 DEF Ready, Copies, Compared, LineOf
  <1>4. ASSUME Orderly
        PROVE  Orderly'
    <2>1. Marked' /\ Fixed' /\ Versioned'
      BY <1>2, <1>4 DEF Orderly, Marked, Fixed, Versioned
    <2>2. \A g \in Handlers : Ready(req[g])'
      BY <1>3, <1>4 DEF Orderly
    <2>3. draft' \in Seq(DraftRow)
      BY <1>4 DEF Orderly
    <2>4. QED
      BY <1>4, <2>1, <2>2, <2>3, WritesRows
  <1>5. QED
    BY <1>4 DEF Serial

\* Every step of requests that do not overlap keeps what holds of them.
LEMMA SerialStep ==
  ASSUME IInv, Tied, Serial, [WorkflowNext]_workflowVars
  PROVE  Serial'
  <1>1. CASE UNCHANGED workflowVars \/ \E q \in queued : ImageJobEnds(q)
    BY <1>1, SerialStays DEF workflowVars, ImageJobEnds, scenes, progress, jobs, counts
  <1>2. ASSUME NEW h \in Handlers, Begin(h)
        PROVE  Serial'
    BY <1>2, SerialProgress, SerialTurn, SerialPhoto, SerialJob, SerialOther DEF Begin
  <1>3. ASSUME NEW h \in Handlers, ~Free(h), Continue(h)
        PROVE  Serial'
    BY <1>3, SerialCompare, SerialEdit, SerialDeviation, SerialFix, SerialSnapshot, SerialDraft, SerialRow, SerialApply,
       SerialTurnStep, SerialPhotoStep, SerialRevise, SerialEnd DEF Continue
  <1>4. QED
    BY <1>1, <1>2, <1>3 DEF WorkflowNext

\* Nothing has been done at first.
LEMMA SerialAtFirst == WorkflowInit => Serial
  <1>1. SUFFICES ASSUME WorkflowInit PROVE Orderly /\ died \in Nat
    BY DEF Serial
  <1> DEFINE a == [line |-> "canonical", by |-> <<"start", 0>>, content |-> {}]
             b == [line |-> "variant", by |-> <<"start", 0>>, content |-> {}]
  <1>2. rev = <<a, b>>
    BY <1>1 DEF WorkflowInit
  <1>3. a.by[1] = "start" /\ b.by[1] = "start" /\ b.line = "variant"
    OBVIOUS
  <1> HIDE DEF a, b
  <1>4. Revs = 1..2 /\ rev[1] = a /\ rev[2] = b
    BY <1>2 DEF Revs
  <1>5. \A r \in Revs : rev[r].by[1] = "start"
    BY <1>3, <1>4
  <1>6. \A d : ~Made(<<"deviation", d>>)
    <2>1. SUFFICES ASSUME NEW d, NEW r \in Revs, rev[r].by = <<"deviation", d>>
                   PROVE  FALSE
      BY DEF Made
    <2>2. rev[r].by[1] = "deviation"
      BY <2>1
    <2>3. QED
      BY <1>5, <2>2
  <1>7. Once /\ Labelled
    BY <1>5 DEF Once, Labelled
  <1>8. EditsKept
    <2>1. \A q, r \in Revs : q < r => q = 1 /\ r = 2
      BY <1>4
    <2>2. QED
      BY <1>3, <1>4, <2>1 DEF EditsKept
  <1>9. Fixed
    BY <1>6 DEF Fixed
  <1>10. draft = <<>> /\ DOMAIN draft = {} /\ draft \in Seq(DraftRow) /\ died \in Nat
    BY <1>1 DEF WorkflowInit
  <1>11. Versioned /\ Marked
    BY <1>10 DEF Versioned, Marked
  <1>12. \A h \in Handlers : req[h].pc = "idle"
    BY <1>1, IdleApart DEF WorkflowInit
  <1>13. \A h \in Handlers : Ready(req[h])
    BY <1>12 DEF Ready, Copies, Compared
  <1>14. QED
    BY <1>7, <1>8, <1>9, <1>10, <1>11, <1>13 DEF Orderly

\* If no two requests overlap and none dies, nothing is applied twice, the drafts' versions
\* ascend, an edit carries on all that was there before it, and a draft says it is committed
\* when it is: every handler of progress.py, plan.py, agent.py and scenes.py looks up what
\* is already done before it does it, and marks it after.
THEOREM NothingTwice == WorkflowSpec => []OneAtATime
  <1>1. Serial => OneAtATime
    <2>1. SUFFICES ASSUME Orderly, \A h \in Handlers : Free(h) PROVE Committed
      BY DEF Serial, OneAtATime, Orderly
    <2>2. \A h \in Handlers : req[h].pc # "commit"
      BY <2>1 DEF Free
    <2>3. QED
      BY <2>1, <2>2 DEF Orderly, Marked, Made, Committed
  <1>2. IInv /\ Tied /\ Serial /\ [WorkflowNext]_workflowVars => IInv' /\ Tied' /\ Serial'
    BY StepOK, TiedOK, SerialStep
  <1>3. WorkflowInit => IInv /\ Tied /\ Serial
    BY InitOK, TiedAtFirst, SerialAtFirst
  <1>4. QED
    BY <1>1, <1>2, <1>3, PTL DEF WorkflowSpec
=============================================================================
