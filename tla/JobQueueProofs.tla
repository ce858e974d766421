--------------------------- MODULE JobQueueProofs ---------------------------
(***************************************************************************)
(* What holds of the job queue however requests interleave, for any number *)
(* of jobs, workers, lease ids and requests in flight.                     *)
(*                                                                         *)
(* The argument.  A commit writes what its handler decided earlier, so the *)
(* invariant is about the calls in flight: one that is about to install a  *)
(* lease id (Installed) is the only one to know that id, which no job has  *)
(* ever had (Promised); any other write leaves a row's lease as loaded or  *)
(* clears it, and never touches the key or the attempt counter (Harmless). *)
(*                                                                         *)
(* Where requests are served one after the other, what a handler loaded is *)
(* what the table still holds (Current), so that a commit does what its    *)
(* guard allowed (Allowed) and the fencing of the code is as good as its   *)
(* guards.                                                                 *)
(***************************************************************************)
EXTENDS JobQueue, FiniteSetTheorems, TLAPS

-----------------------------------------------------------------------------
(* The inductive invariant. *)

\* what a row looks like to a call that writes it without installing a lease
Harmless(c, j) ==
  /\ c.new[j].key = c.seen[j].key
  /\ c.new[j].attempt = c.seen[j].attempt
  /\ c.new[j].lease \in {c.seen[j].lease, None}

Writes(c) == c.phase \in {"sweep", "write"}

\* a completion that has not reached complete_job or fail_job yet
Completing(c) == c.phase \in {"complete", "record"}

Attempts(j) == {t \in Tokens : granted[t] = j}

\* a call that installs its lease id on job j
Promised(h, j) ==
  LET c == call[h]
  IN /\ Writes(c) /\ c.token \in Tokens /\ granted[c.token] = None
     /\ j \in c.rows
     /\ c.new[j].lease = c.token /\ c.new[j].key = c.seen[j].key
     /\ c.new[j].attempt = c.seen[j].attempt + 1
     /\ c.seen[j].attempt <= Cardinality(Attempts(j))
     /\ c.seen[j].lease # c.token
     /\ \A i \in c.rows \ {j} : /\ Harmless(c, i)
                                 /\ c.new[i].lease = c.seen[i].lease
                                 /\ c.new[i].lease # c.token
     /\ \A g \in Handlers \ {h} : call[g].token # c.token

CallOK(h) ==
  LET c == call[h]
  IN /\ c.phase \in {"idle", "scan", "insert"} => c.rows = {}
     /\ c.phase \in {"complete", "record"} =>
          /\ c.token \in Tokens /\ granted[c.token] \in Jobs
          /\ c.rows = {granted[c.token]} /\ c.new = NoRows
     /\ Writes(c) =>
          \/ \E j \in Jobs : Promised(h, j)
          \/ Installed(c) = {} /\ \A j \in c.rows : Harmless(c, j)

LeaseGranted == \A j \in Jobs : job[j].lease # None => granted[job[j].lease] = j

IInv ==
  /\ TypeOK
  /\ LeaseGranted
  /\ OneJobPerKey
  /\ AttemptsAreClaims
  /\ \A h \in Handlers : CallOK(h)

-----------------------------------------------------------------------------
(* Shapes of rows and calls. *)

\* Every change of a row that a handler makes gives a row.
LEMMA RowShapes ==
  ASSUME NEW j \in Jobs, NEW r \in Row, NEW w \in Workers \cup {None}, NEW t \in Tokens,
         NEW k \in Keys \cup {None}
  PROVE  /\ NoRow \in Row /\ Created(j, k) \in Row /\ Requeued(j, r) \in Row
         /\ Leased(r, w, t) \in Row /\ Renewed(r) \in Row /\ Cancelled(r) \in Row
         /\ Succeeded(r, t) \in Row /\ Failed(r, t) \in Row
         /\ [r EXCEPT !.status = "waiting_for_worker"] \in Row
  <1>1. NoRow \in Row
    BY DEF NoRow, Row, Status
  <1>2. Ready(j) \in Status
    BY DEF Ready, Status, Waiting
  <1>3. Created(j, k) \in Row
    BY <1>1, <1>2 DEF Created, Row
  <1>4. Requeued(j, r) \in Row
    BY <1>2 DEF Requeued, Row
  <1>a. "leased" \in Status /\ "running" \in Status
    BY DEF Status, Active
  <1>b. r.attempt + 1 \in Nat
    BY DEF Row
  <1>5. Leased(r, w, t) \in Row /\ Renewed(r) \in Row
    BY <1>a, <1>b DEF Leased, Renewed, Row
  <1>6. Cancelled(r) \in Row /\ Succeeded(r, t) \in Row /\ Failed(r, t) \in Row
    BY DEF Cancelled, Succeeded, Failed, Row, Status, Terminal
  <1>7. [r EXCEPT !.status = "waiting_for_worker"] \in Row
    BY DEF Row, Status, Waiting
  <1>8. QED
    BY <1>1, <1>3, <1>4, <1>5, <1>6, <1>7

\* An UPDATE of the changed columns gives a row whose deadline is not "fresh".
LEMMA FlushShape ==
  ASSUME NEW cur \in Row, NEW seen \in Row, NEW new \in Row, cur.exp # "fresh"
  PROVE  Flush(cur, seen, new) \in Row /\ Flush(cur, seen, new).exp # "fresh"
  BY DEF Flush, Column, Row

\* A handler without a request has the shape of a call.
LEMMA IdleShape == Idle \in Call
  BY DEF Idle, Call, Phases, NoRows, NoRow, Row, Status

\* A handler that loaded rows has the shape of a call.
LEMMA ServingShape ==
  ASSUME TypeOK, NEW phase \in Phases, NEW w \in Workers \cup {None},
         NEW t \in Tokens \cup {None}, NEW S \in SUBSET Jobs, NEW new,
         \A j \in S : new[j] \in Row
  PROVE  Serving(phase, w, t, S, new) \in Call
  <1>1. NoRow \in Row
    BY DEF NoRow, Row, Status
  <1>2. [j \in Jobs |-> IF j \in S THEN job[j] ELSE NoRow] \in [Jobs -> Row]
    BY <1>1 DEF TypeOK
  <1>3. [j \in Jobs |-> IF j \in S THEN new[j] ELSE NoRow] \in [Jobs -> Row]
    BY <1>1
  <1>4. QED
    BY <1>2, <1>3 DEF Serving, Call

\* The claims committed on a job can be counted.
LEMMA TokensFinite == ASSUME NEW j PROVE IsFiniteSet(Attempts(j)) /\ Cardinality(Attempts(j)) \in Nat
  <1>1. Attempts(j) \subseteq Tokens /\ IsFiniteSet(Tokens)
    BY JobQueueAssumption DEF Attempts
  <1>2. QED
    BY <1>1, FS_Subset, FS_CardinalityType

-----------------------------------------------------------------------------
(* A step in which handler h takes the call c and no row or grant changes. *)
LEMMA TakesCall ==
  ASSUME IInv, NEW h \in Handlers, NEW c \in Call,
         Take(h, c), UNCHANGED <<job, granted>>, records' \in [Jobs -> [Tokens -> Nat]],
         CallOK(h)',
         \/ c.token \in {None, call[h].token}
         \/ granted[c.token] # None
         \/ \A g \in Handlers : call[g].token # c.token
  PROVE  IInv'
  <1>1. TypeOK'
    BY DEF IInv, TypeOK, Take
  <1>2. LeaseGranted' /\ OneJobPerKey' /\ AttemptsAreClaims'
    BY DEF IInv, LeaseGranted, OneJobPerKey, AttemptsAreClaims
  <1>3. ASSUME NEW g \in Handlers, g # h PROVE CallOK(g)'
    <2>1. call'[g] = call[g] /\ call'[h] = c
      BY <1>3 DEF Take, IInv, TypeOK
    <2>2. ASSUME NEW j \in Jobs, Promised(g, j) PROVE Promised(g, j)'
      <3>1. call[g].token \in Tokens /\ granted[call[g].token] = None
        BY <2>2 DEF Promised
      <3>2. call[g].token # call[h].token
        BY <2>2, <1>3 DEF Promised
      <3>3. c.token # call[g].token
        BY <3>1, <3>2, JobQueueAssumption
      <3>4. \A f \in Handlers \ {g} : call'[f].token # call[g].token
        BY <2>2, <2>1, <3>3 DEF Promised, Take, IInv, TypeOK
      <3>5. Attempts(j)' = Attempts(j)
        BY DEF Attempts
      <3>6. QED
        BY <2>1, <2>2, <3>4, <3>5 DEF Promised, Writes, Harmless
    <2>3. CallOK(g)
      BY DEF IInv
    <2>4. QED
      BY <2>1, <2>2, <2>3 DEF CallOK, Writes, Harmless, Installed
  <1>4. QED
    BY <1>1, <1>2, <1>3 DEF IInv

\* ... which is about to write rows without installing a lease
LEMMA TakesHarmlessCall ==
  ASSUME IInv, NEW h \in Handlers, NEW phase \in {"sweep", "write"},
         NEW w \in Workers \cup {None}, NEW t \in Tokens \cup {None},
         NEW S \in SUBSET Jobs, NEW new,
         \A j \in S : /\ new[j] \in Row /\ new[j].key = job[j].key
                      /\ new[j].attempt = job[j].attempt
                      /\ new[j].lease \in {job[j].lease, None},
         t # None => granted[t] # None,
         Take(h, Serving(phase, w, t, S, new)), UNCHANGED <<job, granted, records>>
  PROVE  IInv'
  <1> DEFINE c == Serving(phase, w, t, S, new)
  <1>1. c \in Call
    BY ServingShape DEF IInv, Phases
  <1>2. call'[h] = c
    BY DEF Take, IInv, TypeOK
  <1>3. /\ c.phase = phase /\ c.token = t /\ c.rows = S
        /\ \A j \in S : c.seen[j] = job[j] /\ c.new[j] = new[j]
    BY DEF Serving
  <1>4. Installed(c) = {} /\ \A j \in c.rows : Harmless(c, j)
    BY <1>3 DEF Installed, Harmless
  <1>5. CallOK(h)'
    BY <1>2, <1>3, <1>4 DEF CallOK, Writes
  <1>6. records' \in [Jobs -> [Tokens -> Nat]]
    BY DEF IInv, TypeOK
  <1> HIDE DEF c
  <1>7. QED
    BY <1>1, <1>3, <1>5, <1>6, TakesCall DEF c

\* ... or has no rows yet
LEMMA TakesEmptyCall ==
  ASSUME IInv, NEW h \in Handlers, NEW c \in Call, Take(h, c),
         c.phase \in {"idle", "scan", "insert"}, c.rows = {}, c.token = None,
         UNCHANGED <<job, granted>>, records' \in [Jobs -> [Tokens -> Nat]]
  PROVE  IInv'
  <1>1. call'[h] = c
    BY DEF Take, IInv, TypeOK
  <1>2. CallOK(h)'
    BY <1>1 DEF CallOK, Writes
  <1>3. QED
    BY <1>2, TakesCall

\* A request that ends without a commit disturbs nothing.
LEMMA AbortKeeps ==
  ASSUME IInv, NEW h \in Handlers, Abort(h) PROVE IInv'
  BY IdleShape, TakesEmptyCall DEF Abort, Idle, IInv, TypeOK

\* create_job, before its INSERT.
LEMMA CreateLookupKeeps ==
  ASSUME IInv, NEW h \in Handlers, NEW k \in Keys \cup {None}, CreateLookup(h, k)
  PROVE  IInv'
  <1> DEFINE c == [Idle EXCEPT !.phase = "insert", !.key = k]
  <1>1. c \in Call /\ c.phase = "insert" /\ c.rows = {} /\ c.token = None
    BY IdleShape DEF Idle, Call, Phases
  <1>2. Take(h, c) /\ UNCHANGED <<job, granted, records>>
    BY DEF CreateLookup
  <1>3. records' \in [Jobs -> [Tokens -> Nat]]
    BY <1>2 DEF IInv, TypeOK
  <1> HIDE DEF c
  <1>4. QED
    BY <1>1, <1>2, <1>3, TakesEmptyCall

\* Loading one row gives that row.
LEMMA RowOf ==
  ASSUME IInv, NEW j \in Jobs PROVE job[j] \in Row
  BY DEF IInv, TypeOK

\* A cancellation in flight leaves key and attempts alone.
LEMMA CancelJobKeeps ==
  ASSUME IInv, NEW h \in Handlers, NEW j \in Jobs, CancelJob(h, j)
  PROVE  IInv'
  <1> DEFINE new == Only(Cancelled(job[j]))
  <1>1. job[j] \in Row
    BY RowOf
  <1>2. new[j] = Cancelled(job[j])
    BY DEF Only
  <1>3. /\ new[j] \in Row /\ new[j].key = job[j].key
        /\ new[j].attempt = job[j].attempt /\ new[j].lease = None
    BY <1>1, <1>2 DEF Cancelled, Row, Status, Terminal
  <1>4. Take(h, Serving("write", None, None, {j}, new)) /\ UNCHANGED <<job, granted, records>>
    BY DEF CancelJob
  <1> HIDE DEF new
  <1>5. QED
    BY <1>3, <1>4, TakesHarmlessCall

\* A sweep in flight clears leases and leaves key and attempts alone.
LEMMA ClaimSweepKeeps ==
  ASSUME IInv, NEW h \in Handlers, NEW w \in Workers, ClaimSweep(h, w)
  PROVE  IInv'
  <1> DEFINE new == [j \in Jobs |-> Requeued(j, job[j])]
  <1>1. ASSUME NEW j \in Jobs
        PROVE  /\ new[j] \in Row /\ new[j].key = job[j].key
               /\ new[j].attempt = job[j].attempt /\ new[j].lease = None
    <2>1. job[j] \in Row
      BY RowOf
    <2>2. Ready(j) \in Status
      BY DEF Ready, Status, Waiting
    <2>3. QED
      BY <2>1, <2>2 DEF Requeued, Row
  <1>2. PICK S \in SUBSET Jobs : Take(h, Serving("sweep", w, None, S, new))
    BY DEF ClaimSweep
  <1>3. UNCHANGED <<job, granted, records>>
    BY DEF ClaimSweep
  <1> HIDE DEF new
  <1>4. QED
    BY <1>1, <1>2, <1>3, TakesHarmlessCall

\* Parking a row changes its status only.
LEMMA ParkedRow ==
  ASSUME IInv, NEW i \in Jobs
  PROVE  /\ ParkedAs(i) \in Row /\ ParkedAs(i).key = job[i].key
         /\ ParkedAs(i).attempt = job[i].attempt /\ ParkedAs(i).lease = job[i].lease
  <1>1. job[i] \in Row /\ "waiting_for_worker" \in Status
    BY RowOf DEF Status, Waiting
  <1>2. QED
    BY <1>1 DEF ParkedAs, Row

\* A claim that finds nothing installs no lease.
LEMMA ClaimNothingKeeps ==
  ASSUME IInv, NEW h \in Handlers, ClaimNothing(h)
  PROVE  IInv'
  <1> DEFINE new == [i \in Jobs |-> ParkedAs(i)]
             w == call[h].worker
             S == Parked(Scanned)
  <1>1. w \in Workers \cup {None} /\ S \subseteq Jobs
    BY DEF IInv, TypeOK, Call, Parked, Scanned
  <1>2. UNCHANGED <<job, granted, records>> /\ records' \in [Jobs -> [Tokens -> Nat]]
    BY DEF ClaimNothing, IInv, TypeOK
  <1>3. CASE Take(h, Idle)
    BY <1>2, <1>3, IdleShape, TakesEmptyCall DEF Idle
  <1>4. CASE Take(h, Serving("write", w, None, S, new))
    <2>1. \A i \in S : /\ new[i] \in Row /\ new[i].key = job[i].key
                       /\ new[i].attempt = job[i].attempt
                       /\ new[i].lease \in {job[i].lease, None}
      BY <1>1, ParkedRow
    <2>2. S \in SUBSET Jobs /\ None \in Tokens \cup {None} /\ "write" \in {"sweep", "write"}
      BY <1>1
    <2> HIDE DEF new, w, S
    <2>3. QED
      BY <1>1, <1>2, <1>4, <2>1, <2>2, TakesHarmlessCall
  <1>5. QED
    BY <1>3, <1>4 DEF ClaimNothing

\* A claim promises a lease id that nobody else knows.
LEMMA ClaimJobKeeps ==
  ASSUME IInv, NEW h \in Handlers, NEW j \in Jobs, NEW t \in Tokens, ClaimJob(h, j, t)
  PROVE  IInv'
  <1> DEFINE new == [i \in Jobs |-> IF i = j THEN Leased(job[j], call[h].worker, t)
                                    ELSE ParkedAs(i)]
             w == call[h].worker
             S == Parked({i \in Scanned : i < j}) \cup {j}
             c == Serving("write", w, t, S, new)
  <1>1. w \in Workers \cup {None}
    BY DEF IInv, TypeOK, Call
  <1>2. S \in SUBSET Jobs /\ j \in S
    BY DEF Parked, Scanned
  <1>3. Take(h, c) /\ UNCHANGED <<job, granted, records>> /\ Unused(t)
    BY DEF ClaimJob
  <1>4. \A i \in Jobs : job[i].lease # t
    BY <1>3, JobQueueAssumption DEF IInv, LeaseGranted, Unused
  <1>5. /\ new[j] \in Row /\ new[j].key = job[j].key /\ new[j].lease = t
        /\ new[j].attempt = job[j].attempt + 1
    <2>1. job[j] \in Row /\ Leased(job[j], w, t) \in Row
      BY RowOf, <1>1, RowShapes
    <2>2. QED
      BY <2>1 DEF Leased, Row
  <1>6. ASSUME NEW i \in Jobs, i # j
        PROVE  /\ new[i] \in Row /\ new[i].key = job[i].key
               /\ new[i].attempt = job[i].attempt /\ new[i].lease = job[i].lease
    BY <1>6, ParkedRow
  <1> HIDE DEF new, w, S
  <1>7. c \in Call
    <2>1. \A i \in S : new[i] \in Row
      BY <1>2, <1>5, <1>6
    <2>2. QED
      BY <1>1, <1>2, <2>1, ServingShape DEF IInv, Phases
  <1>8. /\ c.phase = "write" /\ c.token = t /\ c.rows = S
        /\ \A i \in S : c.seen[i] = job[i] /\ c.new[i] = new[i]
    BY <1>2 DEF Serving
  <1> HIDE DEF c
  <1>9. call'[h] = c /\ \A g \in Handlers \ {h} : call'[g] = call[g]
    BY <1>3 DEF Take, IInv, TypeOK
  <1>10. Promised(h, j)'
    <2>1. Writes(c) /\ granted'[c.token] = None /\ j \in c.rows
      BY <1>2, <1>3, <1>8 DEF Writes, Unused
    <2>2. /\ c.new[j].lease = c.token /\ c.new[j].key = c.seen[j].key
          /\ c.new[j].attempt = c.seen[j].attempt + 1 /\ c.seen[j].lease # c.token
      BY <1>2, <1>4, <1>5, <1>8
    <2>3. c.seen[j].attempt <= Cardinality(Attempts(j))
      BY <1>2, <1>8 DEF IInv, AttemptsAreClaims, Attempts
    <2>4. Attempts(j)' = Attempts(j)
      BY <1>3 DEF Attempts
    <2>5. \A i \in c.rows \ {j} : Harmless(c, i) /\ c.new[i].lease = c.seen[i].lease
                                  /\ c.new[i].lease # c.token
      BY <1>2, <1>4, <1>6, <1>8 DEF Harmless
    <2>6. \A g \in Handlers \ {h} : call'[g].token # c.token
      BY <1>3, <1>8, <1>9 DEF Unused
    <2>7. QED
      BY <1>8, <1>9, <2>1, <2>2, <2>3, <2>4, <2>5, <2>6 DEF Promised
  <1>11. CallOK(h)'
    BY <1>8, <1>9, <1>10 DEF CallOK, Writes
  <1>12. QED
    BY <1>3, <1>7, <1>8, <1>11, TakesCall DEF Unused, IInv, TypeOK

-----------------------------------------------------------------------------
(* The worker's handlers. *)

\* A worker write in flight keeps or clears the lease it loaded.
LEMMA LeaseWriteKeeps ==
  ASSUME IInv, NEW h \in Handlers, NEW w \in Workers, NEW t \in Tokens, NEW r,
         LeaseWrite(h, w, t, r),
         granted[t] \in Jobs =>
           /\ r \in Row /\ r.key = job[granted[t]].key
           /\ r.attempt = job[granted[t]].attempt
           /\ r.lease \in {job[granted[t]].lease, None}
  PROVE  IInv'
  <1> DEFINE j == granted[t]
             new == Only(r)
  <1>1. granted[t] # None /\ j \in Jobs
    BY DEF LeaseWrite, IInv, TypeOK
  <1>2. new[j] = r
    BY <1>1 DEF Only
  <1>3. Take(h, Serving("write", w, t, {j}, new)) /\ UNCHANGED <<job, granted, records>>
    BY DEF LeaseWrite
  <1>4. \A i \in {j} : /\ new[i] \in Row /\ new[i].key = job[i].key
                       /\ new[i].attempt = job[i].attempt
                       /\ new[i].lease \in {job[i].lease, None}
    BY <1>1, <1>2
  <1> HIDE DEF new, j
  <1>5. QED
    BY <1>1, <1>3, <1>4, TakesHarmlessCall

\* Start, heartbeat, progress, release and fail are such writes.
LEMMA WorkerWritesKeep ==
  ASSUME IInv, NEW h \in Handlers, NEW w \in Workers, NEW t \in Tokens,
         Renew(h, w, t) \/ Release(h, w, t) \/ Fail(h, w, t)
  PROVE  IInv'
  <1> DEFINE j == granted[t]
             r == job[j]
  <1>1. j \in Jobs
    BY DEF Renew, Release, Fail, LeaseWrite, IInv, TypeOK
  <1>2. r \in Row
    BY <1>1, RowOf
  <1>3. Renewed(r) \in Row /\ Requeued(j, r) \in Row /\ Failed(r, t) \in Row
    BY <1>1, <1>2, RowShapes
  <1> HIDE DEF r
  <1>4. CASE Renew(h, w, t)
    <2>1. Renewed(r).key = r.key /\ Renewed(r).attempt = r.attempt /\ Renewed(r).lease = r.lease
      BY <1>2 DEF Renewed, Row
    <2>2. LeaseWrite(h, w, t, Renewed(r))
      BY <1>4 DEF Renew, r
    <2>3. QED
      BY <1>3, <2>1, <2>2, LeaseWriteKeeps DEF r
  <1>5. CASE Release(h, w, t)
    <2>1. /\ Requeued(j, r).key = r.key /\ Requeued(j, r).attempt = r.attempt
          /\ Requeued(j, r).lease = None
      BY <1>2 DEF Requeued, Row
    <2>2. LeaseWrite(h, w, t, Requeued(j, r))
      BY <1>5 DEF Release, r
    <2>3. QED
      BY <1>3, <2>1, <2>2, LeaseWriteKeeps DEF r
  <1>6. CASE Fail(h, w, t)
    <2>1. Failed(r, t).key = r.key /\ Failed(r, t).attempt = r.attempt /\ Failed(r, t).lease = r.lease
      BY <1>2 DEF Failed, Row
    <2>2. LeaseWrite(h, w, t, Failed(r, t))
      BY <1>6 DEF Fail, r
    <2>3. QED
      BY <1>3, <2>1, <2>2, LeaseWriteKeeps DEF r
  <1>7. QED
    BY <1>4, <1>5, <1>6

\* A completion that loaded its row has changed nothing yet.
LEMMA CompleteLoadKeeps ==
  ASSUME IInv, NEW h \in Handlers, NEW w \in Workers, NEW t \in Tokens,
         CompleteLoad(h, w, t)
  PROVE  IInv'
  <1> DEFINE c == Serving("complete", w, t, {granted[t]}, NoRows)
  <1>1. granted[t] \in Jobs /\ granted[t] # None
    BY DEF CompleteLoad, IInv, TypeOK
  <1>2. Take(h, c) /\ UNCHANGED <<job, granted, records>>
    BY DEF CompleteLoad
  <1>3. NoRow \in Row /\ \A j \in Jobs : NoRows[j] = NoRow
    BY DEF NoRow, Row, Status, NoRows
  <1>4. c \in Call
    BY <1>1, <1>3, ServingShape DEF IInv, Phases
  <1>5. /\ c.phase = "complete" /\ c.token = t /\ c.rows = {granted[t]} /\ c.new = NoRows
    BY <1>3 DEF Serving, NoRows
  <1> HIDE DEF c
  <1>6. call'[h] = c
    BY <1>2 DEF Take, IInv, TypeOK
  <1>7. CallOK(h)'
    BY <1>1, <1>2, <1>5, <1>6 DEF CallOK, Writes
  <1>8. QED
    BY <1>1, <1>2, <1>4, <1>5, <1>7, TakesCall DEF IInv, TypeOK

\* A completion that passed its check is a worker write.
LEMMA SettleKeeps ==
  ASSUME IInv, NEW h \in Handlers, NEW j, NEW again, NEW r,
         Completing(call[h]), j = granted[call[h].token],
         Settle(h, j, again, r),
         r \in Row, r.key = call[h].seen[j].key,
         r.attempt = call[h].seen[j].attempt, r.lease = call[h].seen[j].lease,
         UNCHANGED <<job, granted>>, records' \in [Jobs -> [Tokens -> Nat]]
  PROVE  IInv'
  <1> DEFINE c == call[h]
             d == [c EXCEPT !.phase = "write", !.new[j] = r]
  <1>1. CASE Take(h, Idle)
    BY <1>1, IdleShape, TakesEmptyCall DEF Idle
  <1>2. CASE HoldsLease(c.seen[j], c.worker, c.token) /\ Take(h, d)
    <2>1. c \in Call /\ c.token \in Tokens /\ j \in Jobs /\ c.rows = {j} /\ c.new = NoRows
      BY DEF IInv, TypeOK, CallOK, Completing
    <2>2. d \in Call
      BY <2>1 DEF Call, Phases
    <2>3. /\ d.phase = "write" /\ d.token = c.token /\ d.rows = {j}
          /\ d.seen[j] = c.seen[j] /\ d.new[j] = r
      BY <2>1 DEF Call
    <2>4. d.seen[j].lease = d.token
      BY <1>2, <2>3 DEF HoldsLease
    <2>5. Installed(d) = {} /\ \A i \in d.rows : Harmless(d, i)
      BY <2>3, <2>4 DEF Installed, Harmless
    <2> HIDE DEF d
    <2>6. call'[h] = d
      BY <1>2 DEF Take, IInv, TypeOK
    <2>7. CallOK(h)'
      BY <2>3, <2>5, <2>6 DEF CallOK, Writes
    <2>8. QED
      BY <1>2, <2>2, <2>3, <2>7, TakesCall
  <1>3. QED
    BY <1>1, <1>2 DEF Settle

\* Counting a record keeps the counters natural numbers.
LEMMA InsertedShape ==
  ASSUME TypeOK, NEW j \in Jobs, NEW t \in Tokens
  PROVE  /\ Inserted(j, t) \in [Jobs -> [Tokens -> Nat]]
         /\ \A i \in Jobs, u \in Tokens :
              Inserted(j, t)[i][u] = IF i = j /\ u = t THEN records[j][t] + 1 ELSE records[i][u]
  <1> DEFINE row == [records[j] EXCEPT ![t] = @ + 1]
  <1>1. records \in [Jobs -> [Tokens -> Nat]] /\ records[j] \in [Tokens -> Nat]
        /\ records[j][t] \in Nat
    BY DEF TypeOK
  <1>2. row \in [Tokens -> Nat] /\ row[t] = records[j][t] + 1
        /\ \A u \in Tokens : u # t => row[u] = records[j][u]
    BY <1>1
  <1>3. Inserted(j, t) = [records EXCEPT ![j] = row]
    BY DEF Inserted
  <1> HIDE DEF row
  <1>4. QED
    BY <1>1, <1>2, <1>3

\* What a completion under way works on.
LEMMA CompletionShape ==
  ASSUME IInv, NEW h \in Handlers, Completing(call[h])
  PROVE  LET t == call[h].token
             j == granted[t]
             r == call[h].seen[j]
         IN /\ t \in Tokens /\ j \in Jobs /\ r \in Row
            /\ Succeeded(r, t) \in Row /\ Failed(r, t) \in Row
            /\ Succeeded(r, t).key = r.key /\ Succeeded(r, t).attempt = r.attempt
            /\ Succeeded(r, t).lease = r.lease
            /\ Failed(r, t).key = r.key /\ Failed(r, t).attempt = r.attempt
            /\ Failed(r, t).lease = r.lease
  <1> DEFINE t == call[h].token
             j == granted[t]
             r == call[h].seen[j]
  <1>1. t \in Tokens /\ j \in Jobs /\ r \in Row
    BY DEF IInv, TypeOK, CallOK, Call, Completing
  <1>2. Succeeded(r, t) \in Row /\ Failed(r, t) \in Row
    BY <1>1, RowShapes
  <1> HIDE DEF t, r
  <1>3. /\ Succeeded(r, t).key = r.key /\ Succeeded(r, t).attempt = r.attempt
        /\ Succeeded(r, t).lease = r.lease
        /\ Failed(r, t).key = r.key /\ Failed(r, t).attempt = r.attempt
        /\ Failed(r, t).lease = r.lease
    BY <1>1 DEF Succeeded, Failed, Row
  <1>4. QED
    BY <1>1, <1>2, <1>3 DEF t, r

\* complete_job, whatever the completion inserted before it.
LEMMA CompleteKeeps ==
  ASSUME IInv, NEW h \in Handlers, Completing(call[h]), Complete(h),
         UNCHANGED <<job, granted>>, records' \in [Jobs -> [Tokens -> Nat]]
  PROVE  IInv'
  <1> DEFINE t == call[h].token
             j == granted[t]
             r == call[h].seen[j]
  <1>1. /\ Succeeded(r, t) \in Row /\ Succeeded(r, t).key = r.key
        /\ Succeeded(r, t).attempt = r.attempt /\ Succeeded(r, t).lease = r.lease
    BY CompletionShape
  <1>2. Settle(h, j, r.status = "succeeded" /\ r.lease = t, Succeeded(r, t))
    BY DEF Complete
  <1> HIDE DEF r, j, t
  <1>3. QED
    BY <1>1, <1>2, SettleKeeps DEF r, j, t

\* A completion that found no manifest has changed nothing yet.
LEMMA RecordLookupKeeps ==
  ASSUME IInv, NEW h \in Handlers, RecordLookup(h)
  PROVE  IInv'
  <1> DEFINE d == [call[h] EXCEPT !.phase = "record"]
  <1>1. call[h].phase = "complete" /\ Take(h, d) /\ UNCHANGED <<job, granted, records>>
    BY DEF RecordLookup
  <1>2. call[h] \in Call
    BY DEF IInv, TypeOK
  <1>3. /\ d \in Call /\ d.phase = "record" /\ d.token = call[h].token
        /\ d.rows = call[h].rows /\ d.new = call[h].new
    BY <1>2 DEF Call, Phases
  <1>4. /\ d.token \in Tokens /\ granted[d.token] \in Jobs
        /\ d.rows = {granted[d.token]} /\ d.new = NoRows
    BY <1>1, <1>3 DEF IInv, CallOK
  <1> HIDE DEF d
  <1>5. call'[h] = d
    BY <1>1 DEF Take, IInv, TypeOK
  <1>6. CallOK(h)'
    BY <1>1, <1>3, <1>4, <1>5 DEF CallOK, Writes
  <1>7. granted[d.token] # None
    BY <1>4, JobQueueAssumption
  <1>8. QED
    BY <1>1, <1>3, <1>4, <1>6, <1>7, TakesCall DEF IInv, TypeOK

\* The outcomes of a completion.
LEMMA CompleteEndsKeep ==
  ASSUME IInv, NEW h \in Handlers,
         CompleteAccept(h) \/ RecordInsert(h) \/ CompleteReject(h)
  PROVE  IInv'
  <1> DEFINE t == call[h].token
             j == granted[t]
             r == call[h].seen[j]
  <1>1. Completing(call[h]) /\ UNCHANGED <<job, granted>>
    BY DEF CompleteAccept, RecordInsert, CompleteReject, Completing
  <1>2. /\ t \in Tokens /\ j \in Jobs /\ Failed(r, t) \in Row
        /\ Failed(r, t).key = r.key /\ Failed(r, t).attempt = r.attempt
        /\ Failed(r, t).lease = r.lease
    BY <1>1, CompletionShape
  <1>3. records \in [Jobs -> [Tokens -> Nat]] /\ Inserted(j, t) \in [Jobs -> [Tokens -> Nat]]
    BY <1>2, InsertedShape DEF IInv, TypeOK
  <1>4. CASE CompleteAccept(h)
    <2>1. records' \in [Jobs -> [Tokens -> Nat]] /\ Complete(h)
      BY <1>3, <1>4 DEF CompleteAccept
    <2>2. QED
      BY <1>1, <2>1, CompleteKeeps
  <1>5. CASE RecordInsert(h)
    <2>1. CASE records' = Inserted(j, t) /\ Complete(h)
      BY <1>1, <1>3, <2>1, CompleteKeeps
    <2>2. CASE Take(h, Idle) /\ UNCHANGED records
      BY <1>1, <1>3, <2>2, IdleShape, TakesEmptyCall DEF Idle
    <2>3. QED
      BY <1>5, <2>1, <2>2 DEF RecordInsert
  <1>6. CASE CompleteReject(h)
    <2>1. records' \in [Jobs -> [Tokens -> Nat]]
      BY <1>3, <1>6 DEF CompleteReject
    <2>2. Settle(h, j, r.status = "failed" /\ r.lease = t, Failed(r, t))
      BY <1>6 DEF CompleteReject
    <2> HIDE DEF r, j, t
    <2>3. QED
      BY <1>1, <1>2, <2>1, <2>2, SettleKeeps DEF r, j, t
  <1>7. QED
    BY <1>4, <1>5, <1>6

-----------------------------------------------------------------------------
(* Steps that change rows. *)

\* a call other than the one that moved keeps its promise when no grant changes
LEMMA OtherCallsKeep ==
  ASSUME IInv, NEW h \in Handlers, NEW c, Take(h, c), c.token = None,
         UNCHANGED granted, NEW g \in Handlers, g # h
  PROVE  CallOK(g)'
  <1>1. call'[g] = call[g] /\ call'[h] = c
    BY DEF Take, IInv, TypeOK
  <1>2. ASSUME NEW j \in Jobs, Promised(g, j) PROVE Promised(g, j)'
    <2>1. \A f \in Handlers \ {g} : call'[f].token # call[g].token
      BY <1>1, <1>2, JobQueueAssumption DEF Promised, Take, IInv, TypeOK
    <2>2. Attempts(j)' = Attempts(j)
      BY DEF Attempts
    <2>3. QED
      BY <1>1, <1>2, <2>1, <2>2 DEF Promised, Writes, Harmless
  <1>3. CallOK(g)
    BY DEF IInv
  <1>4. QED
    BY <1>1, <1>2, <1>3 DEF CallOK, Writes, Harmless, Installed

\* The unique key lets one INSERT per key through.
LEMMA CreateCommitKeeps ==
  ASSUME IInv, NEW h \in Handlers, CreateCommit(h)
  PROVE  IInv'
  <1>1. Take(h, Idle) /\ UNCHANGED <<granted, records>> /\ Idle.token = None
    BY DEF CreateCommit, Idle
  <1>2. CallOK(h)'
    BY <1>1 DEF CallOK, Writes, Idle, Take, IInv, TypeOK
  <1>3. \A g \in Handlers : CallOK(g)'
    BY <1>1, <1>2, OtherCallsKeep
  <1>4. CASE UNCHANGED job
    BY <1>1, <1>3, <1>4, IdleShape DEF IInv, TypeOK, LeaseGranted, OneJobPerKey, AttemptsAreClaims, Take
  <1>5. ASSUME NEW j \in Jobs, job' = [job EXCEPT ![j] = Created(j, call[h].key)],
               call[h].key = None \/ \A i \in Jobs : job[i].key # call[h].key
        PROVE  IInv'
    <2> DEFINE r == Created(j, call[h].key)
    <2>1. call[h].key \in Keys \cup {None}
      BY DEF IInv, TypeOK, Call
    <2>2. /\ r \in Row /\ r.lease = None /\ r.attempt = 0 /\ r.key = call[h].key
          /\ r.exp = "none"
      <3>1. NoRow \in Row /\ Ready(j) \in Status
        BY DEF NoRow, Row, Ready, Status, Waiting
      <3>2. QED
        BY <2>1, <3>1 DEF Created, Row, NoRow
    <2> HIDE DEF r
    <2>3. job'[j] = r /\ \A i \in Jobs \ {j} : job'[i] = job[i]
      BY <1>5 DEF r, IInv, TypeOK
    <2>4. TypeOK'
      BY <1>1, <1>5, <2>2, IdleShape DEF r, IInv, TypeOK, Take
    <2>5. LeaseGranted'
      BY <1>1, <2>2, <2>3 DEF IInv, LeaseGranted
    <2>6. OneJobPerKey'
      BY <1>5, <2>2, <2>3 DEF IInv, OneJobPerKey
    <2>7. ASSUME NEW i \in Jobs PROVE job'[i].attempt <= Cardinality({t \in Tokens : granted'[t] = i})
      <3>1. Cardinality({t \in Tokens : granted[t] = i}) \in Nat
        BY TokensFinite DEF Attempts
      <3>2. QED
        BY <1>1, <2>2, <2>3, <3>1 DEF IInv, AttemptsAreClaims
    <2>8. QED
      BY <1>3, <2>4, <2>5, <2>6, <2>7 DEF IInv, AttemptsAreClaims
  <1>6. QED
    BY <1>4, <1>5 DEF CreateCommit

\* what a commit makes of a row it does not put under a new lease
LEMMA HarmlessFlush ==
  ASSUME NEW cur, NEW c, NEW j, Harmless(c, j)
  PROVE  LET r == Flush(cur, c.seen[j], c.new[j])
         IN /\ r.key = cur.key /\ r.attempt = cur.attempt
            /\ r.lease \in {cur.lease, None}
            /\ c.new[j].lease = c.seen[j].lease => r.lease = cur.lease
  BY DEF Harmless, Flush, Column

\* the call that h is left with after a commit, and the rows it wrote
LEMMA CommitShape ==
  ASSUME IInv, NEW h \in Handlers, Commit(h)
  PROVE  /\ TypeOK'
         /\ \E d : Take(h, d) /\ d.token = None
         /\ CallOK(h)'
         /\ \A j \in Jobs : job'[j] = IF j \in call[h].rows
                                      THEN Flush(job[j], call[h].seen[j], call[h].new[j])
                                      ELSE job[j]
  <1> DEFINE c == call[h]
             d == IF c.phase = "sweep"
                  THEN [Idle EXCEPT !.phase = "scan", !.worker = c.worker] ELSE Idle
  <1>1. c \in Call /\ c.phase \in {"sweep", "write"}
    BY DEF Commit, IInv, TypeOK
  <1>2. d \in Call /\ d.phase \in {"scan", "idle"} /\ d.token = None /\ d.rows = {}
    BY <1>1, IdleShape DEF Call, Idle, Phases
  <1>3. Take(h, d)
    BY DEF Commit
  <1>4. \A j \in Jobs : job'[j] = IF j \in c.rows THEN Flush(job[j], c.seen[j], c.new[j])
                                  ELSE job[j]
    BY DEF Commit
  <1> HIDE DEF d
  <1>5. call'[h] = d /\ call' \in [Handlers -> Call]
    BY <1>2, <1>3 DEF Take, IInv, TypeOK
  <1>6. CallOK(h)'
    BY <1>2, <1>5 DEF CallOK, Writes
  <1>7. ASSUME NEW j \in Jobs PROVE job'[j] \in Row /\ job'[j].exp # "fresh"
    <2>1. job[j] \in Row /\ job[j].exp # "fresh" /\ c.seen[j] \in Row /\ c.new[j] \in Row
      BY <1>1 DEF IInv, TypeOK, Call
    <2>2. QED
      BY <1>4, <2>1, FlushShape
  <1>8. job' \in [Jobs -> Row]
    <2>1. job' = [j \in Jobs |-> job'[j]]
      BY DEF Commit
    <2>2. QED
      BY <1>7, <2>1
  <1>9. granted' \in [Tokens -> Jobs \cup {None}]
    <2>1. CASE Installed(c) = {}
      BY <2>1 DEF Commit, IInv, TypeOK
    <2>2. CASE Installed(c) # {}
      <3>1. (CHOOSE j \in Installed(c) : TRUE) \in Installed(c)
        BY <2>2
      <3>2. Installed(c) \subseteq Jobs
        BY <1>1 DEF Installed, Call
      <3>3. QED
        BY <2>2, <3>1, <3>2 DEF Commit, IInv, TypeOK
    <2>3. QED
      BY <2>1, <2>2
  <1>10. TypeOK'
    BY <1>5, <1>7, <1>8, <1>9 DEF TypeOK, IInv, Commit
  <1>11. QED
    BY <1>2, <1>3, <1>4, <1>6, <1>10

\* a commit that installs no lease
LEMMA HarmlessCommitKeeps ==
  ASSUME IInv, NEW h \in Handlers, Commit(h),
         Installed(call[h]) = {}, \A j \in call[h].rows : Harmless(call[h], j)
  PROVE  IInv' /\ granted' = granted
         /\ \A j \in Jobs : job'[j].lease \in {job[j].lease, None}
  <1>1. UNCHANGED granted
    BY DEF Commit
  <1>2. ASSUME NEW j \in Jobs
        PROVE  /\ job'[j].key = job[j].key /\ job'[j].attempt = job[j].attempt
               /\ job'[j].lease \in {job[j].lease, None}
    <2>1. CASE j \in call[h].rows
      BY <2>1, CommitShape, HarmlessFlush
    <2>2. CASE j \notin call[h].rows
      BY <2>2, CommitShape
    <2>3. QED
      BY <2>1, <2>2
  <1>3. LeaseGranted'
    BY <1>1, <1>2 DEF LeaseGranted, IInv
  <1>4. OneJobPerKey'
    BY <1>2 DEF OneJobPerKey, IInv
  <1>5. AttemptsAreClaims'
    BY <1>1, <1>2 DEF AttemptsAreClaims, IInv
  <1>6. \A g \in Handlers : CallOK(g)'
    BY <1>1, CommitShape, OtherCallsKeep
  <1>7. QED
    BY <1>1, <1>2, <1>3, <1>4, <1>5, <1>6, CommitShape DEF IInv

\* a commit that installs its lease id on job j
LEMMA GrantCommitKeeps ==
  ASSUME IInv, NEW h \in Handlers, Commit(h), NEW j \in Jobs, Promised(h, j)
  PROVE  /\ IInv'
         /\ granted' = [granted EXCEPT ![call[h].token] = j]
         /\ \A i \in Jobs : job'[i].lease = IF i = j THEN call[h].token ELSE job[i].lease
  <1> DEFINE c == call[h]
             t == c.token
  <1>1. /\ t \in Tokens /\ granted[t] = None /\ t # None
        /\ \A g \in Handlers \ {h} : call[g].token # t
    BY JobQueueAssumption DEF Promised
  <1>2. Installed(c) = {j}
    BY <1>1 DEF Promised, Installed, Harmless
  <1>3. granted' = [granted EXCEPT ![t] = j]
    <2>1. (CHOOSE i \in Installed(c) : TRUE) = j
      BY <1>2
    <2>2. QED
      BY <1>2, <2>1 DEF Commit
  <1>4. granted'[t] = j /\ \A u \in Tokens \ {t} : granted'[u] = granted[u]
    BY <1>1, <1>3 DEF IInv, TypeOK
  <1>5. /\ job'[j].key = job[j].key /\ job'[j].lease = t
        /\ job'[j].attempt = c.seen[j].attempt + 1
    <2>1. c.seen[j].attempt \in Nat
      BY DEF IInv, TypeOK, Call, Row
    <2>2. job'[j] = Flush(job[j], c.seen[j], c.new[j])
      BY CommitShape DEF Promised
    <2>3. QED
      BY <2>1, <2>2 DEF Promised, Flush, Column
  <1>6. ASSUME NEW i \in Jobs, i # j
        PROVE  /\ job'[i].key = job[i].key /\ job'[i].lease = job[i].lease
               /\ job'[i].attempt = job[i].attempt
    <2>1. CASE i \in c.rows
      <3>1. Harmless(c, i) /\ c.new[i].lease = c.seen[i].lease
        BY <1>6, <2>1 DEF Promised
      <3>2. job'[i] = Flush(job[i], c.seen[i], c.new[i])
        BY <2>1, CommitShape
      <3>3. QED
        BY <3>1, <3>2 DEF Harmless, Flush, Column
    <2>2. CASE i \notin c.rows
      BY <2>2, CommitShape
    <2>3. QED
      BY <2>1, <2>2
  <1>7. LeaseGranted'
    <2>1. ASSUME NEW i \in Jobs, i # j, job[i].lease # None PROVE granted'[job[i].lease] = i
      <3>1. granted[job[i].lease] = i /\ job[i].lease \in Tokens
        BY <2>1 DEF IInv, LeaseGranted, TypeOK, Row
      <3>2. i # None
        BY JobQueueAssumption
      <3>3. QED
        BY <1>1, <1>4, <3>1, <3>2
    <2>2. QED
      BY <1>4, <1>5, <1>6, <2>1 DEF LeaseGranted
  <1>8. OneJobPerKey'
    BY <1>5, <1>6 DEF OneJobPerKey, IInv
  <1>9. /\ Attempts(j)' = Attempts(j) \cup {t} /\ t \notin Attempts(j)
        /\ \A i \in Jobs : i # j => Attempts(i)' = Attempts(i)
    <2>1. j # None /\ \A i \in Jobs : i # None
      BY JobQueueAssumption
    <2>2. QED
      BY <1>1, <1>4, <2>1 DEF Attempts
  <1>10. Cardinality(Attempts(j)') = Cardinality(Attempts(j)) + 1
    BY <1>9, TokensFinite, FS_AddElement
  <1>11. AttemptsAreClaims'
    <2>1. c.seen[j].attempt \in Nat /\ c.seen[j].attempt <= Cardinality(Attempts(j))
      BY DEF Promised, IInv, TypeOK, Call, Row
    <2>2. job'[j].attempt <= Cardinality(Attempts(j)')
      BY <1>5, <1>10, <2>1, TokensFinite
    <2>3. \A i \in Jobs : i # j => job'[i].attempt <= Cardinality(Attempts(i)')
      BY <1>6, <1>9 DEF IInv, AttemptsAreClaims, Attempts
    <2>4. QED
      BY <2>2, <2>3 DEF AttemptsAreClaims, Attempts
  <1>12. ASSUME NEW g \in Handlers, g # h PROVE CallOK(g)'
    <2>1. call'[g] = call[g] /\ call'[h].token = None
      BY <1>12, CommitShape DEF Take, IInv, TypeOK
    <2>2. ASSUME NEW i \in Jobs, Promised(g, i) PROVE Promised(g, i)'
      <3>1. granted'[call[g].token] = None /\ call[g].token \in Tokens
        BY <1>1, <1>4, <1>12, <2>2 DEF Promised
      <3>2. \A f \in Handlers \ {g} : call'[f].token # call[g].token
        <4>1. \A f \in Handlers \ {g, h} : call'[f].token # call[g].token
          BY <2>2, CommitShape DEF Promised, Take, IInv, TypeOK
        <4>2. call'[h].token # call[g].token
          BY <2>1, <3>1, JobQueueAssumption
        <4>3. QED
          BY <4>1, <4>2
      <3>3. Cardinality(Attempts(i)) \in Nat /\ Cardinality(Attempts(j)) \in Nat
        BY TokensFinite
      <3>5. /\ Cardinality(Attempts(i)') \in Nat
            /\ Cardinality(Attempts(i)) <= Cardinality(Attempts(i)')
        <4>1. CASE i = j
          BY <1>10, <3>3, <4>1
        <4>2. CASE i # j
          BY <1>9, <3>3, <4>2
        <4>3. QED
          BY <4>1, <4>2
      <3>4. /\ call[g].seen[i].attempt \in Nat
            /\ call[g].seen[i].attempt <= Cardinality(Attempts(i))
        BY <2>2 DEF Promised, IInv, TypeOK, Call, Row
      <3>6. call[g].seen[i].attempt <= Cardinality(Attempts(i)')
        BY <3>3, <3>4, <3>5
      <3>7. QED
        BY <2>1, <2>2, <3>1, <3>2, <3>6 DEF Promised, Writes, Harmless
    <2>3. call[g].phase \in {"complete", "record"} =>
            granted'[call[g].token] = granted[call[g].token]
      <3>1. call[g].phase \in {"complete", "record"} => call[g].token \in Tokens
        BY DEF IInv, CallOK
      <3>2. QED
        BY <1>1, <1>4, <1>12, <3>1
    <2>4. CallOK(g)
      BY DEF IInv
    <2>5. QED
      BY <2>1, <2>2, <2>3, <2>4 DEF CallOK, Writes, Harmless, Installed
  <1>13. QED
    BY <1>3, <1>5, <1>6, <1>7, <1>8, <1>11, <1>12, CommitShape DEF IInv

\* A commit installs what was promised, or does no harm.
LEMMA CommitKeeps ==
  ASSUME IInv, NEW h \in Handlers, Commit(h)
  PROVE  IInv'
  <1>1. \/ \E j \in Jobs : Promised(h, j)
        \/ Installed(call[h]) = {} /\ \A j \in call[h].rows : Harmless(call[h], j)
    BY DEF Commit, IInv, CallOK, Writes
  <1>2. QED
    BY <1>1, HarmlessCommitKeeps, GrantCommitKeeps

\* the clock touches deadlines only, in the table and in an unfinished complete
LEMMA ExpireKeeps ==
  ASSUME IInv, NEW k \in Jobs, Expire(k)
  PROVE  IInv'
  <1>1. \A j \in Jobs : /\ job'[j] \in Row /\ job'[j].exp # "fresh"
                        /\ job'[j].key = job[j].key /\ job'[j].lease = job[j].lease
                        /\ job'[j].attempt = job[j].attempt
    <2>1. job[k] \in Row /\ job' = [job EXCEPT ![k] = [job[k] EXCEPT !.exp = "past"]]
      BY RowOf DEF Expire
    <2>2. QED
      BY <2>1 DEF IInv, TypeOK, Row
  <1>2. UNCHANGED <<granted, records>>
    BY DEF Expire
  <1>3. ASSUME NEW h \in Handlers
        PROVE  /\ call'[h] \in Call
               /\ \/ call'[h] = call[h]
                  \/ /\ call[h].phase \in {"complete", "record"}
                     /\ call'[h].phase = call[h].phase
                     /\ call'[h].token = call[h].token /\ call'[h].rows = call[h].rows
                     /\ call'[h].new = call[h].new
    <2>1. call[h] \in Call /\ call[h].seen[k] \in Row
      BY DEF IInv, TypeOK, Call
    <2>2. [call[h].seen[k] EXCEPT !.exp = "past"] \in Row
      BY <2>1 DEF Row
    <2> DEFINE seen == [call[h].seen EXCEPT ![k].exp = "past"]
               c == [call[h] EXCEPT !.seen[k].exp = "past"]
    <2>a. call[h].seen \in [Jobs -> Row]
      BY <2>1 DEF Call
    <2>b. seen \in [Jobs -> Row]
      BY <2>2, <2>a
    <2>c. c = [call[h] EXCEPT !.seen = seen]
      OBVIOUS
    <2> HIDE DEF seen, c
    <2>3. /\ c \in Call /\ c.phase = call[h].phase /\ c.token = call[h].token
          /\ c.rows = call[h].rows /\ c.new = call[h].new
      BY <2>1, <2>b, <2>c DEF Call
    <2>4. \/ call'[h] = call[h]
          \/ call[h].phase \in {"complete", "record"} /\ call'[h] = c
      BY DEF Expire, c
    <2>5. QED
      BY <2>1, <2>3, <2>4
  <1>4. TypeOK'
    <2>1. job' \in [Jobs -> Row] /\ call' \in [Handlers -> Call]
      BY <1>1, <1>3 DEF Expire, IInv, TypeOK
    <2>2. QED
      BY <1>1, <1>2, <2>1 DEF IInv, TypeOK
  <1>5. LeaseGranted' /\ OneJobPerKey' /\ AttemptsAreClaims'
    BY <1>1, <1>2 DEF IInv, LeaseGranted, OneJobPerKey, AttemptsAreClaims
  <1>6. ASSUME NEW h \in Handlers PROVE CallOK(h)'
    <2>1. CallOK(h)
      BY DEF IInv
    <2>2. CASE call'[h] = call[h]
      <3>1. ASSUME NEW j \in Jobs, Promised(h, j) PROVE Promised(h, j)'
        <4>1. \A g \in Handlers : call'[g].token = call[g].token
          BY <1>3
        <4>2. Attempts(j)' = Attempts(j)
          BY <1>2 DEF Attempts
        <4>3. QED
          BY <1>2, <2>2, <3>1, <4>1, <4>2 DEF Promised, Writes, Harmless
      <3>2. QED
        BY <1>2, <2>1, <2>2, <3>1 DEF CallOK, Writes, Harmless, Installed
    <2>3. CASE /\ call[h].phase \in {"complete", "record"}
               /\ call'[h].phase = call[h].phase
               /\ call'[h].token = call[h].token /\ call'[h].rows = call[h].rows
               /\ call'[h].new = call[h].new
      BY <1>2, <2>1, <2>3 DEF CallOK, Writes
    <2>4. QED
      BY <1>3, <2>2, <2>3
  <1>7. QED
    BY <1>4, <1>5, <1>6 DEF IInv

-----------------------------------------------------------------------------
(* The theorems. *)

\* The strengthened invariant holds of an empty queue ...
LEMMA InitEstablishes == Init => IInv
  <1> SUFFICES ASSUME Init PROVE IInv
    OBVIOUS
  <1>1. NoRow \in Row /\ NoRow.key = None /\ NoRow.lease = None /\ NoRow.attempt = 0
        /\ NoRow.exp = "none"
    BY DEF NoRow, Row, Status
  <1>2. \A j \in Jobs : job[j] = NoRow
    BY DEF Init
  <1>3. TypeOK
    BY <1>1, <1>2, IdleShape DEF Init, TypeOK
  <1>4. LeaseGranted /\ OneJobPerKey
    BY <1>1, <1>2 DEF LeaseGranted, OneJobPerKey
  <1>5. AttemptsAreClaims
    <2>1. ASSUME NEW j \in Jobs PROVE job[j].attempt <= Cardinality({t \in Tokens : granted[t] = j})
      <3>1. Cardinality({t \in Tokens : granted[t] = j}) \in Nat
        BY TokensFinite DEF Attempts
      <3>2. job[j].attempt = 0
        BY <1>1, <1>2
      <3>3. QED
        BY <3>1, <3>2
    <2>2. QED
      BY <2>1 DEF AttemptsAreClaims
  <1>6. \A h \in Handlers : CallOK(h)
    BY DEF Init, CallOK, Writes, Idle
  <1>7. QED
    BY <1>3, <1>4, <1>5, <1>6 DEF IInv

\* ... and every action keeps it.
LEMMA NextPreserves == IInv /\ [Next]_vars => IInv'
  <1> SUFFICES ASSUME IInv, [Next]_vars PROVE IInv'
    OBVIOUS
  <1>1. CASE UNCHANGED vars
    <2>1. UNCHANGED <<job, call, granted, records>>
      BY <1>1 DEF vars
    <2>2. TypeOK' /\ LeaseGranted' /\ OneJobPerKey' /\ AttemptsAreClaims'
      BY <2>1 DEF IInv, TypeOK, LeaseGranted, OneJobPerKey, AttemptsAreClaims
    <2>3. ASSUME NEW h \in Handlers, NEW j \in Jobs PROVE Promised(h, j)' <=> Promised(h, j)
      BY <2>1 DEF Promised, Writes, Attempts, Harmless
    <2>4. ASSUME NEW h \in Handlers PROVE CallOK(h)'
      BY <2>1, <2>3 DEF IInv, CallOK, Writes, Harmless, Installed
    <2>5. QED
      BY <2>2, <2>4 DEF IInv
  <1>2. ASSUME NEW h \in Handlers, OwnerRequest(h) PROVE IInv'
    BY <1>2, CreateLookupKeeps, CreateCommitKeeps, CancelJobKeeps DEF OwnerRequest
  <1>3. ASSUME NEW h \in Handlers, ClaimRequest(h) PROVE IInv'
    BY <1>3, ClaimSweepKeeps, ClaimNothingKeeps, ClaimJobKeeps DEF ClaimRequest
  <1>4. ASSUME NEW h \in Handlers, LeaseRequest(h) PROVE IInv'
    BY <1>4, WorkerWritesKeep, CompleteLoadKeeps, RecordLookupKeeps, CompleteEndsKeep
       DEF LeaseRequest
  <1>5. QED
    BY <1>1, <1>2, <1>3, <1>4, AbortKeeps, CommitKeeps, ExpireKeeps DEF Next

\* The strengthened invariant is an invariant of the queue.
LEMMA Invariance == Spec => []IInv
  BY InitEstablishes, NextPreserves, PTL DEF Spec

\* Rows, calls and grants keep their shape, and no commit leaves a "fresh"
\* deadline behind.
THEOREM TypeCorrect == Spec => []TypeOK
  BY Invariance, PTL DEF IInv

\* One idempotency key names one job, however create_job calls race.
THEOREM KeysUnique == Spec => []OneJobPerKey
  BY Invariance, PTL DEF IInv

\* The attempt counter of a job never exceeds the claims committed on it.
THEOREM AttemptsBounded == Spec => []AttemptsAreClaims
  BY Invariance, PTL DEF IInv

\* jobs.py implements the lease service: a lease id is granted once, to one job,
\* and a lease that was lost does not come back, whatever commits are delayed.
THEOREM LeaseRefinement == Spec => ImplementsLeases
  <1> DEFINE holder == [j \in Jobs |-> job[j].lease]
             spent == {t \in Tokens : granted[t] # None}
  <1>1. Init => leases!Init
    BY DEF Init, leases!Init, NoRow
  <1>2. ASSUME IInv, [Next]_vars PROVE [leases!Next]_<<holder, spent>>
    <2>1. ASSUME UNCHANGED granted, \A j \in Jobs : job'[j].lease \in {job[j].lease, None}
          PROVE  leases!Next
      <3> DEFINE S == {j \in Jobs : job'[j].lease = None}
      <3>1. leases!Drop(S)
        BY <2>1 DEF leases!Drop
      <3>2. S \in SUBSET Jobs
        OBVIOUS
      <3> HIDE DEF S
      <3>3. QED
        BY <3>1, <3>2 DEF leases!Next, leases!Drop
    <2>2. ASSUME UNCHANGED <<job, granted>> PROVE UNCHANGED <<holder, spent>>
      BY <2>2
    <2>3. ASSUME NEW h \in Handlers, Commit(h) PROVE leases!Next
      <3>1. CASE Installed(call[h]) = {} /\ \A j \in call[h].rows : Harmless(call[h], j)
        BY <1>2, <2>1, <2>3, <3>1, HarmlessCommitKeeps
      <3>2. ASSUME NEW j \in Jobs, Promised(h, j) PROVE leases!Next
        <4> DEFINE t == call[h].token
        <4>1. /\ granted' = [granted EXCEPT ![t] = j]
              /\ \A i \in Jobs : job'[i].lease = IF i = j THEN t ELSE job[i].lease
          BY <1>2, <2>3, <3>2, GrantCommitKeeps
        <4>2. t \in Tokens /\ granted[t] = None /\ j # None /\ granted \in [Tokens -> Jobs \cup {None}]
          BY <1>2, <3>2, JobQueueAssumption DEF Promised, IInv, TypeOK
        <4>3. spent' = spent \cup {t} /\ t \notin spent
          BY <4>1, <4>2
        <4>4. holder' = [holder EXCEPT ![j] = t]
          BY <4>1
        <4>5. leases!Grant(j, t)
          BY <4>3, <4>4 DEF leases!Grant
        <4> HIDE DEF t
        <4>6. QED
          BY <4>2, <4>5 DEF leases!Next, leases!Grant
      <3>3. QED
        BY <1>2, <2>3, <3>1, <3>2 DEF Commit, IInv, CallOK, Writes
    <2>4. ASSUME NEW h \in Handlers, CreateCommit(h) PROVE leases!Next
      <3>1. UNCHANGED granted
        BY <2>4 DEF CreateCommit
      <3>2. \A j \in Jobs : Created(j, call[h].key).lease = None
        BY DEF Created, NoRow
      <3>3. \A j \in Jobs : job'[j].lease \in {job[j].lease, None}
        BY <1>2, <2>4, <3>2 DEF CreateCommit, IInv, TypeOK
      <3>4. QED
        BY <2>1, <3>1, <3>3
    <2>5. ASSUME NEW k \in Jobs, Expire(k) PROVE leases!Next
      <3>1. \A j \in Jobs : job'[j].lease = job[j].lease
        <4>1. job[k] \in Row /\ job' = [job EXCEPT ![k] = [job[k] EXCEPT !.exp = "past"]]
          BY <1>2, <2>5, RowOf DEF Expire
        <4>2. QED
          BY <1>2, <4>1 DEF IInv, TypeOK, Row
      <3>2. UNCHANGED granted
        BY <2>5 DEF Expire
      <3>3. QED
        BY <2>1, <3>1, <3>2
    <2>6. ASSUME NEW h \in Handlers, OwnerRequest(h) \/ Abort(h)
          PROVE  CreateCommit(h) \/ UNCHANGED <<job, granted>>
      BY <2>6 DEF OwnerRequest, CreateLookup, CancelJob, Abort
    <2>7. ASSUME NEW h \in Handlers, ClaimRequest(h) PROVE UNCHANGED <<job, granted>>
      BY <2>7 DEF ClaimRequest, ClaimSweep, ClaimNothing, ClaimJob
    <2>8. ASSUME NEW h \in Handlers, LeaseRequest(h) PROVE UNCHANGED <<job, granted>>
      BY <2>8 DEF LeaseRequest, Renew, Release, Fail, LeaseWrite, CompleteLoad,
                  CompleteAccept, RecordLookup, RecordInsert, CompleteReject
    <2>9. UNCHANGED vars => UNCHANGED <<job, granted>>
      BY DEF vars
    <2>10. \/ UNCHANGED <<job, granted>>
           \/ \E h \in Handlers : Commit(h) \/ CreateCommit(h)
           \/ \E k \in Jobs : Expire(k)
      BY <1>2, <2>6, <2>7, <2>8, <2>9 DEF Next
    <2> HIDE DEF holder, spent
    <2>11. QED
      BY <2>2, <2>3, <2>4, <2>5, <2>10
  <1>3. QED
    BY <1>1, <1>2, Invariance, PTL DEF Spec, ImplementsLeases, leases!Spec

-----------------------------------------------------------------------------
(* Manifests.  A completion looks for a manifest and inserts one later, so *)
(* two may both have found none; the constraint on job_id decides.         *)

\* Only an INSERT that finds no manifest of the job counts one.
LEMMA ManifestStep == IInv /\ OneManifestPerJob /\ [Next]_vars => OneManifestPerJob'
  <1> SUFFICES ASSUME IInv, OneManifestPerJob, [Next]_vars PROVE OneManifestPerJob'
    OBVIOUS
  <1>1. CASE UNCHANGED records
    BY <1>1 DEF OneManifestPerJob
  <1>2. ASSUME NEW h \in Handlers, CompleteAccept(h) \/ RecordInsert(h) PROVE OneManifestPerJob'
    <2> DEFINE t == call[h].token
               j == granted[t]
    <2>1. t \in Tokens /\ j \in Jobs
      BY <1>2, CompletionShape DEF CompleteAccept, RecordInsert, Completing
    <2>2. \A i \in Jobs, u \in Tokens : records[i][u] \in Nat
      BY DEF IInv, TypeOK
    <2>3. \/ UNCHANGED records
          \/ records' = Inserted(j, t) /\ (Kind[j] = "each" \/ ~OnRecord(j))
      BY <1>2 DEF CompleteAccept, RecordInsert
    <2>4. TypeOK
      BY DEF IInv
    <2> HIDE DEF t, j
    <2>5. CASE records' = Inserted(j, t) /\ (Kind[j] = "each" \/ ~OnRecord(j))
      <3>1. \A i \in Jobs, u \in Tokens :
              records'[i][u] = IF i = j /\ u = t THEN records[j][t] + 1 ELSE records[i][u]
        BY <2>1, <2>4, <2>5, InsertedShape
      <3>2. ASSUME NEW i \in Jobs, Kind[i] = "once", NEW u \in Tokens, NEW v \in Tokens,
                   records'[i][u] > 0, records'[i][v] > 0
            PROVE  u = v /\ records'[i][u] = 1
        <4>1. CASE i = j
          <5>1. \A x \in Tokens : records[j][x] = 0
            BY <2>1, <2>2, <2>5, <3>2, <4>1 DEF OnRecord
          <5>2. QED
            BY <2>1, <3>1, <3>2, <4>1, <5>1
        <4>2. CASE i # j
          BY <3>1, <3>2, <4>2 DEF OneManifestPerJob
        <4>3. QED
          BY <4>1, <4>2
      <3>3. QED
        BY <3>2 DEF OneManifestPerJob
    <2>6. QED
      BY <1>1, <2>3, <2>5
  <1>3. ASSUME NEW h \in Handlers, OwnerRequest(h) \/ ClaimRequest(h) \/ Commit(h) \/ Abort(h)
        PROVE UNCHANGED records
    BY <1>3 DEF OwnerRequest, CreateLookup, CreateCommit, CancelJob, ClaimRequest, ClaimSweep,
                ClaimNothing, ClaimJob, Commit, Abort
  <1>4. ASSUME NEW h \in Handlers, LeaseRequest(h)
        PROVE UNCHANGED records \/ CompleteAccept(h) \/ RecordInsert(h)
    BY <1>4 DEF LeaseRequest, Renew, Release, Fail, LeaseWrite, CompleteLoad, RecordLookup,
                CompleteReject
  <1>5. (\E k \in Jobs : Expire(k)) \/ UNCHANGED vars => UNCHANGED records
    BY DEF Expire, vars
  <1>6. QED
    BY <1>1, <1>2, <1>3, <1>4, <1>5 DEF Next

\* A job has at most one manifest or diagnostic, under one lease: completions that all
\* found none, of one lease or of several, insert one between them.
THEOREM ManifestsUnique == Spec => []OneManifestPerJob
  <1>1. Init => OneManifestPerJob
    BY DEF Init, OneManifestPerJob
  <1>2. QED
    BY <1>1, ManifestStep, Invariance, PTL DEF Spec

-----------------------------------------------------------------------------
(* Requests that do not overlap.  What a handler loaded is then what the   *)
(* table still holds, but for a deadline that passed meanwhile (Current),  *)
(* so a commit does to the row what its guard allowed (Allowed).           *)

\* requests are served one after the other
OneHandler == \A g, h \in Handlers : g = h

\* LeaseMatchesStatus of one row, and what an unused row is
Agrees(r) ==
  /\ r.status = "absent" => r = NoRow
  /\ r.status \in Active => r.to # None /\ r.lease # None /\ r.exp # "none"
  /\ r.status \in Waiting \cup {"cancelled"} => r.to = None /\ r.lease = None /\ r.exp = "none"
  /\ r.status \in {"succeeded", "failed"} => r.lease # None /\ r.exp = "none"

\* the row r that was loaded is the row cur of the table
Current(r, cur) ==
  /\ r.status = cur.status /\ r.key = cur.key /\ r.to = cur.to /\ r.lease = cur.lease
  /\ r.attempt = cur.attempt /\ r.result = cur.result /\ r.error = cur.error
  /\ r.exp = cur.exp \/ (r.exp = "live" /\ cur.exp = "past")

\* the worker of call c holds the lease on the row r it loaded
Held(c, r) == c.worker \in Workers /\ c.token \in Tokens /\ HoldsLease(r, c.worker, c.token)

\* what a call that passed its guard may be about to write
Allowed(c, j) ==
  LET r == c.seen[j]
  IN \/ r.status \notin Terminal \cup {"absent"} /\ c.new[j] = Cancelled(r)
     \/ (r.status \in Active \/ Held(c, r)) /\ c.new[j] = Requeued(j, r)
     \/ r.status = "queued" /\ c.new[j] = [r EXCEPT !.status = "waiting_for_worker"]
     \/ /\ r.status \in Waiting /\ c.worker \in Workers /\ c.token \in Tokens
        /\ c.new[j] = Leased(r, c.worker, c.token)
     \/ Held(c, r) /\ c.new[j] \in {Renewed(r), Failed(r, c.token), Succeeded(r, c.token)}

UpToDate(c) ==
  /\ c.phase \in {"sweep", "scan", "complete", "record"} => c.worker \in Workers
  /\ \A j \in c.rows : Current(c.seen[j], job[j])
  /\ Writes(c) => \A j \in c.rows : Allowed(c, j)

SInv ==
  /\ \A j \in Jobs : Agrees(job[j])
  /\ \A h \in Handlers : UpToDate(call[h])

\* what a step may do to a row: a cancelled one stays so, an outcome is that of the
\* lease in force
Fenced(old, new) ==
  /\ old.status = "cancelled" => new.status = "cancelled"
  /\ new.result # old.result => new.result = old.lease
  /\ new.error \notin {None, old.error} => new.error = old.lease

\* A lease is held on a row that is active or finished.
LEMMA HeldStatus ==
  ASSUME NEW c, NEW r \in Row, Agrees(r), Held(c, r)
  PROVE  /\ r.status \in Active \cup {"succeeded", "failed"}
         /\ r.to = c.worker /\ r.lease = c.token /\ r.to # None /\ r.lease # None
  <1>1. c.token # None /\ c.worker # None
    BY JobQueueAssumption DEF Held
  <1>2. r.to = c.worker /\ r.lease = c.token /\ r.status # "cancelled"
    BY DEF Held, HoldsLease
  <1>3. r.status # "absent"
    BY <1>1, <1>2 DEF Agrees, NoRow
  <1>4. r.status \notin Waiting
    BY <1>1, <1>2 DEF Agrees
  <1>5. QED
    BY <1>1, <1>2, <1>3, <1>4 DEF Row, Status, Terminal

\* The status a requeued job gets.
LEMMA ReadyWaits == ASSUME NEW j PROVE Ready(j) \in Waiting
  BY DEF Ready, Waiting

\* What a guard allowed leaves a row that agrees, and is fenced.
LEMMA AllowedAgrees ==
  ASSUME NEW c, NEW j \in Jobs, NEW r \in Row, r = c.seen[j], Agrees(r), Allowed(c, j),
         r.exp # "fresh"
  PROVE  LET n == c.new[j]
         IN /\ Agrees([n EXCEPT !.exp = IF n.exp = "fresh" THEN "live" ELSE n.exp])
            /\ Fenced(r, n) /\ r.status # "cancelled"
            /\ n \in Row /\ n.exp \in {"none", "fresh"}
  <1> DEFINE n == c.new[j]
  <1>0. /\ Active = {"leased", "running"} /\ Waiting = {"queued", "waiting_for_worker"}
        /\ Terminal = {"succeeded", "failed", "cancelled"}
    BY DEF Active, Waiting, Terminal
  <1>s. /\ Active \cup Waiting \cup Terminal \subseteq Status
        /\ Ready(j) \in Waiting
    BY ReadyWaits DEF Status
  <1>1. CASE r.status \notin Terminal \cup {"absent"} /\ n = Cancelled(r)
    <2>1. /\ n \in Row /\ n.status = "cancelled" /\ n.to = None /\ n.lease = None
          /\ n.exp = "none" /\ n.result = r.result /\ n.error = r.error
      BY <1>0, <1>s, <1>1 DEF Cancelled, Row
    <2> HIDE DEF n
    <2>2. QED
      BY <1>0, <1>1, <2>1 DEF Agrees, Fenced, Row, n
  <1>2. CASE (r.status \in Active \/ Held(c, r)) /\ n = Requeued(j, r)
    <2>1. /\ n \in Row /\ n.status = Ready(j) /\ n.to = None /\ n.lease = None
          /\ n.exp = "none" /\ n.result = r.result /\ n.error = r.error
      BY <1>0, <1>s, <1>2 DEF Requeued, Row
    <2>2. r.status # "cancelled"
      BY <1>0, <1>2 DEF Held, HoldsLease
    <2> HIDE DEF n
    <2>3. QED
      BY <1>0, <1>s, <2>1, <2>2 DEF Agrees, Fenced, Row, n
  <1>3. CASE r.status = "queued" /\ n = [r EXCEPT !.status = "waiting_for_worker"]
    <2>1. /\ n \in Row /\ n.status = "waiting_for_worker" /\ n.to = r.to /\ n.lease = r.lease
          /\ n.exp = r.exp /\ n.result = r.result /\ n.error = r.error
      BY <1>0, <1>s, <1>3 DEF Row
    <2>2. r.to = None /\ r.lease = None /\ r.exp = "none"
      BY <1>0, <1>3 DEF Agrees
    <2> HIDE DEF n
    <2>3. QED
      BY <1>0, <1>3, <2>1, <2>2 DEF Agrees, Fenced, Row, n
  <1>4. CASE /\ r.status \in Waiting /\ c.worker \in Workers /\ c.token \in Tokens
             /\ n = Leased(r, c.worker, c.token)
    <2>1. r.attempt + 1 \in Nat
      BY DEF Row
    <2>2. /\ n \in Row /\ n.status = "leased" /\ n.to = c.worker /\ n.lease = c.token
          /\ n.exp = "fresh" /\ n.result = r.result /\ n.error = r.error
      BY <1>0, <1>s, <1>4, <2>1 DEF Leased, Row
    <2>3. c.worker # None /\ c.token # None
      BY <1>4, JobQueueAssumption
    <2> HIDE DEF n
    <2>4. QED
      BY <1>0, <1>4, <2>2, <2>3 DEF Agrees, Fenced, Row, n
  <1>5. ASSUME Held(c, r)
        PROVE  /\ r.status \notin {"cancelled", "absent"} /\ r.to # None /\ r.lease # None
               /\ r.lease = c.token /\ c.token \in Tokens
    BY <1>0, <1>5, HeldStatus DEF Held
  <1>6. CASE Held(c, r) /\ n = Renewed(r)
    <2>1. /\ n \in Row /\ n.status = "running" /\ n.to = r.to /\ n.lease = r.lease
          /\ n.exp = "fresh" /\ n.result = r.result /\ n.error = r.error
      BY <1>0, <1>s, <1>6 DEF Renewed, Row
    <2> HIDE DEF n
    <2>2. QED
      BY <1>0, <1>5, <1>6, <2>1 DEF Agrees, Fenced, Row, n
  <1>7. CASE Held(c, r) /\ n = Failed(r, c.token)
    <2>1. /\ n \in Row /\ n.status = "failed" /\ n.to = r.to /\ n.lease = r.lease
          /\ n.exp = "none" /\ n.result = r.result /\ n.error = c.token
      BY <1>0, <1>s, <1>5, <1>7 DEF Failed, Row
    <2> HIDE DEF n
    <2>2. QED
      BY <1>0, <1>5, <1>7, <2>1 DEF Agrees, Fenced, Row, n
  <1>8. CASE Held(c, r) /\ n = Succeeded(r, c.token)
    <2>1. /\ n \in Row /\ n.status = "succeeded" /\ n.to = r.to /\ n.lease = r.lease
          /\ n.exp = "none" /\ n.result = c.token /\ n.error = None
      BY <1>0, <1>s, <1>5, <1>8 DEF Succeeded, Row
    <2> HIDE DEF n
    <2>2. QED
      BY <1>0, <1>5, <1>8, <2>1 DEF Agrees, Fenced, Row, n
  <1>9. QED
    BY <1>1, <1>2, <1>3, <1>4, <1>6, <1>7, <1>8 DEF Allowed

\* A row that is current agrees if the row of the table does.
LEMMA CurrentAgrees ==
  ASSUME NEW r \in Row, NEW cur \in Row, Current(r, cur), Agrees(cur), cur.exp # "fresh"
  PROVE  r.exp # "fresh" /\ Agrees(r)
  <1>1. r.exp # "fresh"
    BY DEF Current
  <1>2. ASSUME r.status = "absent" PROVE r = NoRow
    <2>1. cur = NoRow /\ r.exp = cur.exp
      BY <1>2 DEF Current, Agrees, NoRow
    <2>2. /\ r.status = cur.status /\ r.key = cur.key /\ r.to = cur.to
          /\ r.lease = cur.lease /\ r.exp = cur.exp /\ r.attempt = cur.attempt
          /\ r.result = cur.result /\ r.error = cur.error
      BY <2>1 DEF Current
    <2>3. r = cur
      BY <2>2 DEF Row
    <2>4. QED
      BY <2>1, <2>3
  <1>3. /\ r.status \in Active => r.exp # "none"
        /\ r.status \in Waiting \cup {"cancelled", "succeeded", "failed"} => r.exp = "none"
    BY DEF Current, Agrees, Active, Waiting
  <1>4. r.status = cur.status /\ r.to = cur.to /\ r.lease = cur.lease
    BY DEF Current
  <1>5. QED
    BY <1>1, <1>2, <1>3, <1>4 DEF Agrees

\* An UPDATE of a current row writes the row that was meant.
LEMMA FlushLands ==
  ASSUME NEW cur \in Row, NEW r \in Row, NEW n \in Row, Current(r, cur), cur.exp # "fresh",
         n.exp \in {"none", "fresh"}
  PROVE  LET f == Flush(cur, r, n)
         IN /\ f.status = n.status /\ f.to = n.to /\ f.lease = n.lease
            /\ f.result = n.result /\ f.error = n.error
            /\ f.exp = IF n.exp = "fresh" THEN "live" ELSE n.exp
  BY DEF Flush, Column, Current

\* A handler takes the call c, which is the only one there is.
LEMMA SoleCall ==
  ASSUME IInv, SInv, OneHandler, NEW h \in Handlers, NEW c, Take(h, c), UNCHANGED job,
         UpToDate(c)
  PROVE  SInv'
  <1>1. \A g \in Handlers : call'[g] = c
    BY DEF Take, OneHandler, IInv, TypeOK
  <1>2. UpToDate(c)'
    BY DEF UpToDate, Allowed, Current, Held
  <1>3. \A g \in Handlers : UpToDate(call[g])'
    BY <1>1, <1>2 DEF UpToDate
  <1>4. QED
    BY <1>3 DEF SInv

\* ... it has just loaded its rows
LEMMA SoleServing ==
  ASSUME IInv, SInv, OneHandler, NEW h \in Handlers, NEW phase \in {"sweep", "write"},
         NEW w, phase = "sweep" => w \in Workers, NEW t, NEW S \in SUBSET Jobs, NEW new,
         Take(h, Serving(phase, w, t, S, new)), UNCHANGED job,
         \A j \in S : Allowed([worker |-> w, token |-> t, seen |-> job, new |-> new], j)
  PROVE  SInv'
  <1> DEFINE c == Serving(phase, w, t, S, new)
  <1>1. /\ c.phase = phase /\ c.worker = w /\ c.token = t /\ c.rows = S
        /\ \A j \in S : c.seen[j] = job[j] /\ c.new[j] = new[j]
    BY DEF Serving
  <1> HIDE DEF c
  <1>2. \A j \in S : Allowed(c, j)
    BY <1>1 DEF Allowed, Held
  <1>3. UpToDate(c)
    BY <1>1, <1>2 DEF UpToDate, Current
  <1>4. QED
    BY <1>3, SoleCall DEF c

\* ... or holds no rows
LEMMA SoleEmpty ==
  ASSUME IInv, SInv, OneHandler, NEW h \in Handlers, NEW c, Take(h, c), UNCHANGED job,
         c.rows = {}, c.phase \in {"idle", "scan", "insert"},
         c.phase = "scan" => c.worker \in Workers
  PROVE  SInv'
  <1>1. UpToDate(c)
    BY DEF UpToDate, Writes
  <1>2. QED
    BY <1>1, SoleCall

\* The owner's handlers up to their commit.
LEMMA OwnerFits ==
  ASSUME IInv, SInv, OneHandler, NEW h \in Handlers,
         Abort(h) \/ \/ \E k \in Keys \cup {None} : CreateLookup(h, k)
                     \/ \E j \in Jobs : CancelJob(h, j)
  PROVE  SInv'
  <1>1. CASE Abort(h)
    BY <1>1, SoleEmpty DEF Abort, Idle
  <1>2. ASSUME NEW k \in Keys \cup {None}, CreateLookup(h, k) PROVE SInv'
    <2> DEFINE c == [Idle EXCEPT !.phase = "insert", !.key = k]
    <2>1. c.rows = {} /\ c.phase = "insert"
      BY DEF Idle
    <2>2. Take(h, c) /\ UNCHANGED job
      BY <1>2 DEF CreateLookup
    <2> HIDE DEF c
    <2>3. QED
      BY <2>1, <2>2, SoleEmpty
  <1>3. ASSUME NEW j \in Jobs, CancelJob(h, j) PROVE SInv'
    <2> DEFINE new == Only(Cancelled(job[j]))
    <2>1. new[j] = Cancelled(job[j]) /\ job[j].status \notin Terminal \cup {"absent"}
      BY <1>3 DEF Only, CancelJob
    <2>2. Take(h, Serving("write", None, None, {j}, new)) /\ UNCHANGED job
      BY <1>3 DEF CancelJob
    <2> HIDE DEF new
    <2>3. \A i \in {j} : Allowed([worker |-> None, token |-> None, seen |-> job, new |-> new], i)
      BY <2>1 DEF Allowed
    <2>4. QED
      BY <2>2, <2>3, SoleServing
  <1>4. QED
    BY <1>1, <1>2, <1>3

\* The phases of a claim.
LEMMA ClaimFits ==
  ASSUME IInv, SInv, OneHandler, NEW h \in Handlers, ClaimRequest(h)
  PROVE  SInv'
  <1>1. ASSUME NEW w \in Workers, ClaimSweep(h, w) PROVE SInv'
    <2> DEFINE new == [j \in Jobs |-> Requeued(j, job[j])]
               S == {j \in Jobs : job[j].status \in Active /\ job[j].exp = "past"}
    <2>1. Take(h, Serving("sweep", w, None, S, new)) /\ UNCHANGED job
      BY <1>1 DEF ClaimSweep
    <2>2. \A j \in S : new[j] = Requeued(j, job[j]) /\ job[j].status \in Active
      OBVIOUS
    <2>3. S \in SUBSET Jobs
      OBVIOUS
    <2> HIDE DEF new, S
    <2>4. \A j \in S : Allowed([worker |-> w, token |-> None, seen |-> job, new |-> new], j)
      BY <2>2 DEF Allowed
    <2>5. QED
      BY <2>1, <2>3, <2>4, SoleServing
  <1>2. CASE ClaimNothing(h)
    <2> DEFINE w == call[h].worker
               S == Parked(Scanned)
               new == [i \in Jobs |-> ParkedAs(i)]
    <2>1. UNCHANGED job /\ (Take(h, Idle) \/ Take(h, Serving("write", w, None, S, new)))
      BY <1>2 DEF ClaimNothing
    <2>2. CASE Take(h, Idle)
      BY <2>1, <2>2, SoleEmpty DEF Idle
    <2>3. S \in SUBSET Jobs
      BY DEF Parked, Scanned
    <2>4. \A j \in S : /\ new[j] = [job[j] EXCEPT !.status = "waiting_for_worker"]
                       /\ job[j].status = "queued"
      BY <2>3 DEF Parked, ParkedAs
    <2> HIDE DEF new, S, w
    <2>5. \A j \in S : Allowed([worker |-> w, token |-> None, seen |-> job, new |-> new], j)
      BY <2>4 DEF Allowed
    <2>6. QED
      BY <2>1, <2>2, <2>3, <2>5, SoleServing
  <1>3. ASSUME NEW j \in Jobs, NEW t \in Tokens, ClaimJob(h, j, t) PROVE SInv'
    <2> DEFINE w == call[h].worker
               P == Parked({i \in Scanned : i < j})
               S == P \cup {j}
               new == [i \in Jobs |-> IF i = j THEN Leased(job[j], w, t) ELSE ParkedAs(i)]
    <2>1. UNCHANGED job /\ Take(h, Serving("write", w, t, S, new))
      BY <1>3 DEF ClaimJob
    <2>2. S \in SUBSET Jobs
      BY DEF Parked, Scanned
    <2>3. w \in Workers
      BY <1>3 DEF ClaimJob, SInv, UpToDate
    <2>4. job[j].status \in Waiting /\ new[j] = Leased(job[j], w, t)
      BY <1>3 DEF ClaimJob, Scanned
    <2>5. \A i \in S : i # j => /\ new[i] = [job[i] EXCEPT !.status = "waiting_for_worker"]
                                /\ job[i].status = "queued"
      BY <2>2 DEF Parked, ParkedAs
    <2> HIDE DEF new, S, w, P
    <2>6. \A i \in S : Allowed([worker |-> w, token |-> t, seen |-> job, new |-> new], i)
      BY <2>3, <2>4, <2>5 DEF Allowed
    <2>7. QED
      BY <2>1, <2>2, <2>6, SoleServing
  <1>4. QED
    BY <1>1, <1>2, <1>3 DEF ClaimRequest

\* The worker's handlers up to their commit.
LEMMA LeaseFits ==
  ASSUME IInv, SInv, OneHandler, NEW h \in Handlers, LeaseRequest(h)
  PROVE  SInv'
  <1>1. ASSUME NEW w \in Workers, NEW t \in Tokens,
               Renew(h, w, t) \/ Release(h, w, t) \/ Fail(h, w, t)
        PROVE SInv'
    <2> DEFINE j == granted[t]
    <2>1. PICK r \in {Renewed(job[j]), Requeued(j, job[j]), Failed(job[j], t)} :
            LeaseWrite(h, w, t, r)
      BY <1>1 DEF Renew, Release, Fail
    <2>2. j \in Jobs /\ HoldsLease(job[j], w, t) /\ UNCHANGED job
      BY <2>1 DEF LeaseWrite, IInv, TypeOK
    <2> DEFINE new == Only(r)
    <2>3. new[j] = r
      BY <2>2 DEF Only
    <2>4. Take(h, Serving("write", w, t, {j}, new))
      BY <2>1 DEF LeaseWrite
    <2> HIDE DEF new, j
    <2>5. \A i \in {j} : Allowed([worker |-> w, token |-> t, seen |-> job, new |-> new], i)
      BY <2>1, <2>2, <2>3 DEF Allowed, Held
    <2>6. QED
      BY <2>2, <2>4, <2>5, SoleServing
  <1>2. ASSUME NEW w \in Workers, NEW t \in Tokens, CompleteLoad(h, w, t) PROVE SInv'
    <2> DEFINE c == Serving("complete", w, t, {granted[t]}, NoRows)
    <2>1. granted[t] \in Jobs /\ Take(h, c) /\ UNCHANGED job
      BY <1>2 DEF CompleteLoad, IInv, TypeOK
    <2>2. /\ c.phase = "complete" /\ c.worker = w /\ c.rows = {granted[t]}
          /\ \A j \in c.rows : c.seen[j] = job[j]
      BY <2>1 DEF Serving
    <2> HIDE DEF c
    <2>3. UpToDate(c)
      BY <2>2 DEF UpToDate, Current, Writes
    <2>4. QED
      BY <2>1, <2>3, SoleCall
  <1>3. ASSUME RecordLookup(h) PROVE SInv'
    <2> DEFINE c == call[h]
               d == [c EXCEPT !.phase = "record"]
    <2>1. Take(h, d) /\ UNCHANGED job /\ c.phase = "complete"
      BY <1>3 DEF RecordLookup
    <2>2. c \in Call /\ UpToDate(c)
      BY DEF IInv, TypeOK, SInv
    <2>3. /\ d.phase = "record" /\ d.worker = c.worker /\ d.rows = c.rows
          /\ d.seen = c.seen
      BY <2>2 DEF Call
    <2> HIDE DEF d
    <2>4. UpToDate(d)
      BY <2>1, <2>2, <2>3 DEF UpToDate, Writes
    <2>5. QED
      BY <2>1, <2>4, SoleCall
  <1>4. ASSUME CompleteAccept(h) \/ RecordInsert(h) \/ CompleteReject(h) PROVE SInv'
    <2> DEFINE c == call[h]
               t == c.token
               j == granted[t]
               r == c.seen[j]
    <2>1. /\ c.phase \in {"complete", "record"} /\ UNCHANGED job
          /\ \/ Take(h, Idle)
             \/ \E again : \E new \in {Succeeded(r, t), Failed(r, t)} : Settle(h, j, again, new)
      BY <1>4 DEF CompleteAccept, RecordInsert, CompleteReject, Complete
    <2>2. PICK new \in {Succeeded(r, t), Failed(r, t)} :
            \/ Take(h, Idle)
            \/ HoldsLease(r, c.worker, t) /\ Take(h, [c EXCEPT !.phase = "write", !.new[j] = new])
      BY <2>1 DEF Settle
    <2>3. CASE Take(h, Idle)
      BY <2>1, <2>3, SoleEmpty DEF Idle
    <2> DEFINE d == [c EXCEPT !.phase = "write", !.new[j] = new]
    <2>4. /\ c \in Call /\ t \in Tokens /\ j \in Jobs /\ c.rows = {j}
          /\ c.worker \in Workers /\ Current(r, job[j])
      BY <2>1 DEF IInv, TypeOK, CallOK, SInv, UpToDate
    <2>5. /\ d.phase = "write" /\ d.token = t /\ d.worker = c.worker /\ d.rows = {j}
          /\ d.seen = c.seen /\ d.new[j] = new
      BY <2>4 DEF Call
    <2>6. CASE HoldsLease(r, c.worker, t) /\ Take(h, d)
      <3>1. Held(d, r) /\ d.seen[j] = r
        BY <2>4, <2>5, <2>6 DEF Held
      <3>2. UpToDate(d)
        <4> HIDE DEF d, r, c, t, j
        <4>1. Allowed(d, j)
          BY <2>5, <3>1 DEF Allowed
        <4>2. QED
          BY <2>4, <2>5, <3>1, <4>1 DEF UpToDate
      <3> HIDE DEF d
      <3>3. QED
        BY <2>1, <2>6, <3>2, SoleCall
    <2>7. QED
      BY <2>2, <2>3, <2>6
  <1>5. QED
    BY <1>1, <1>2, <1>3, <1>4 DEF LeaseRequest

\* A commit does to a row what its guard allowed.
LEMMA CommitFits ==
  ASSUME IInv, SInv, OneHandler, NEW h \in Handlers, Commit(h)
  PROVE  SInv' /\ \A j \in Jobs : Fenced(job[j], job'[j])
  <1> DEFINE c == call[h]
  <1>1. c \in Call /\ Writes(c) /\ c.rows \subseteq Jobs
    BY DEF Commit, Writes, IInv, TypeOK, Call
  <1>2. ASSUME NEW j \in Jobs PROVE Agrees(job'[j]) /\ Fenced(job[j], job'[j])
    <2>1. CASE j \notin c.rows
      <3>1. job'[j] = job[j]
        BY <2>1 DEF Commit
      <3>2. QED
        BY <3>1 DEF SInv, Fenced
    <2>2. CASE j \in c.rows
      <3> DEFINE r == c.seen[j]
                 n == c.new[j]
                 m == [n EXCEPT !.exp = IF n.exp = "fresh" THEN "live" ELSE n.exp]
      <3>1. r \in Row /\ n \in Row /\ job[j] \in Row /\ job[j].exp # "fresh"
        BY <1>1 DEF IInv, TypeOK, Call
      <3>2. Current(r, job[j]) /\ Allowed(c, j) /\ Agrees(job[j])
        BY <1>1, <2>2 DEF SInv, UpToDate
      <3>3. r.exp # "fresh" /\ Agrees(r)
        BY <3>1, <3>2, CurrentAgrees
      <3>4. Agrees(m) /\ Fenced(r, n) /\ r.status # "cancelled" /\ n.exp \in {"none", "fresh"}
        BY <3>1, <3>2, <3>3, AllowedAgrees
      <3>5. job'[j] = Flush(job[j], r, n)
        BY <2>2 DEF Commit
      <3> DEFINE f == job'[j]
      <3>6. /\ f.status = n.status /\ f.to = n.to /\ f.lease = n.lease
            /\ f.result = n.result /\ f.error = n.error
            /\ f.exp = IF n.exp = "fresh" THEN "live" ELSE n.exp
        BY <3>1, <3>2, <3>4, <3>5, FlushLands
      <3>7. /\ m.status = n.status /\ m.to = n.to /\ m.lease = n.lease
            /\ m.exp = IF n.exp = "fresh" THEN "live" ELSE n.exp
        BY <3>1 DEF Row
      <3>8. n.status # "absent"
        <4>1. Ready(j) # "absent"
          BY DEF Ready
        <4>2. r.status # "absent" \/ ~ Held(c, r)
          BY <3>1, <3>3, HeldStatus DEF Active
        <4>3. Active = {"leased", "running"} /\ Waiting = {"queued", "waiting_for_worker"}
          BY DEF Active, Waiting
        <4> HIDE DEF c, r, n, m, f
        <4>4. QED
          BY <3>1, <3>2, <4>1, <4>2, <4>3 DEF Allowed, Cancelled, Requeued, Leased, Renewed,
             Failed, Succeeded, Row, r, n
      <3> HIDE DEF r, n, m, f
      <3>9. Agrees(f)
        BY <3>4, <3>6, <3>7, <3>8 DEF Agrees
      <3>10. Fenced(job[j], f)
        BY <3>2, <3>4, <3>6 DEF Fenced, Current
      <3>11. QED
        BY <3>9, <3>10 DEF f
    <2>3. QED
      BY <2>1, <2>2
  <1>3. \A g \in Handlers : UpToDate(call[g])'
    <2> DEFINE d == IF c.phase = "sweep"
                    THEN [Idle EXCEPT !.phase = "scan", !.worker = c.worker] ELSE Idle
    <2>1. /\ d.rows = {} /\ d.phase \in {"idle", "scan"}
          /\ d.phase = "scan" => d.worker = c.worker /\ c.phase = "sweep"
      BY DEF Idle
    <2>2. Take(h, d)
      BY DEF Commit
    <2> HIDE DEF d
    <2>3. \A g \in Handlers : call'[g] = d
      BY <2>2 DEF Take, OneHandler, IInv, TypeOK
    <2>4. c.phase = "sweep" => c.worker \in Workers
      BY DEF SInv, UpToDate
    <2>5. QED
      BY <2>1, <2>3, <2>4 DEF UpToDate, Writes
  <1>4. QED
    BY <1>2, <1>3 DEF SInv

\* A new row agrees, and takes the place of an unused one.
LEMMA CreateFits ==
  ASSUME IInv, SInv, OneHandler, NEW h \in Handlers, CreateCommit(h)
  PROVE  SInv' /\ \A j \in Jobs : Fenced(job[j], job'[j])
  <1>1. \A g \in Handlers : call'[g] = Idle
    BY DEF CreateCommit, Take, OneHandler, IInv, TypeOK
  <1>2. \A g \in Handlers : UpToDate(call[g])'
    BY <1>1 DEF UpToDate, Idle, Writes
  <1>3. CASE UNCHANGED job
    BY <1>2, <1>3 DEF SInv, Fenced
  <1>4. ASSUME NEW k \in Jobs, job[k].status = "absent",
               job' = [job EXCEPT ![k] = Created(k, call[h].key)]
        PROVE  SInv' /\ \A j \in Jobs : Fenced(job[j], job'[j])
    <2>1. job'[k] = Created(k, call[h].key) /\ \A j \in Jobs : j # k => job'[j] = job[j]
      BY <1>4 DEF IInv, TypeOK
    <2>2. /\ job'[k].status = Ready(k) /\ job'[k].to = None /\ job'[k].lease = None
          /\ job'[k].exp = "none" /\ job'[k].result = None /\ job'[k].error = None
      BY <2>1 DEF Created, NoRow
    <2>3. job[k].result = None /\ job[k].error = None
      BY <1>4 DEF SInv, Agrees, NoRow
    <2>4. Agrees(job'[k])
      BY <2>2, ReadyWaits DEF Agrees, Waiting, Active
    <2>5. Fenced(job[k], job'[k])
      BY <1>4, <2>2, <2>3 DEF Fenced
    <2>6. QED
      BY <1>2, <2>1, <2>4, <2>5 DEF SInv, Fenced
  <1>5. QED
    BY <1>3, <1>4 DEF CreateCommit

\* The clock makes a live deadline pass, in the table and in an unfinished complete.
LEMMA ExpireFits ==
  ASSUME IInv, SInv, OneHandler, NEW k \in Jobs, Expire(k)
  PROVE  SInv' /\ \A j \in Jobs : Fenced(job[j], job'[j])
  <1>1. \A j \in Jobs : job[j] \in Row
    BY RowOf
  <1>2. /\ job'[k] = [job[k] EXCEPT !.exp = "past"] /\ job[k].exp = "live"
        /\ \A j \in Jobs : j # k => job'[j] = job[j]
    BY DEF Expire, IInv, TypeOK
  <1>3. /\ job'[k].status = job[k].status /\ job'[k].key = job[k].key
        /\ job'[k].to = job[k].to /\ job'[k].lease = job[k].lease /\ job'[k].exp = "past"
        /\ job'[k].attempt = job[k].attempt /\ job'[k].result = job[k].result
        /\ job'[k].error = job[k].error
    BY <1>1, <1>2 DEF Row
  <1>4. ASSUME NEW j \in Jobs PROVE Agrees(job'[j]) /\ Fenced(job[j], job'[j])
    <2>1. job[k].status # "absent"
      BY <1>2 DEF SInv, Agrees, NoRow
    <2>2. Agrees(job[j])
      BY DEF SInv
    <2>3. CASE j # k
      BY <1>2, <2>2, <2>3 DEF Fenced
    <2>4. CASE j = k
      BY <1>2, <1>3, <2>1, <2>2, <2>4 DEF Agrees, Fenced
    <2>5. QED
      BY <2>3, <2>4
  <1>5. ASSUME NEW h \in Handlers PROVE UpToDate(call[h])'
    <2> DEFINE c == call[h]
               d == [c EXCEPT !.seen[k].exp = "past"]
    <2>1. c \in Call /\ UpToDate(c)
      BY DEF IInv, TypeOK, SInv
    <2>2. \A j \in Jobs : c.seen[j] \in Row
      BY <2>1 DEF Call
    <2>3. CASE call'[h] = c
      <3>1. \A j \in c.rows : Current(c.seen[j], job'[j])
        <4>1. ASSUME NEW j \in c.rows PROVE Current(c.seen[j], job'[j])
          <5>1. j \in Jobs /\ Current(c.seen[j], job[j])
            BY <2>1 DEF Call, UpToDate
          <5>2. CASE j # k
            BY <1>2, <5>1, <5>2
          <5>3. CASE j = k
            BY <1>2, <1>3, <5>1, <5>3 DEF Current
          <5>4. QED
            BY <5>2, <5>3
        <4>2. QED
          BY <4>1
      <3>2. QED
        BY <2>1, <2>3, <3>1 DEF UpToDate, Allowed, Held, Writes
    <2>4. CASE /\ c.phase \in {"complete", "record"} /\ k \in c.rows
               /\ c.seen[k].exp = "live" /\ call'[h] = d
      <3>1. c.seen \in [Jobs -> Row]
        BY <2>1 DEF Call
      <3>2. /\ d.phase = c.phase /\ d.worker = c.worker /\ d.rows = c.rows
            /\ d.seen[k] = [c.seen[k] EXCEPT !.exp = "past"]
            /\ \A j \in Jobs : j # k => d.seen[j] = c.seen[j]
        BY <2>1, <3>1 DEF Call
      <3> DEFINE r == d.seen[k]
      <3>3. /\ r.status = c.seen[k].status /\ r.key = c.seen[k].key
            /\ r.to = c.seen[k].to /\ r.lease = c.seen[k].lease /\ r.exp = "past"
            /\ r.attempt = c.seen[k].attempt /\ r.result = c.seen[k].result
            /\ r.error = c.seen[k].error
        BY <2>2, <3>2 DEF Row
      <3> HIDE DEF d, r
      <3>4. Current(r, job'[k])
        BY <1>3, <2>1, <2>4, <3>3 DEF Current, UpToDate
      <3>5. \A j \in c.rows : Current(d.seen[j], job'[j])
        BY <1>2, <2>1, <3>2, <3>4 DEF UpToDate, Call, r
      <3>6. QED
        BY <2>1, <2>4, <3>2, <3>5 DEF UpToDate, Writes
    <2>5. QED
      BY <2>3, <2>4 DEF Expire
  <1>6. QED
    BY <1>4, <1>5 DEF SInv

\* A step, when requests do not overlap.
LEMMA SerialStep ==
  ASSUME IInv, SInv, OneHandler, [Next]_vars
  PROVE  SInv' /\ \A j \in Jobs : Fenced(job[j], job'[j])
  <1>1. CASE UNCHANGED vars
    <2>1. UNCHANGED <<job, call>>
      BY <1>1 DEF vars
    <2>2. SInv'
      BY <2>1 DEF SInv, UpToDate, Allowed, Held, Writes, Current, Agrees
    <2>3. QED
      BY <2>1, <2>2 DEF Fenced
  <1>2. ASSUME NEW h \in Handlers, Abort(h) \/ OwnerRequest(h) \/ ClaimRequest(h) \/ LeaseRequest(h)
        PROVE  SInv' /\ \A j \in Jobs : Fenced(job[j], job'[j])
    <2>1. CASE CreateCommit(h)
      BY <2>1, CreateFits
    <2>2. CASE ~ CreateCommit(h)
      <3>1. SInv'
        BY <1>2, <2>2, OwnerFits, ClaimFits, LeaseFits DEF OwnerRequest
      <3>2. ASSUME OwnerRequest(h) \/ Abort(h) PROVE UNCHANGED job
        BY <2>2, <3>2 DEF OwnerRequest, CreateLookup, CancelJob, Abort
      <3>3. ASSUME ClaimRequest(h) PROVE UNCHANGED job
        BY <3>3 DEF ClaimRequest, ClaimSweep, ClaimNothing, ClaimJob
      <3>4. ASSUME LeaseRequest(h) PROVE UNCHANGED job
        BY <3>4 DEF LeaseRequest, Renew, Release, Fail, LeaseWrite, CompleteLoad,
                    CompleteAccept, RecordLookup, RecordInsert, CompleteReject
      <3>5. UNCHANGED job
        BY <1>2, <3>2, <3>3, <3>4
      <3>6. QED
        BY <3>1, <3>5 DEF Fenced
    <2>3. QED
      BY <2>1, <2>2
  <1>3. QED
    BY <1>1, <1>2, CommitFits, ExpireFits DEF Next

\* Requests that do not overlap always work on current rows.
LEMMA SerialInvariance == ASSUME OneHandler PROVE Spec => []SInv
  <1>1. Init => SInv
    <2> SUFFICES ASSUME Init PROVE SInv
      OBVIOUS
    <2>1. \A j \in Jobs : job[j] = NoRow
      BY DEF Init
    <2>2. Agrees(NoRow)
      BY DEF Agrees, NoRow, Active, Waiting
    <2>3. \A h \in Handlers : call[h] = Idle
      BY DEF Init
    <2>4. UpToDate(Idle)
      BY DEF UpToDate, Idle, Writes
    <2>5. QED
      BY <2>1, <2>2, <2>3, <2>4 DEF SInv
  <1>2. IInv /\ SInv /\ [Next]_vars => SInv'
    BY SerialStep
  <1>3. QED
    BY <1>1, <1>2, Invariance, PTL DEF Spec

\* If requests do not overlap, status, owner, lease and deadline of every job agree:
\* no request leaves a job half assigned.
THEOREM LeasesMatch == ASSUME OneHandler PROVE Spec => []LeaseMatchesStatus
  <1>1. SInv => LeaseMatchesStatus
    BY DEF SInv, Agrees, LeaseMatchesStatus
  <1>2. QED
    BY <1>1, SerialInvariance, PTL

\* If requests do not overlap, no start, progress, completion, release or sweep brings
\* a cancelled job back.
THEOREM CancelledStays == ASSUME OneHandler PROVE Spec => CancelledIsFinal
  <1>1. IInv /\ SInv /\ [Next]_vars =>
          [\A j \in Jobs : job[j].status = "cancelled" => job'[j].status = "cancelled"]_vars
    BY SerialStep DEF Fenced
  <1>2. QED
    BY <1>1, Invariance, SerialInvariance, PTL DEF Spec, CancelledIsFinal

\* If requests do not overlap, a result or an error is written under the lease in force
\* only.  With overlapping requests run queue_fenced refutes this.
THEOREM OutcomesFenced == ASSUME OneHandler PROVE Spec => OutcomeFenced
  <1>1. IInv /\ SInv /\ [Next]_vars =>
          [\A j \in Jobs :
             /\ job'[j].result # job[j].result => job'[j].result = job[j].lease
             /\ job'[j].error \notin {None, job[j].error} => job'[j].error = job[j].lease]_vars
    BY SerialStep DEF Fenced
  <1>2. QED
    BY <1>1, Invariance, SerialInvariance, PTL DEF Spec, OutcomeFenced
=============================================================================
