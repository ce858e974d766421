------------------------------ MODULE JobQueue ------------------------------
(***************************************************************************)
(* The durable job queue of the control plane: services/jobs.py and the    *)
(* worker routes that call it.  PostgreSQL runs at READ COMMITTED and no   *)
(* handler locks a row, so a handler is two steps with a gap between them: *)
(* it loads rows (and checks what it loaded), and later commits an UPDATE  *)
(* of the columns it changed.  Handlers are the requests in flight at a    *)
(* time; with one handler requests do not overlap.                         *)
(***************************************************************************)
EXTENDS Integers, FiniteSets

CONSTANTS
  JobCount,   \* how many rows the jobs table may come to hold
  Workers,    \* worker ids
  Tokens,     \* the lease ids uuid4 may draw
  Handlers,   \* requests the API serves at once
  Keys,       \* idempotency keys
  Caps,       \* capabilities, models and runtimes a job may require
  Requires,   \* [Jobs -> SUBSET Caps] required_capabilities of a job
  AlsoNeeds,  \* [Jobs -> SUBSET Caps] payload required_models/required_runtimes
  Offers,     \* [Workers -> SUBSET Caps] what a worker registered with
  Kind,       \* [Jobs -> Kinds] what completing the job also inserts
  ScanLimit,  \* rows a claim looks at (100 in the code)
  MaxRecords, \* domain rows counted per job and lease
  Prompt,     \* whether every request ends within a lease set after it loaded the row
  None

Jobs == 1..JobCount
Kinds == {"plain", "once", "each"}

ASSUME JobQueueAssumption ==
  /\ JobCount \in Nat /\ ScanLimit \in Nat /\ MaxRecords \in Nat /\ Prompt \in BOOLEAN
  /\ IsFiniteSet(Tokens)
  /\ Requires \in [Jobs -> SUBSET Caps] /\ AlsoNeeds \in [Jobs -> SUBSET Caps]
  /\ Offers \in [Workers -> SUBSET Caps] /\ Kind \in [Jobs -> Kinds]
  /\ None \notin Workers \cup Tokens \cup Keys \cup Jobs

VARIABLES
  job,      \* the jobs table: [Jobs -> Row]
  call,     \* the request each handler is serving: [Handlers -> Call]
  granted,  \* history: the job each lease id was committed on, or None
  records   \* domain rows inserted for a job by completions under a lease

vars == <<job, call, granted, records>>

-----------------------------------------------------------------------------
(* Rows.  A deadline is abstracted to none, in the future or passed; a     *)
(* handler that sets one writes "fresh", which always differs from what it *)
(* loaded.  result and error are the lease under which they were reported. *)

Active   == {"leased", "running"}
Terminal == {"succeeded", "failed", "cancelled"}
Waiting  == {"queued", "waiting_for_worker"}
Status   == {"absent"} \cup Waiting \cup Active \cup Terminal

Row == [status : Status, key : Keys \cup {None}, to : Workers \cup {None},
        lease : Tokens \cup {None}, exp : {"none", "live", "past", "fresh"},
        attempt : Nat, result : Tokens \cup {None}, error : Tokens \cup {None}]

NoRow == [status |-> "absent", key |-> None, to |-> None, lease |-> None,
          exp |-> "none", attempt |-> 0, result |-> None, error |-> None]

\* status="waiting_for_worker" if required_capabilities else "queued"
Ready(j) == IF Requires[j] # {} THEN "waiting_for_worker" ELSE "queued"

Created(j, k) == [NoRow EXCEPT !.status = Ready(j), !.key = k]

Requeued(j, r) ==
  [r EXCEPT !.status = Ready(j), !.to = None, !.lease = None, !.exp = "none"]

Leased(r, w, t) ==
  [r EXCEPT !.status = "leased", !.to = w, !.lease = t, !.exp = "fresh",
            !.attempt = @ + 1]

\* a start that counts as another attempt
RenewedCounting(r) == [r EXCEPT !.status = "running", !.exp = "fresh", !.attempt = @ + 1]

Renewed(r) == [r EXCEPT !.status = "running", !.exp = "fresh"]

\* a cancellation that leaves the lease on the row
CancelledHolding(r) == [r EXCEPT !.status = "cancelled", !.exp = "none"]

Cancelled(r) ==
  [r EXCEPT !.status = "cancelled", !.to = None, !.lease = None, !.exp = "none"]

Succeeded(r, t) ==
  [r EXCEPT !.status = "succeeded", !.result = t, !.error = None, !.exp = "none"]

Failed(r, t) == [r EXCEPT !.status = "failed", !.error = t, !.exp = "none"]

\* a check of the worker alone
HoldsAnyLease(r, w, t) == r.status # "cancelled" /\ r.to = w /\ r.exp # "past"

\* _require_lease: the check every worker write makes on the row it loaded
HoldsLease(r, w, t) ==
  /\ r.status # "cancelled"
  /\ r.to = w /\ r.lease = t
  /\ r.exp # "past"

Compatible(w, j) == Requires[j] \cup AlsoNeeds[j] \subseteq Offers[w]

-----------------------------------------------------------------------------
(* The session's unit of work: an UPDATE names only the columns whose new  *)
(* value differs from the loaded one, and is keyed by the id alone.        *)

Column(cur, seen, new) == IF new = seen THEN cur ELSE new

\* an UPDATE of every column, whether it changed or not
FlushAll(cur, seen, new) == [new EXCEPT !.exp = IF @ = "fresh" THEN "live" ELSE @]

\* an UPDATE that compares deadlines like any other column
FlushRaw(cur, seen, new) ==
  [FlushAll(cur, seen, new) EXCEPT !.exp = Column(cur.exp, seen.exp, new.exp)]

Flush(cur, seen, new) ==
  [status  |-> Column(cur.status, seen.status, new.status),
   key     |-> Column(cur.key, seen.key, new.key),
   to      |-> Column(cur.to, seen.to, new.to),
   lease   |-> Column(cur.lease, seen.lease, new.lease),
   exp     |-> IF new.exp = "fresh" THEN "live" ELSE Column(cur.exp, seen.exp, new.exp),
   attempt |-> Column(cur.attempt, seen.attempt, new.attempt),
   result  |-> Column(cur.result, seen.result, new.result),
   error   |-> Column(cur.error, seen.error, new.error)]

Phases == {"idle", "sweep", "scan", "complete", "record", "write", "insert"}

Call == [phase : Phases, worker : Workers \cup {None}, token : Tokens \cup {None},
         key : Keys \cup {None}, rows : SUBSET Jobs,
         seen : [Jobs -> Row], new : [Jobs -> Row]]

NoRows == [j \in Jobs |-> NoRow]

Idle == [phase |-> "idle", worker |-> None, token |-> None, key |-> None,
         rows |-> {}, seen |-> NoRows, new |-> NoRows]

\* the handler has loaded the rows S and will commit `new` for them
Serving(phase, w, t, S, new) ==
  [phase |-> phase, worker |-> w, token |-> t, key |-> None, rows |-> S,
   seen |-> [j \in Jobs |-> IF j \in S THEN job[j] ELSE NoRow],
   new |-> [j \in Jobs |-> IF j \in S THEN new[j] ELSE NoRow]]

Only(r) == [i \in Jobs |-> r]

Free(h) == call[h].phase = "idle"
Take(h, c) == call' = [call EXCEPT ![h] = c]

\* the request ends: answered, refused, or its process or database died
Abort(h) ==
  /\ ~Free(h)
  /\ Take(h, Idle)
  /\ UNCHANGED <<job, granted, records>>

-----------------------------------------------------------------------------
(* The owner's handlers: create_job and cancel_job. *)

\* create_job, first half: no row has the key yet, so an INSERT is built
CreateLookup(h, k) ==
  /\ Free(h)
  /\ k # None => \A j \in Jobs : job[j].key # k
  /\ \E j \in Jobs : job[j].status = "absent"
  /\ Take(h, [Idle EXCEPT !.phase = "insert", !.key = k])
  /\ UNCHANGED <<job, granted, records>>

\* a commit without uq_jobs_idempotency
CreateCommitUnchecked(h) ==
  /\ call[h].phase = "insert"
  /\ \E j \in Jobs : /\ job[j].status = "absent"
                     /\ \A i \in 1..(j - 1) : job[i].status # "absent"
                     /\ job' = [job EXCEPT ![j] = Created(j, call[h].key)]
  /\ Take(h, Idle)
  /\ UNCHANGED <<granted, records>>

\* create_job, second half: the unique constraint turns the INSERT of a key
\* that appeared meanwhile into IntegrityError, and the existing row is returned
CreateCommit(h) ==
  /\ call[h].phase = "insert"
  /\ \/ /\ call[h].key = None \/ \A j \in Jobs : job[j].key # call[h].key
        /\ \E j \in Jobs : /\ job[j].status = "absent"
                           /\ \A i \in 1..(j - 1) : job[i].status # "absent"
                           /\ job' = [job EXCEPT ![j] = Created(j, call[h].key)]
     \/ /\ call[h].key # None /\ \E j \in Jobs : job[j].key = call[h].key
        /\ UNCHANGED job
  /\ Take(h, Idle)
  /\ UNCHANGED <<granted, records>>

\* cancel_job up to its commit; a terminal job is returned as it is
CancelJob(h, j) ==
  /\ Free(h)
  /\ job[j].status \notin Terminal \cup {"absent"}
  /\ Take(h, Serving("write", None, None, {j}, Only(Cancelled(job[j]))))
  /\ UNCHANGED <<job, granted, records>>

-----------------------------------------------------------------------------
(* claim_job: sweep expired leases, commit, scan the queue, commit. *)

\* a sweep that forgets the running jobs
SweepLeased(h, w) ==
  LET expired == {j \in Jobs : job[j].status = "leased" /\ job[j].exp = "past"}
  IN /\ Free(h)
     /\ Take(h, Serving("sweep", w, None, expired, [j \in Jobs |-> Requeued(j, job[j])]))
     /\ UNCHANGED <<job, granted, records>>

\* _requeue_expired up to its commit
ClaimSweep(h, w) ==
  LET expired == {j \in Jobs : job[j].status \in Active /\ job[j].exp = "past"}
  IN /\ Free(h)
     /\ Take(h, Serving("sweep", w, None, expired, [j \in Jobs |-> Requeued(j, job[j])]))
     /\ UNCHANGED <<job, granted, records>>

\* a scan for rows without a lease, whatever their status
ScannedUnleased == {j \in Jobs : job[j].status # "absent" /\ job[j].lease = None}

\* the oldest ScanLimit rows that wait for a worker
Scanned ==
  LET queue == {j \in Jobs : job[j].status \in Waiting}
  IN {j \in queue : Cardinality({i \in queue : i <= j}) <= ScanLimit}

\* uuid4 never repeats a lease id
Unused(t) == granted[t] = None /\ \A g \in Handlers : call[g].token # t

\* rows passed over while looking for a compatible one stop being "queued"
Parked(S) == {i \in S : job[i].status = "queued"}

ParkedAs(i) == [job[i] EXCEPT !.status = "waiting_for_worker"]

ClaimNothing(h) ==
  LET w == call[h].worker
      parked == Parked(Scanned)
  IN /\ call[h].phase = "scan"
     /\ \A j \in Scanned : ~Compatible(w, j)
     /\ Take(h, IF parked = {} THEN Idle
                ELSE Serving("write", w, None, parked, [i \in Jobs |-> ParkedAs(i)]))
     /\ UNCHANGED <<job, granted, records>>

ClaimJob(h, j, t) ==
  LET w == call[h].worker
      parked == Parked({i \in Scanned : i < j})
  IN /\ call[h].phase = "scan"
     /\ j \in Scanned /\ Compatible(w, j)
     /\ \A i \in Scanned : i < j => ~Compatible(w, i)
     /\ Unused(t)
     /\ Take(h, Serving("write", w, t, parked \cup {j},
                        [i \in Jobs |-> IF i = j THEN Leased(job[j], w, t) ELSE ParkedAs(i)]))
     /\ UNCHANGED <<job, granted, records>>

-----------------------------------------------------------------------------
(* The worker's handlers.  A request names a job and a lease id; whichever *)
(* worker sends it, both came from one claim response, so job = granted[t].*)

\* load the row, require the lease, leave `new` to be committed
LeaseWrite(h, w, t, new) ==
  LET j == granted[t]
  IN /\ Free(h)
     /\ j # None
     /\ HoldsLease(job[j], w, t)
     /\ Take(h, Serving("write", w, t, {j}, Only(new)))
     /\ UNCHANGED <<job, granted, records>>

\* start, heartbeat and progress: renew_lease and update_progress
Renew(h, w, t) == LeaseWrite(h, w, t, Renewed(job[granted[t]]))

Release(h, w, t) ==
  LeaseWrite(h, w, t, Requeued(granted[t], job[granted[t]]))

Fail(h, w, t) ==
  /\ granted[t] # None
  /\ ~(job[granted[t]].status = "failed" /\ job[granted[t]].lease = t)
  /\ LeaseWrite(h, w, t, Failed(job[granted[t]], t))

\* the complete route loads the row ...
CompleteLoad(h, w, t) ==
  /\ Free(h)
  /\ granted[t] # None
  /\ Take(h, Serving("complete", w, t, {granted[t]}, NoRows))
  /\ UNCHANGED <<job, granted, records>>

\* a manifest or diagnostic of the job
OnRecord(j) == \E t \in Tokens : records[j][t] > 0

Inserted(j, t) == [records EXCEPT ![j][t] = @ + 1]

\* ... and, when what the job type calls for is there, asks of the row it loaded whether
\* this is the holder
Settle(h, j, again, new) ==
  LET c == call[h]
  IN Take(h, IF ~again /\ HoldsLease(c.seen[j], c.worker, c.token)
             THEN [c EXCEPT !.phase = "write", !.new[j] = new]
             ELSE Idle)

\* complete_job
Complete(h) ==
  LET c == call[h]
      j == granted[c.token]
      r == c.seen[j]
  IN Settle(h, j, r.status = "succeeded" /\ r.lease = c.token, Succeeded(r, c.token))

\* a plain job, or one whose manifest an earlier request inserted, is completed at
\* once; a style profile or plan draft is inserted every time
CompleteAccept(h) ==
  LET c == call[h]
      j == granted[c.token]
  IN /\ c.phase = "complete"
     /\ Kind[j] = "once" => OnRecord(j)
     /\ records' = IF Kind[j] = "each" /\ records[j][c.token] < MaxRecords
                   THEN Inserted(j, c.token) ELSE records
     /\ Complete(h)
     /\ UNCHANGED <<job, granted>>

\* persist_generation_manifest and its likes up to the commit: no manifest is there
RecordLookup(h) ==
  LET c == call[h]
      j == granted[c.token]
  IN /\ c.phase = "complete"
     /\ Kind[j] = "once" /\ ~OnRecord(j)
     /\ Take(h, [c EXCEPT !.phase = "record"])
     /\ UNCHANGED <<job, granted, records>>

\* an INSERT without the unique constraint on job_id
RecordInsertUnchecked(h) ==
  LET c == call[h]
      j == granted[c.token]
  IN /\ c.phase = "record"
     /\ records' = Inserted(j, c.token)
     /\ Complete(h)
     /\ UNCHANGED <<job, granted>>

\* the commit: if one appeared meanwhile, the unique job_id turns the INSERT into an
\* IntegrityError, which nobody catches
RecordInsert(h) ==
  LET c == call[h]
      j == granted[c.token]
  IN /\ c.phase = "record"
     /\ \/ ~OnRecord(j) /\ records' = Inserted(j, c.token) /\ Complete(h)
        \/ OnRecord(j) /\ Take(h, Idle) /\ UNCHANGED records
     /\ UNCHANGED <<job, granted>>

\* the result is refused (ValueError) and the route calls fail_job instead
CompleteReject(h) ==
  LET c == call[h]
      j == granted[c.token]
      r == c.seen[j]
  IN /\ c.phase = "complete"
     /\ Kind[j] # "plain"
     /\ Settle(h, j, r.status = "failed" /\ r.lease = c.token, Failed(r, c.token))
     /\ UNCHANGED <<job, granted, records>>

-----------------------------------------------------------------------------
\* the row a commit puts under a new lease, if it is a claim's commit
Installed(c) ==
  {j \in c.rows : /\ c.token # None /\ c.new[j].lease = c.token
                   /\ c.seen[j].lease # c.token}

\* session.commit(): the columns that changed reach the table
Commit(h) ==
  LET c == call[h]
  IN /\ c.phase \in {"sweep", "write"}
     /\ job' = [j \in Jobs |-> IF j \in c.rows
                               THEN Flush(job[j], c.seen[j], c.new[j]) ELSE job[j]]
     /\ granted' = IF Installed(c) = {} THEN granted
                   ELSE [granted EXCEPT ![c.token] = CHOOSE j \in Installed(c) : TRUE]
     /\ Take(h, IF c.phase = "sweep" THEN [Idle EXCEPT !.phase = "scan", !.worker = c.worker]
                ELSE Idle)
     /\ UNCHANGED records

\* the deadline passes, also the copy of it an unfinished complete loaded
Expire(j) ==
  /\ job[j].exp = "live"
  /\ Prompt => \A h \in Handlers : j \in call[h].rows => call[h].seen[j].exp = "live"
  /\ job' = [job EXCEPT ![j].exp = "past"]
  /\ call' = [h \in Handlers |->
               IF /\ call[h].phase \in {"complete", "record"} /\ j \in call[h].rows
                  /\ call[h].seen[j].exp = "live"
               THEN [call[h] EXCEPT !.seen[j].exp = "past"] ELSE call[h]]
  /\ UNCHANGED <<granted, records>>

Init ==
  /\ job = [j \in Jobs |-> NoRow]
  /\ call = [h \in Handlers |-> Idle]
  /\ granted = [t \in Tokens |-> None]
  /\ records = [j \in Jobs |-> [t \in Tokens |-> 0]]

OwnerRequest(h) ==
  \/ \E k \in Keys \cup {None} : CreateLookup(h, k)
  \/ CreateCommit(h)
  \/ \E j \in Jobs : CancelJob(h, j)

ClaimRequest(h) ==
  \/ \E w \in Workers : ClaimSweep(h, w)
  \/ ClaimNothing(h)
  \/ \E j \in Jobs, t \in Tokens : ClaimJob(h, j, t)

LeaseRequest(h) ==
  \/ \E w \in Workers, t \in Tokens :
        Renew(h, w, t) \/ Release(h, w, t) \/ Fail(h, w, t) \/ CompleteLoad(h, w, t)
  \/ CompleteAccept(h) \/ RecordLookup(h) \/ RecordInsert(h) \/ CompleteReject(h)

Next ==
  \/ \E h \in Handlers :
        OwnerRequest(h) \/ ClaimRequest(h) \/ LeaseRequest(h) \/ Commit(h) \/ Abort(h)
  \/ \E j \in Jobs : Expire(j)

Spec == Init /\ [][Next]_vars

-----------------------------------------------------------------------------
(* What holds however requests interleave. *)

\* The state has the shape the definitions above expect; no "fresh" deadline
\* survives a commit.
TypeOK ==
  /\ job \in [Jobs -> Row] /\ \A j \in Jobs : job[j].exp # "fresh"
  /\ call \in [Handlers -> Call]
  /\ granted \in [Tokens -> Jobs \cup {None}]
  /\ records \in [Jobs -> [Tokens -> Nat]]

\* The attempt counter never runs ahead of the claims committed on the job, even
\* where concurrent claims lose an increment.
AttemptsAreClaims ==
  \A j \in Jobs : job[j].attempt <= Cardinality({t \in Tokens : granted[t] = j})

\* However create_job calls race, one idempotency key names one job.
OneJobPerKey ==
  \A i, j \in Jobs : job[i].key # None /\ job[i].key = job[j].key => i = j

\* However completions overlap and repeat, under one lease or under several, a job has
\* at most one manifest or diagnostic.
OneManifestPerJob ==
  \A j \in Jobs : Kind[j] = "once" =>
    \A t, u \in Tokens : records[j][t] > 0 /\ records[j][u] > 0 => t = u /\ records[j][t] = 1

\* The queue implements the lease service.
leases == INSTANCE LeaseService
            WITH Resources <- Jobs, Ids <- Tokens, Nobody <- None,
                 holder <- [j \in Jobs |-> job[j].lease],
                 spent <- {t \in Tokens : granted[t] # None}
ImplementsLeases == leases!Spec

-----------------------------------------------------------------------------
(* What holds of requests that do not overlap (one handler). *)

\* Status, owner, lease and deadline agree: an active job has all three, a waiting
\* or cancelled one has none, a finished one keeps the lease without a deadline.
LeaseMatchesStatus ==
  \A j \in Jobs :
    LET r == job[j]
    IN /\ r.status \in Active => r.to # None /\ r.lease # None /\ r.exp # "none"
       /\ r.status \in Waiting \cup {"cancelled"} =>
            r.to = None /\ r.lease = None /\ r.exp = "none"
       /\ r.status \in {"succeeded", "failed"} => r.lease # None /\ r.exp = "none"

\* A cancelled job stays cancelled: no late start, progress, completion, release
\* or sweep brings it back.
CancelledIsFinal ==
  [][\A j \in Jobs : job[j].status = "cancelled" => job'[j].status = "cancelled"]_vars

\* An outcome is written only for the lease in force at that moment: the result of
\* a stale attempt never replaces that of a newer one.
OutcomeFenced ==
  [][\A j \in Jobs :
       /\ job'[j].result # job[j].result => job'[j].result = job[j].lease
       /\ job'[j].error \notin {None, job[j].error} => job'[j].error = job[j].lease]_vars

-----------------------------------------------------------------------------
(* What the documentation says, and the code does not do. *)

\* Repeating a completion of one attempt records its result once.
CompletionIdempotent ==
  \A j \in Jobs, t \in Tokens : records[j][t] <= 1
=============================================================================
