----------------------------- MODULE WorkerLoop -----------------------------
(***************************************************************************)
(* The home worker (worker/runtime.py) against the job queue: run_forever, *)
(* run_once and the lease renewal task, over HTTP calls whose answer can   *)
(* be lost.  The server side of every call is the handler of JobQueue; a   *)
(* request is loaded when it is sent (a slow network is a later send), and *)
(* is answered when its handler ends.                                      *)
(***************************************************************************)
EXTENDS JobQueue

CONSTANTS
  MaxFaults,   \* lost answers, timeouts, dead requests, failed polls and crashes of a run
  MaxStops     \* SIGTERMs and cancellations of a run

ASSUME WorkerLoopAssumption == MaxFaults \in Nat /\ MaxStops \in Nat

VARIABLES
  wk,       \* the worker processes: [Workers -> Worker]
  client,   \* who waits for each handler's answer: [Handlers -> ...]
  ran,      \* history: what came of executing under each lease
  faults, stops

workerVars == <<wk, client, ran, faults, stops>>
allVars == <<vars, workerVars>>

\* pc follows run_once.  "idle": between polls; names in -ing wait for an answer.
PCs == {"down", "idle", "claiming", "claimed", "starting", "started", "reporting",
        "executing", "joining", "to_complete", "completing", "to_fail", "failing",
        "to_release", "releasing"}
Tasks == {"none", "sleep", "call", "raised"}
Execs == {"none", "running", "ok", "error"}

\* stray: the leases whose executors were left running, awaited by nobody
Worker == [pc : PCs, token : Tokens \cup {None}, exec : Execs, renew : Tasks,
           stray : SUBSET Tokens, shutdown : BOOLEAN]

Fresh == [pc |-> "idle", token |-> None, exec |-> "none", renew |-> "none",
          stray |-> {}, shutdown |-> FALSE]

\* run_once returns or raises: run_forever polls again, or leaves its loop, and the
\* end of the process ends what was left running
Returned(s) ==
  [s EXCEPT !.pc = IF s.shutdown THEN "down" ELSE "idle", !.token = None,
            !.exec = "none", !.renew = "none",
            !.stray = IF s.shutdown THEN {} ELSE @]

\* the generic except clause: await the renewal task, then report a failure.
\* If the renewal task itself had failed, awaiting it raises again and run_once
\* ends there.  Neither cancels nor awaits the executor, which goes on if it was running.
Raised(s) ==
  LET left == [s EXCEPT !.exec = "none",
                        !.stray = IF s.exec = "running" THEN @ \cup {s.token} ELSE @]
  IN IF s.renew = "raised" THEN Returned(left)
     ELSE [left EXCEPT !.pc = "to_fail", !.renew = "none"]

\* the answer to a call of run_once; t is the lease id a claim returned
MainAnswer(s, ok, t) ==
  CASE s.pc = "claiming" /\ ok /\ t # None -> [s EXCEPT !.pc = "claimed", !.token = t]
    [] s.pc = "starting" /\ ok   -> [s EXCEPT !.pc = "started"]
    [] s.pc = "reporting" /\ ok  -> [s EXCEPT !.pc = "executing", !.exec = "running",
                                              !.renew = "sleep"]
    [] s.pc \in {"starting", "reporting", "completing", "releasing"} /\ ~ok -> Raised(s)
    [] OTHER -> Returned(s)

\* the answer to the renewal task; once stop is set the task ends with its call
RenewAnswer(s, ok) ==
  [s EXCEPT !.renew = IF ~ok THEN "raised"
                      ELSE IF s.pc = "joining" THEN "none" ELSE "sleep"]

Answer(s, task, ok, t) ==
  IF task = "main" THEN MainAnswer(s, ok, t) ELSE RenewAnswer(s, ok)

Fault == faults < MaxFaults /\ faults' = faults + 1
NoFault == faults' = faults

\* worker w moves to s; its renewal call, if it no longer awaits it, is abandoned
Moves(w, s) ==
  /\ wk' = [wk EXCEPT ![w] = s]
  /\ client' = [h \in Handlers |->
                 IF client[h] = <<w, "renew">> /\ s.renew # "call" THEN None ELSE client[h]]

\* handler h ends with this answer, if anyone still waits for it
Deliver(h, ok, t) ==
  IF client[h] = None THEN UNCHANGED <<wk, client>>
  ELSE LET w == client[h][1]
           s == Answer(wk[w], client[h][2], ok, t)
       IN /\ wk' = [wk EXCEPT ![w] = s]
          /\ client' = [g \in Handlers |->
               IF g = h \/ (client[g] = <<w, "renew">> /\ s.renew # "call")
               THEN None ELSE client[g]]

\* a call of w is sent and handler h serves it
Sent(w, task, h, s) ==
  /\ wk' = [wk EXCEPT ![w] = s]
  /\ client' = [client EXCEPT ![h] = <<w, task>>]
  /\ UNCHANGED <<ran, faults, stops>>

Holds(w) == wk[w].token # None /\ HoldsLease(job[granted[wk[w].token]], w, wk[w].token)

-----------------------------------------------------------------------------
(* run_once *)

SendClaim(w, h) ==
  /\ wk[w].pc = "idle" /\ ~wk[w].shutdown
  /\ ClaimSweep(h, w)
  /\ Sent(w, "main", h, [wk[w] EXCEPT !.pc = "claiming"])

\* start, then progress; both end in renew_lease / update_progress
SendStart(w, h) ==
  /\ wk[w].pc \in {"claimed", "started"}
  /\ Renew(h, w, wk[w].token)
  /\ Sent(w, "main", h,
          [wk[w] EXCEPT !.pc = IF @ = "claimed" THEN "starting" ELSE "reporting"])

StartUnserved(w) ==
  /\ wk[w].pc \in {"claimed", "started"}
  /\ Moves(w, Raised(wk[w]))
  /\ IF Holds(w) THEN Fault ELSE NoFault
  /\ UNCHANGED <<vars, ran, stops>>

\* the worker has no executor for the job's type, and is about to say so (which types
\* a worker knows is left open)
Unsupported(w) ==
  /\ wk[w].pc = "claimed"
  /\ wk' = [wk EXCEPT ![w].pc = "to_fail"]
  /\ ran' = [ran EXCEPT ![wk[w].token] = "unsupported"]
  /\ UNCHANGED <<vars, client, faults, stops>>

\* the executor returns or raises, also when it is being cancelled
ExecutorEnds(w, how) ==
  /\ wk[w].pc = "executing" /\ wk[w].exec = "running"
  /\ wk' = [wk EXCEPT ![w].exec = how]
  /\ ran' = [ran EXCEPT ![wk[w].token] = how]
  /\ UNCHANGED <<vars, client, faults, stops>>

\* the two-second poll: stop when the lease ids no longer match or the owner
\* cancelled; lease_status does not look at the deadline
Stale(w, t) ==
  LET r == job[granted[t]]
  IN r.status = "cancelled" \/ r.to # w \/ r.lease # t

LeaseLost(w) == Stale(w, wk[w].token)

\* a poll that looks for cancellation only
CheckCancelled(w) ==
  /\ wk[w].pc = "executing" /\ wk[w].exec = "running" /\ ~wk[w].shutdown
  /\ job[granted[wk[w].token]].status = "cancelled"
  /\ Moves(w, Returned(wk[w]))
  /\ UNCHANGED <<vars, ran, faults, stops>>

CheckLease(w) ==
  /\ wk[w].pc = "executing" /\ wk[w].exec = "running" /\ ~wk[w].shutdown
  /\ LeaseLost(w)
  /\ Moves(w, Returned(wk[w]))
  /\ UNCHANGED <<vars, ran, faults, stops>>

\* the poll is not served, or what stops the executor's own work (_cancel_executor)
\* fails: the executor is left running
CheckUnserved(w) ==
  /\ wk[w].pc = "executing" /\ wk[w].exec = "running"
  /\ Fault
  /\ Moves(w, Raised(wk[w]))
  /\ UNCHANGED <<vars, ran, stops>>

\* a stop that cancels the executor and reports its cancellation as a failure
StopAsFailure(w) ==
  /\ wk[w].pc = "executing" /\ wk[w].exec = "running" /\ wk[w].shutdown
  /\ Moves(w, Raised(wk[w]))
  /\ UNCHANGED <<vars, ran, faults, stops>>

\* a stop that leaves the lease to expire
StopAtOnce(w) ==
  /\ wk[w].pc = "executing" /\ wk[w].exec = "running" /\ wk[w].shutdown
  /\ Moves(w, Returned(wk[w]))
  /\ UNCHANGED <<vars, ran, faults, stops>>

\* SIGTERM while executing: cancel the executor and the renewal, then release
StopExecuting(w) ==
  /\ wk[w].pc = "executing" /\ wk[w].exec = "running" /\ wk[w].shutdown
  /\ Moves(w, IF wk[w].renew = "raised" THEN Returned(wk[w])
              ELSE [wk[w] EXCEPT !.pc = "to_release", !.exec = "none", !.renew = "none"])
  /\ UNCHANGED <<vars, ran, faults, stops>>

\* the result is in: validate it, upload the artifacts if it has any (refused without
\* the lease) and tell the renewal task to stop
Upload(w) ==
  /\ wk[w].pc = "executing" /\ wk[w].exec = "ok"
  /\ NoFault /\ Moves(w, [wk[w] EXCEPT !.pc = "joining"])
  /\ UNCHANGED <<vars, ran, stops>>

UploadRefused(w) ==
  /\ wk[w].pc = "executing" /\ wk[w].exec = "ok"
  /\ IF LeaseLost(w) THEN NoFault ELSE Fault
  /\ Moves(w, Raised(wk[w]))
  /\ UNCHANGED <<vars, ran, stops>>

\* the result or an artifact is not what the code expects of it (ValueError), or the
\* server does not take the file
ResultInvalid(w) ==
  /\ wk[w].pc = "executing" /\ wk[w].exec = "ok"
  /\ ran' = [ran EXCEPT ![wk[w].token] = "invalid"]
  /\ Moves(w, Raised(wk[w]))
  /\ UNCHANGED <<vars, faults, stops>>

ExecutorRaised(w) ==
  /\ wk[w].pc = "executing" /\ wk[w].exec = "error"
  /\ Moves(w, Raised(wk[w]))
  /\ UNCHANGED <<vars, ran, faults, stops>>

\* a join that gives up the result when the process is being stopped
JoinUnlessStopped(w) ==
  /\ wk[w].pc = "joining" /\ wk[w].renew # "call"
  /\ Moves(w, IF wk[w].shutdown THEN Returned(wk[w])
              ELSE [wk[w] EXCEPT !.pc = "to_complete", !.renew = "none"])
  /\ UNCHANGED <<vars, ran, faults, stops>>

\* await renew_task
JoinRenewal(w) ==
  /\ wk[w].pc = "joining" /\ wk[w].renew # "call"
  /\ Moves(w, IF wk[w].renew = "raised" THEN Raised(wk[w])
              ELSE [wk[w] EXCEPT !.pc = "to_complete", !.renew = "none"])
  /\ UNCHANGED <<vars, ran, faults, stops>>

SendComplete(w, h) ==
  /\ wk[w].pc = "to_complete"
  /\ CompleteLoad(h, w, wk[w].token)
  /\ Sent(w, "main", h, [wk[w] EXCEPT !.pc = "completing"])

SendFail(w, h) ==
  /\ wk[w].pc = "to_fail"
  /\ Fail(h, w, wk[w].token)
  /\ Sent(w, "main", h, [wk[w] EXCEPT !.pc = "failing"])

SendRelease(w, h) ==
  /\ wk[w].pc = "to_release"
  /\ Release(h, w, wk[w].token)
  /\ Sent(w, "main", h, [wk[w] EXCEPT !.pc = "releasing"])

\* the last call of run_once is refused, already done, or never arrives; from a
\* completion or a release the except clause goes on to report a failure
LastCallUnserved(w) ==
  LET t == wk[w].token
      r == job[granted[t]]
  IN /\ wk[w].pc \in {"to_fail", "to_release", "to_complete"}
     /\ IF wk[w].pc # "to_complete" /\ (~Holds(w) \/ (r.status = "failed" /\ wk[w].pc = "to_fail"))
        THEN NoFault ELSE Fault
     /\ Moves(w, IF wk[w].pc = "to_fail" THEN Returned(wk[w]) ELSE Raised(wk[w]))
     /\ UNCHANGED <<vars, ran, stops>>

-----------------------------------------------------------------------------
(* _renew_lease *)

RenewTick(w, h) ==
  /\ wk[w].pc = "executing" /\ wk[w].renew = "sleep"
  /\ Renew(h, w, wk[w].token)
  /\ Sent(w, "renew", h, [wk[w] EXCEPT !.renew = "call"])

RenewUnserved(w) ==
  /\ wk[w].pc = "executing" /\ wk[w].renew = "sleep"
  /\ IF Holds(w) THEN Fault ELSE NoFault
  /\ Moves(w, [wk[w] EXCEPT !.renew = "raised"])
  /\ UNCHANGED <<vars, ran, stops>>

-----------------------------------------------------------------------------
(* the process *)

Sigterm(w) ==
  /\ wk[w].pc # "down" /\ ~wk[w].shutdown /\ stops < MaxStops
  /\ stops' = stops + 1
  /\ wk' = [wk EXCEPT ![w] = IF @.pc = "idle" THEN [Fresh EXCEPT !.pc = "down", !.shutdown = TRUE]
                             ELSE [@ EXCEPT !.shutdown = TRUE]]
  /\ UNCHANGED <<vars, client, ran, faults>>

Crash(w) ==
  /\ wk[w].pc # "down"
  /\ Fault
  /\ wk' = [wk EXCEPT ![w] = [Fresh EXCEPT !.pc = "down"]]
  /\ client' = [h \in Handlers |->
                 IF client[h] \in {<<w, "main">>, <<w, "renew">>} THEN None ELSE client[h]]
  /\ UNCHANGED <<vars, ran, stops>>

Restart(w) ==
  /\ wk[w].pc = "down"
  /\ wk' = [wk EXCEPT ![w] = Fresh]
  /\ UNCHANGED <<vars, client, ran, faults, stops>>

\* an executor that was left running ends
StrayEnds(w) ==
  /\ \E t \in wk[w].stray : wk' = [wk EXCEPT ![w].stray = @ \ {t}]
  /\ UNCHANGED <<vars, client, ran, faults, stops>>

-----------------------------------------------------------------------------
(* The server's side of a call, and the network's. *)

\* a handler's step that does not answer yet
Works(h) ==
  \/ call[h].phase = "sweep" /\ Commit(h)
  \/ call[h].phase = "insert" /\ CreateCommit(h)
  \/ \E j \in Jobs, t \in Tokens : ClaimJob(h, j, t)
  \/ RecordLookup(h)

\* a handler's last step and the answer it gives: ok, and the lease id of a claim
Ends(h, ok) ==
  \/ ok /\ call[h].phase = "write" /\ Commit(h)
  \/ ok /\ ClaimNothing(h) /\ call'[h].phase = "idle"
  \/ /\ CompleteAccept(h) /\ call'[h].phase = "idle"
     /\ ok <=> call[h].seen[granted[call[h].token]].status = "succeeded"
  \/ /\ RecordInsert(h) /\ call'[h].phase = "idle"
     /\ ok <=> /\ call[h].seen[granted[call[h].token]].status = "succeeded"
               /\ records' # records
  \/ /\ CompleteReject(h) /\ call'[h].phase = "idle"
     /\ ok <=> call[h].seen[granted[call[h].token]].status = "failed"

\* a handler's step that leaves its commit to be done
Prepares(h) ==
  /\ ClaimNothing(h) \/ CompleteAccept(h) \/ RecordInsert(h) \/ CompleteReject(h)
  /\ call'[h].phase = "write"

ServerStep(h) ==
  /\ Works(h) \/ Prepares(h)
  /\ UNCHANGED workerVars

Answered(h) ==
  \E ok \in BOOLEAN :
    /\ Ends(h, ok)
    /\ Deliver(h, ok, call[h].token)
    /\ UNCHANGED <<ran, faults, stops>>

\* the handler ends, its answer is lost
AnswerLost(h) ==
  /\ client[h] # None
  /\ \E ok \in BOOLEAN : Ends(h, ok)
  /\ Fault
  /\ Deliver(h, FALSE, None)
  /\ UNCHANGED <<ran, stops>>

\* the client gives up; the handler goes on
TimedOut(h) ==
  /\ client[h] # None
  /\ Fault
  /\ Deliver(h, FALSE, None)
  /\ UNCHANGED <<vars, ran, stops>>

\* the request dies with its API process or its database connection
RequestDies(h) ==
  /\ Abort(h)
  /\ Fault
  /\ Deliver(h, FALSE, None)
  /\ UNCHANGED <<ran, stops>>

-----------------------------------------------------------------------------
(* Time and the owner.  A healthy holder renews every 20 s of a 120 s lease, *)
(* so a deadline passes only on a job nobody attends to, or by a fault.      *)

Attended(j) ==
  \E w \in Workers :
    /\ job[j].lease = wk[w].token /\ job[j].to = w
    /\ wk[w].pc \notin {"down", "idle"}
    /\ wk[w].pc = "executing" => wk[w].renew # "raised"

Deadline(j) ==
  /\ Expire(j)
  /\ IF Attended(j) THEN Fault ELSE NoFault
  /\ UNCHANGED <<wk, client, ran, stops>>

Owner(h) ==
  /\ \/ CreateLookup(h, None) /\ UNCHANGED stops
     \/ /\ stops < MaxStops /\ stops' = stops + 1
        /\ \E j \in Jobs : CancelJob(h, j)
  /\ UNCHANGED <<wk, client, ran, faults>>

InitLoop ==
  /\ Init
  /\ wk = [w \in Workers |-> Fresh]
  /\ client = [h \in Handlers |-> None]
  /\ ran = [t \in Tokens |-> "none"]
  /\ faults = 0 /\ stops = 0

Sends(w, h) ==
  \/ SendClaim(w, h) \/ SendStart(w, h) \/ SendComplete(w, h)
  \/ SendFail(w, h) \/ SendRelease(w, h)

WorkerStep(w) ==
  \/ CheckLease(w) \/ StopExecuting(w) \/ ExecutorRaised(w)
  \/ Upload(w) \/ UploadRefused(w) \/ ResultInvalid(w)
  \/ JoinRenewal(w) \/ StartUnserved(w) \/ LastCallUnserved(w)

NextLoop ==
  \/ \E h \in Handlers :
        ServerStep(h) \/ Answered(h) \/ AnswerLost(h) \/ TimedOut(h)
          \/ RequestDies(h) \/ Owner(h)
  \/ \E w \in Workers :
        \/ \E h \in Handlers : Sends(w, h) \/ RenewTick(w, h)
        \/ \E how \in {"ok", "error"} : ExecutorEnds(w, how)
        \/ Unsupported(w) \/ StrayEnds(w)
        \/ WorkerStep(w) \/ CheckUnserved(w) \/ RenewUnserved(w)
        \/ Sigterm(w) \/ Crash(w) \/ Restart(w)
  \/ \E j \in Jobs : Deadline(j)

SpecLoop == InitLoop /\ [][NextLoop]_allVars

\* Handlers, workers and the clock do not stop, and a worker that is down is
\* restarted; a call is eventually taken up, because the API is not saturated for
\* ever.  An executor need not end.
Fairness ==
  /\ \A h \in Handlers : WF_allVars(ServerStep(h) \/ Answered(h))
  /\ \A w \in Workers :
       /\ WF_allVars(WorkerStep(w))
       /\ WF_allVars(Restart(w))
       /\ SF_allVars(\E h \in Handlers : Sends(w, h))
  /\ \A j \in Jobs : WF_allVars(Deadline(j))

FairLoop == SpecLoop /\ Fairness

-----------------------------------------------------------------------------
\* Every job ends unless some executor never does, whatever finite number of
\* answers, requests and workers are lost on the way (run_forever's backoff, lease
\* expiry, requeue and re-claim).
EveryJobEnds ==
  \/ \A j \in Jobs : job[j].status # "absent" ~> job[j].status \in Terminal
  \/ <>[](\E w \in Workers : wk[w].exec = "running")

\* A worker whose lease is gone, to expiry, cancellation or release, stops its
\* executor even if that would go on for ever (lease_status poll), unless the poll or
\* the cancellation itself fails, which leaves it running.
StaleWorkerStops ==
  \A w \in Workers, t \in Tokens :
    (wk[w].exec = "running" /\ wk[w].token = t /\ Stale(w, t))
      ~> (wk[w].token # t \/ t \in wk[w].stray)

\* Without faults a job fails only because its executor failed or returned something
\* invalid, or because there was none, and never because its worker was stopped or its
\* lease was lost.  So it is for up to two overlapping
\* requests.  With three it is not: a cancellation and two claims load one row and are
\* committed after one another, the second worker's start is refused on the cancelled
\* row, the first worker's start, loaded before, makes the row run again, and the
\* second worker's report of a failure is accepted.
FailureIsReal ==
  \A j \in Jobs :
    job[j].error # None => ran[job[j].error] \in {"error", "invalid", "unsupported"}

Crashes(w) == wk'[w].pc = "down" /\ ~wk'[w].shutdown

\* SIGTERM: a worker that stops its executor while it holds the lease goes on to
\* release it (docs/worker-protocol.md, Compatibility and cancellation).
ReleasesBeforeStopping ==
  [][\A w \in Workers :
       wk[w].exec = "running" /\ Holds(w) /\ ~Crashes(w) => wk'[w].pc # "down"]_allVars

\* A worker with a finished result and a lease in force goes on to report it.
FinishedWorkReported ==
  [][\A w \in Workers :
       wk[w].pc = "joining" /\ Holds(w) /\ ~Crashes(w) => wk'[w].token = wk[w].token]_allVars
=============================================================================
