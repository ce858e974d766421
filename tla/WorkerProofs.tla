---------------------------- MODULE WorkerProofs ----------------------------
(***************************************************************************)
(* What holds of the worker loop, for any number of jobs, workers and      *)
(* lease ids.                                                              *)
(*                                                                         *)
(* With any faults.  A worker that serves a job has a lease id (Shapes),   *)
(* so every step of the loop is one that the queue allows: what is proved  *)
(* of JobQueue holds behind the loop.                                      *)
(*                                                                         *)
(* Without faults.  Every way out of run_once ends its executor first, and *)
(* none is left running (Lone).                                            *)
(*                                                                         *)
(* Without faults, and with requests served one after the other.  The call *)
(* in flight is that of the worker that awaits it, under the lease that    *)
(* worker has (Awaits, Presents), and while none is in flight under a lease*)
(* that was lost nothing brings it back (LeaseNotRegained).  So a worker   *)
(* that goes on to report a failure has one to report, or presents a lease *)
(* that no row has any more (Known).                                       *)
(***************************************************************************)
EXTENDS WorkerLoop, JobQueueProofs

-----------------------------------------------------------------------------
(* The shape of the loop's state, whatever is lost on the way. *)

\* no lease id yet, or no longer
Idling == {"down", "idle", "claiming"}

\* a worker process, with a lease id while it serves a job
Fits(s) == s \in Worker /\ (s.pc \notin Idling => s.token \in Tokens)

Shapes ==
  /\ wk \in [Workers -> Worker]
  /\ \A w \in Workers : Fits(wk[w])
  /\ client \in [Handlers -> {None} \cup (Workers \X {"main", "renew"})]

\* run_once ends ...
LEMMA ReturnFits == ASSUME NEW s, Fits(s) PROVE Fits(Returned(s))
  BY DEF Fits, Returned, Worker, PCs, Idling, Execs, Tasks

\* ... or goes on to report a failure.
LEMMA EndsFit ==
  ASSUME NEW s, Fits(s)
  PROVE  Fits(Returned(s)) /\ (s.pc \notin Idling => Fits(Raised(s)))
  <1>1. Fits(Returned(s))
    BY ReturnFits
  <1>2. ASSUME s.pc \notin Idling PROVE Fits(Raised(s))
    <2> DEFINE left == [s EXCEPT !.exec = "none",
                                 !.stray = IF s.exec = "running" THEN @ \cup {s.token} ELSE @]
    <2>1. left \in Worker /\ left.token = s.token /\ left.pc = s.pc /\ left.renew = s.renew
      BY <1>2 DEF Fits, Worker, Execs
    <2>2. Fits(left)
      BY <2>1 DEF Fits
    <2>3. Fits(Returned(left))
      BY <2>2, ReturnFits
    <2>4. Fits([left EXCEPT !.pc = "to_fail", !.renew = "none"])
      <3>1. left.token \in Tokens
        BY <1>2, <2>1 DEF Fits
      <3> HIDE DEF left
      <3>2. QED
        BY <2>1, <3>1 DEF Fits, Worker, PCs, Tasks
    <2>5. Raised(s) = IF s.renew = "raised" THEN Returned(left)
                      ELSE [left EXCEPT !.pc = "to_fail", !.renew = "none"]
      BY DEF Raised
    <2> HIDE DEF left
    <2>6. QED
      BY <2>3, <2>4, <2>5
  <1>3. QED
    BY <1>1, <1>2

\* The answer to any call leaves a worker in shape.
LEMMA AnswerFits ==
  ASSUME NEW s, Fits(s), NEW task, NEW ok \in BOOLEAN, NEW t \in Tokens \cup {None}
  PROVE  Fits(Answer(s, task, ok, t))
  <1>1. Fits(RenewAnswer(s, ok))
    BY DEF Fits, RenewAnswer, Worker, Tasks
  <1>2. Fits([s EXCEPT !.pc = "claimed", !.token = t]) \/ t = None
    BY DEF Fits, Worker, PCs
  <1>3. ASSUME s.pc \notin Idling
        PROVE  /\ Fits([s EXCEPT !.pc = "started"])
               /\ Fits([s EXCEPT !.pc = "executing", !.exec = "running", !.renew = "sleep"])
    BY <1>3 DEF Fits, Worker, PCs, Execs, Tasks
  <1>4. /\ "starting" \notin Idling /\ "reporting" \notin Idling
        /\ "completing" \notin Idling /\ "releasing" \notin Idling
    BY DEF Idling
  <1>5. \/ MainAnswer(s, ok, t) = Returned(s)
        \/ t # None /\ MainAnswer(s, ok, t) = [s EXCEPT !.pc = "claimed", !.token = t]
        \/ /\ s.pc \notin Idling
           /\ \/ MainAnswer(s, ok, t) = Raised(s)
              \/ MainAnswer(s, ok, t) = [s EXCEPT !.pc = "started"]
              \/ MainAnswer(s, ok, t) = [s EXCEPT !.pc = "executing", !.exec = "running",
                                                 !.renew = "sleep"]
    BY <1>4 DEF MainAnswer
  <1>6. Fits(MainAnswer(s, ok, t))
    BY <1>2, <1>3, <1>5, EndsFit
  <1>7. QED
    BY <1>1, <1>6 DEF Answer

\* A worker moves on its own ...
LEMMA MovesFit ==
  ASSUME Shapes, NEW w \in Workers, NEW s, Fits(s), Moves(w, s)
  PROVE  Shapes'
  <1>1. wk' = [wk EXCEPT ![w] = s] /\ s \in Worker
    BY DEF Moves, Fits
  <1>2. wk' \in [Workers -> Worker] /\ \A v \in Workers : wk'[v] = IF v = w THEN s ELSE wk[v]
    BY <1>1 DEF Shapes
  <1>3. client' \in [Handlers -> {None} \cup (Workers \X {"main", "renew"})]
    BY DEF Moves, Shapes
  <1>4. \A v \in Workers : Fits(wk'[v])
    BY <1>2 DEF Shapes
  <1>5. QED
    BY <1>2, <1>3, <1>4 DEF Shapes, Fits

\* ... sends a call ...
LEMMA SentFits ==
  ASSUME Shapes, NEW w \in Workers, NEW task \in {"main", "renew"}, NEW h \in Handlers, NEW s,
         Fits(s), Sent(w, task, h, s)
  PROVE  Shapes'
  <1>1. wk' = [wk EXCEPT ![w] = s] /\ s \in Worker
    BY DEF Sent, Fits
  <1>2. wk' \in [Workers -> Worker] /\ \A v \in Workers : wk'[v] = IF v = w THEN s ELSE wk[v]
    BY <1>1 DEF Shapes
  <1>3. client' \in [Handlers -> {None} \cup (Workers \X {"main", "renew"})]
    BY DEF Sent, Shapes
  <1>4. \A v \in Workers : Fits(wk'[v])
    BY <1>2 DEF Shapes
  <1>5. QED
    BY <1>2, <1>3, <1>4 DEF Shapes, Fits

\* ... or is answered.
LEMMA DeliverFits ==
  ASSUME Shapes, NEW h \in Handlers, NEW ok \in BOOLEAN, NEW t \in Tokens \cup {None},
         Deliver(h, ok, t)
  PROVE  Shapes'
  <1>1. CASE client[h] = None
    BY <1>1 DEF Deliver, Shapes, Fits
  <1>2. CASE client[h] # None
    <2>1. PICK w \in Workers, task \in {"main", "renew"} : client[h] = <<w, task>>
      BY <1>2 DEF Shapes
    <2>2. client[h][1] = w /\ client[h][2] = task
      BY <2>1
    <2> DEFINE s == Answer(wk[w], task, ok, t)
    <2>3. Fits(s)
      BY AnswerFits DEF Shapes
    <2>4. /\ wk' = [wk EXCEPT ![w] = s]
          /\ client' = [g \in Handlers |->
               IF g = h \/ (client[g] = <<w, "renew">> /\ s.renew # "call")
               THEN None ELSE client[g]]
      BY <1>2, <2>2 DEF Deliver
    <2> HIDE DEF s
    <2>5. wk' \in [Workers -> Worker] /\ \A v \in Workers : wk'[v] = IF v = w THEN s ELSE wk[v]
      BY <2>3, <2>4 DEF Shapes, Fits
    <2>6. client' \in [Handlers -> {None} \cup (Workers \X {"main", "renew"})]
      BY <2>4 DEF Shapes
    <2>7. \A v \in Workers : Fits(wk'[v])
      BY <2>3, <2>5 DEF Shapes
    <2>8. QED
      BY <2>5, <2>6, <2>7 DEF Shapes, Fits
  <1>3. QED
    BY <1>1, <1>2

\* Every step keeps the shape, and the token a call carries is a lease id.
LEMMA ShapesStep ==
  ASSUME IInv, Shapes, [NextLoop]_allVars
  PROVE  Shapes'
  <1>1. CASE UNCHANGED allVars
    BY <1>1 DEF allVars, workerVars, Shapes, Fits
  <1>2. ASSUME NEW h \in Handlers,
               ServerStep(h) \/ Answered(h) \/ AnswerLost(h) \/ TimedOut(h) \/ RequestDies(h)
                 \/ Owner(h)
        PROVE  Shapes'
    <2>1. CASE ServerStep(h) \/ Owner(h)
      BY <2>1 DEF ServerStep, Owner, workerVars, Shapes, Fits
    <2>2. call[h].token \in Tokens \cup {None}
      BY DEF IInv, TypeOK, Call
    <2>3. CASE Answered(h)
      BY <2>2, <2>3, DeliverFits DEF Answered
    <2>4. CASE AnswerLost(h) \/ TimedOut(h) \/ RequestDies(h)
      BY <2>4, DeliverFits DEF AnswerLost, TimedOut, RequestDies
    <2>5. QED
      BY <1>2, <2>1, <2>3, <2>4
  <1>3. ASSUME NEW w \in Workers, NEW h \in Handlers, Sends(w, h) \/ RenewTick(w, h)
        PROVE  Shapes'
    <2>1. Fits(wk[w])
      BY DEF Shapes
    <2>2. CASE SendClaim(w, h)
      <3>1. Fits([wk[w] EXCEPT !.pc = "claiming"])
        BY <2>1 DEF Fits, Worker, PCs, Idling
      <3>2. QED
        BY <2>2, <3>1, SentFits DEF SendClaim
    <2>3. CASE SendStart(w, h)
      <3>1. Fits([wk[w] EXCEPT !.pc = IF @ = "claimed" THEN "starting" ELSE "reporting"])
        BY <2>1, <2>3 DEF SendStart, Fits, Worker, PCs, Idling
      <3>2. QED
        BY <2>3, <3>1, SentFits DEF SendStart
    <2>4. CASE SendComplete(w, h)
      <3>1. Fits([wk[w] EXCEPT !.pc = "completing"])
        BY <2>1, <2>4 DEF SendComplete, Fits, Worker, PCs, Idling
      <3>2. QED
        BY <2>4, <3>1, SentFits DEF SendComplete
    <2>5. CASE SendFail(w, h)
      <3>1. Fits([wk[w] EXCEPT !.pc = "failing"])
        BY <2>1, <2>5 DEF SendFail, Fits, Worker, PCs, Idling
      <3>2. QED
        BY <2>5, <3>1, SentFits DEF SendFail
    <2>6. CASE SendRelease(w, h)
      <3>1. Fits([wk[w] EXCEPT !.pc = "releasing"])
        BY <2>1, <2>6 DEF SendRelease, Fits, Worker, PCs, Idling
      <3>2. QED
        BY <2>6, <3>1, SentFits DEF SendRelease
    <2>7. CASE RenewTick(w, h)
      <3>1. Fits([wk[w] EXCEPT !.renew = "call"])
        BY <2>1 DEF Fits, Worker, Tasks
      <3>2. QED
        BY <2>7, <3>1, SentFits DEF RenewTick
    <2>8. QED
      BY <1>3, <2>2, <2>3, <2>4, <2>5, <2>6, <2>7 DEF Sends
  <1>4. ASSUME NEW w \in Workers, WorkerStep(w) \/ CheckUnserved(w) \/ RenewUnserved(w)
        PROVE  Shapes'
    <2> DEFINE s == wk[w]
    <2>1. Fits(s) /\ Fits(Returned(s)) /\ (s.pc \notin Idling => Fits(Raised(s)))
      BY EndsFit DEF Shapes
    <2>2. ASSUME s.pc \notin Idling
          PROVE  /\ Fits([s EXCEPT !.pc = "to_release", !.exec = "none", !.renew = "none"])
                 /\ Fits([s EXCEPT !.pc = "joining"])
                 /\ Fits([s EXCEPT !.pc = "to_complete", !.renew = "none"])
                 /\ Fits([s EXCEPT !.renew = "raised"])
      BY <2>1, <2>2 DEF Fits, Worker, PCs, Execs, Tasks
    <2>3. s.pc \in {"claimed", "started", "executing", "joining", "to_fail", "to_release",
                     "to_complete"}
      BY <1>4 DEF WorkerStep, CheckUnserved, RenewUnserved, CheckLease, StopExecuting, Upload,
                  UploadRefused, ResultInvalid, ExecutorRaised, JoinRenewal, StartUnserved,
                  LastCallUnserved
    <2>4. s.pc \notin Idling
      BY <2>3 DEF Idling
    <2>5. \E x \in {Returned(s), Raised(s),
                     [s EXCEPT !.pc = "to_release", !.exec = "none", !.renew = "none"],
                     [s EXCEPT !.pc = "joining"],
                     [s EXCEPT !.pc = "to_complete", !.renew = "none"],
                     [s EXCEPT !.renew = "raised"]} : Moves(w, x)
      BY <1>4 DEF WorkerStep, CheckUnserved, RenewUnserved, CheckLease, StopExecuting, Upload,
                  UploadRefused, ResultInvalid, ExecutorRaised, JoinRenewal, StartUnserved,
                  LastCallUnserved
    <2> HIDE DEF s
    <2>6. QED
      BY <2>1, <2>2, <2>4, <2>5, MovesFit
  <1>5. ASSUME NEW w \in Workers,
               \/ \E how \in {"ok", "error"} : ExecutorEnds(w, how)
               \/ Unsupported(w) \/ StrayEnds(w)
               \/ Sigterm(w) \/ Crash(w) \/ Restart(w)
        PROVE  Shapes'
    <2>1. Fits(wk[w])
      BY DEF Shapes
    <2>2. \E s : Fits(s) /\ wk' = [wk EXCEPT ![w] = s]
      <3>1. ASSUME NEW how \in {"ok", "error"}, ExecutorEnds(w, how)
            PROVE  Fits([wk[w] EXCEPT !.exec = how])
                   /\ wk' = [wk EXCEPT ![w] = [wk[w] EXCEPT !.exec = how]]
        BY <2>1, <3>1 DEF ExecutorEnds, Fits, Worker, Execs
      <3>2. ASSUME Sigterm(w)
            PROVE  \E s : Fits(s) /\ wk' = [wk EXCEPT ![w] = s]
        <4>1. \/ wk' = [wk EXCEPT ![w] = [Fresh EXCEPT !.pc = "down", !.shutdown = TRUE]]
              \/ wk' = [wk EXCEPT ![w] = [wk[w] EXCEPT !.shutdown = TRUE]]
          BY <3>2 DEF Sigterm, Shapes
        <4>2. /\ Fits([Fresh EXCEPT !.pc = "down", !.shutdown = TRUE])
              /\ Fits([wk[w] EXCEPT !.shutdown = TRUE])
          BY <2>1 DEF Fits, Fresh, Worker, PCs, Idling, Execs, Tasks
        <4>3. QED
          BY <4>1, <4>2
      <3>3. Fits(Fresh) /\ Fits([Fresh EXCEPT !.pc = "down"])
        BY DEF Fits, Fresh, Worker, PCs, Idling, Execs, Tasks
      <3>4. ASSUME Unsupported(w)
            PROVE  /\ Fits([wk[w] EXCEPT !.pc = "to_fail"])
                   /\ wk' = [wk EXCEPT ![w] = [wk[w] EXCEPT !.pc = "to_fail"]]
        BY <2>1, <3>4 DEF Unsupported, Fits, Worker, PCs, Idling
      <3>5. ASSUME StrayEnds(w)
            PROVE  \E s : Fits(s) /\ wk' = [wk EXCEPT ![w] = s]
        <4>1. PICK t \in wk[w].stray : wk' = [wk EXCEPT ![w] = [wk[w] EXCEPT !.stray = @ \ {t}]]
          BY <3>5 DEF StrayEnds, Shapes
        <4>2. Fits([wk[w] EXCEPT !.stray = @ \ {t}])
          BY <2>1 DEF Fits, Worker
        <4>3. QED
          BY <4>1, <4>2
      <3>6. QED
        BY <1>5, <3>1, <3>2, <3>3, <3>4, <3>5 DEF Crash, Restart
    <2>3. PICK s : Fits(s) /\ wk' = [wk EXCEPT ![w] = s]
      BY <2>2
    <2>4. wk' \in [Workers -> Worker] /\ \A v \in Workers : wk'[v] = IF v = w THEN s ELSE wk[v]
      BY <2>3 DEF Shapes, Fits
    <2>5. client' \in [Handlers -> {None} \cup (Workers \X {"main", "renew"})]
      BY <1>5 DEF ExecutorEnds, Unsupported, StrayEnds, Sigterm, Crash, Restart, Shapes
    <2>6. \A v \in Workers : Fits(wk'[v])
      BY <2>3, <2>4 DEF Shapes
    <2>7. QED
      BY <2>4, <2>5, <2>6 DEF Shapes, Fits
  <1>6. ASSUME NEW j \in Jobs, Deadline(j) PROVE Shapes'
    BY <1>6 DEF Deadline, Shapes, Fits
  <1>7. QED
    BY <1>1, <1>2, <1>3, <1>4, <1>5, <1>6 DEF NextLoop

\* Every step of the loop is a step of the queue, or leaves the queue alone.
LEMMA LoopSteps ==
  ASSUME IInv, Shapes, [NextLoop]_allVars
  PROVE  [Next]_vars
  <1>1. CASE UNCHANGED allVars
    BY <1>1 DEF allVars, vars
  <1>2. ASSUME NEW h \in Handlers, Works(h) \/ Prepares(h) \/ Abort(h) \/ Owner(h)
                 \/ \E ok \in BOOLEAN : Ends(h, ok)
        PROVE  Next
    <2>1. CASE Works(h) \/ Prepares(h) \/ Abort(h) \/ \E ok \in BOOLEAN : Ends(h, ok)
      BY <2>1 DEF Works, Prepares, Ends, Next, OwnerRequest, ClaimRequest, LeaseRequest
    <2>2. CASE Owner(h)
      BY <2>2 DEF Owner, Next, OwnerRequest
    <2>3. QED
      BY <1>2, <2>1, <2>2
  <1>3. ASSUME NEW w \in Workers, NEW h \in Handlers, Sends(w, h) \/ RenewTick(w, h)
        PROVE  Next
    <2>1. CASE SendClaim(w, h)
      BY <2>1 DEF SendClaim, Next, ClaimRequest
    <2>2. CASE ~SendClaim(w, h)
      <3>1. wk[w].pc \notin Idling
        BY <1>3, <2>2 DEF Sends, SendStart, SendComplete, SendFail, SendRelease, RenewTick, Idling
      <3>2. wk[w].token \in Tokens
        BY <3>1 DEF Shapes, Fits
      <3>3. \E t \in Tokens : Renew(h, w, t) \/ Release(h, w, t) \/ Fail(h, w, t)
                               \/ CompleteLoad(h, w, t)
        BY <1>3, <2>2, <3>2 DEF Sends, SendStart, SendComplete, SendFail, SendRelease, RenewTick
      <3>4. QED
        BY <3>3 DEF Next, LeaseRequest
    <2>3. QED
      BY <2>1, <2>2
  <1>4. ASSUME NEW w \in Workers,
               \/ \E how \in {"ok", "error"} : ExecutorEnds(w, how)
               \/ Unsupported(w) \/ StrayEnds(w)
               \/ WorkerStep(w) \/ CheckUnserved(w) \/ RenewUnserved(w)
               \/ Sigterm(w) \/ Crash(w) \/ Restart(w)
        PROVE  UNCHANGED vars
    BY <1>4 DEF ExecutorEnds, Unsupported, StrayEnds, WorkerStep, CheckUnserved, RenewUnserved,
                Sigterm, Crash, Restart, CheckLease, StopExecuting, Upload, UploadRefused,
                ResultInvalid, ExecutorRaised, JoinRenewal, StartUnserved, LastCallUnserved
  <1>5. ASSUME NEW h \in Handlers,
               ServerStep(h) \/ Answered(h) \/ AnswerLost(h) \/ TimedOut(h) \/ RequestDies(h)
                 \/ Owner(h)
        PROVE  [Next]_vars
    BY <1>2, <1>5 DEF ServerStep, Answered, AnswerLost, TimedOut, RequestDies
  <1>6. ASSUME NEW j \in Jobs, Deadline(j) PROVE Next
    BY <1>6 DEF Deadline, Next
  <1>7. QED
    BY <1>1, <1>3, <1>4, <1>5, <1>6 DEF NextLoop

LEMMA LoopShapes == SpecLoop => Spec /\ [](IInv /\ Shapes)
  <1>1. InitLoop => Init /\ IInv /\ Shapes
    <2>1. Fits(Fresh)
      BY DEF Fits, Fresh, Worker, PCs, Idling, Execs, Tasks
    <2>2. InitLoop => Shapes
      BY <2>1 DEF InitLoop, Shapes, Fits
    <2>3. QED
      BY <2>2, InitEstablishes DEF InitLoop
  <1>2. IInv /\ Shapes /\ [NextLoop]_allVars => IInv' /\ Shapes' /\ [Next]_vars
    BY ShapesStep, LoopSteps, NextPreserves
  <1>3. QED
    BY <1>1, <1>2, PTL DEF SpecLoop, Spec

\* Whatever answers, requests and workers are lost, the worker loop uses the queue as the
\* queue allows, so that what is proved of the queue holds behind the loop.
THEOREM LoopUsesQueue == SpecLoop => Spec
  BY LoopShapes, PTL

-----------------------------------------------------------------------------
(* Runs without faults: no answer, request or worker is lost.              *)

NoFaults == MaxFaults = 0

\* an executor runs only where run_once waits for it, and none was left behind
Tended(s) == s.stray = {} /\ (s.exec = "running" => s.pc = "executing")

Lone == faults = 0 /\ \A w \in Workers : Tended(wk[w])

\* run_once leaves no executor behind when it ends, reports a failure of an executor that
\* has ended, or is answered.
LEMMA TendedMoves ==
  ASSUME NEW s, Fits(s), Tended(s)
  PROVE  /\ Tended(Returned(s))
         /\ s.exec # "running" => Tended(Raised(s))
         /\ \A task, ok, t : Tended(Answer(s, task, ok, t))
  <1>1. Tended(Returned(s))
    BY DEF Tended, Returned, Fits, Worker
  <1>2. ASSUME s.exec # "running" PROVE Tended(Raised(s))
    <2> DEFINE left == [s EXCEPT !.exec = "none",
                                 !.stray = IF s.exec = "running" THEN @ \cup {s.token} ELSE @]
    <2>3. left.stray = {} /\ left.exec = "none" /\ left \in Worker
      BY <1>2 DEF Fits, Worker, Execs, Tended
    <2>4. Raised(s) = IF s.renew = "raised" THEN Returned(left)
                      ELSE [left EXCEPT !.pc = "to_fail", !.renew = "none"]
      BY DEF Raised
    <2> HIDE DEF left
    <2>5. QED
      BY <2>3, <2>4 DEF Tended, Returned, Worker
  <1>3. ASSUME NEW task, NEW ok, NEW t PROVE Tended(Answer(s, task, ok, t))
    <2>1. Tended(RenewAnswer(s, ok))
      BY DEF Tended, RenewAnswer, Fits, Worker
    <2>2. ASSUME s.pc \in {"claiming", "starting", "reporting", "completing", "releasing"}
          PROVE  /\ Tended(Raised(s))
                 /\ Tended([s EXCEPT !.pc = "claimed", !.token = t])
                 /\ Tended([s EXCEPT !.pc = "started"])
                 /\ Tended([s EXCEPT !.pc = "executing", !.exec = "running", !.renew = "sleep"])
      <3>1. s.exec # "running"
        BY <2>2 DEF Tended
      <3>2. QED
        BY <1>2, <3>1 DEF Tended, Fits, Worker
    <2>3. Tended(MainAnswer(s, ok, t))
      BY <1>1, <2>2 DEF MainAnswer
    <2>4. QED
      BY <2>1, <2>3 DEF Answer
  <1>4. QED
    BY <1>1, <1>2, <1>3

\* Without faults every step leaves each executor tended.
LEMMA LoneStep ==
  ASSUME NoFaults, Shapes, Lone, [NextLoop]_allVars
  PROVE  Lone'
  <1>0. ~Fault /\ faults \in Nat
    BY DEF Fault, NoFaults, Lone
  <1>a. ASSUME NEW w \in Workers, NEW s, wk' = [wk EXCEPT ![w] = s], Tended(s), faults' = faults
        PROVE  Lone'
    BY <1>a DEF Lone, Tended, Shapes
  <1>1. CASE UNCHANGED <<wk, faults>>
    BY <1>1 DEF Lone, Tended
  <1>2. ASSUME NEW h \in Handlers, NEW ok, NEW t, Deliver(h, ok, t), faults' = faults PROVE Lone'
    <2>1. CASE client[h] = None
      BY <1>1, <1>2, <2>1 DEF Deliver
    <2>2. CASE client[h] # None
      <3>1. PICK w \in Workers, task \in {"main", "renew"} : client[h] = <<w, task>>
        BY <2>2 DEF Shapes
      <3>2. client[h][1] = w /\ client[h][2] = task
        BY <3>1
      <3>3. wk' = [wk EXCEPT ![w] = Answer(wk[w], task, ok, t)]
        BY <1>2, <2>2, <3>2 DEF Deliver
      <3>4. Tended(Answer(wk[w], task, ok, t))
        BY TendedMoves DEF Shapes, Lone
      <3>5. QED
        BY <1>2, <1>a, <3>3, <3>4
    <2>3. QED
      BY <2>1, <2>2
  <1>3. ASSUME NEW h \in Handlers,
               ServerStep(h) \/ Answered(h) \/ AnswerLost(h) \/ TimedOut(h) \/ RequestDies(h)
                 \/ Owner(h)
        PROVE  Lone'
    BY <1>0, <1>1, <1>2, <1>3
       DEF ServerStep, Answered, AnswerLost, TimedOut, RequestDies, Owner, workerVars
  <1>4. ASSUME NEW w \in Workers, NEW h \in Handlers, Sends(w, h) \/ RenewTick(w, h)
        PROVE  Lone'
    <2>1. PICK s : /\ wk' = [wk EXCEPT ![w] = s] /\ faults' = faults
                   /\ s.stray = wk[w].stray /\ s.exec = wk[w].exec
                   /\ s.pc = wk[w].pc \/ wk[w].pc # "executing"
      BY <1>4 DEF Sends, SendClaim, SendStart, SendComplete, SendFail, SendRelease, RenewTick,
                  Sent, Shapes, Fits, Worker
    <2>2. Tended(s)
      BY <2>1 DEF Lone, Tended
    <2>3. QED
      BY <1>a, <2>1, <2>2
  <1>5. ASSUME NEW w \in Workers, WorkerStep(w) \/ CheckUnserved(w) \/ RenewUnserved(w)
        PROVE  Lone'
    <2> DEFINE s == wk[w]
    <2>1. Fits(s) /\ Tended(s)
      BY DEF Shapes, Lone
    <2>2. ~CheckUnserved(w) /\ faults' = faults
      BY <1>0, <1>5 DEF WorkerStep, CheckUnserved, RenewUnserved, CheckLease, StopExecuting,
                        Upload, UploadRefused, ResultInvalid, ExecutorRaised, JoinRenewal,
                        StartUnserved, LastCallUnserved, NoFault
    <2>3. \/ Moves(w, Returned(s))
          \/ s.exec # "running" /\ Moves(w, Raised(s))
          \/ Moves(w, [s EXCEPT !.pc = "to_release", !.exec = "none", !.renew = "none"])
          \/ s.exec # "running" /\ Moves(w, [s EXCEPT !.pc = "joining"])
          \/ s.pc = "joining" /\ Moves(w, [s EXCEPT !.pc = "to_complete", !.renew = "none"])
          \/ Moves(w, [s EXCEPT !.renew = "raised"])
      BY <1>5, <2>1, <2>2
         DEF WorkerStep, RenewUnserved, CheckLease, StopExecuting, Upload, UploadRefused,
             ResultInvalid, ExecutorRaised, JoinRenewal, StartUnserved, LastCallUnserved, Tended
    <2>4. /\ Tended(Returned(s))
          /\ s.exec # "running" => Tended(Raised(s)) /\ Tended([s EXCEPT !.pc = "joining"])
          /\ Tended([s EXCEPT !.pc = "to_release", !.exec = "none", !.renew = "none"])
          /\ s.pc = "joining" => Tended([s EXCEPT !.pc = "to_complete", !.renew = "none"])
          /\ Tended([s EXCEPT !.renew = "raised"])
      <3>1. Tended(Returned(s)) /\ (s.exec # "running" => Tended(Raised(s)))
        BY <2>1, TendedMoves
      <3>2. QED
        BY <2>1, <3>1 DEF Tended, Fits, Worker
    <2> HIDE DEF s
    <2>5. \E x : Tended(x) /\ wk' = [wk EXCEPT ![w] = x]
      BY <2>3, <2>4 DEF Moves
    <2>6. QED
      BY <1>a, <2>2, <2>5
  <1>6. ASSUME NEW w \in Workers,
               \/ \E how \in {"ok", "error"} : ExecutorEnds(w, how)
               \/ Unsupported(w) \/ StrayEnds(w)
               \/ Sigterm(w) \/ Crash(w) \/ Restart(w)
        PROVE  Lone'
    <2>1. Tended(wk[w]) /\ wk[w] \in Worker
      BY DEF Lone, Shapes
    <2>2. ASSUME NEW how \in {"ok", "error"}, ExecutorEnds(w, how) PROVE Lone'
      <3>1. Tended([wk[w] EXCEPT !.exec = how])
        BY <2>1 DEF Tended, Worker
      <3>2. wk' = [wk EXCEPT ![w] = [wk[w] EXCEPT !.exec = how]] /\ faults' = faults
        BY <2>2 DEF ExecutorEnds
      <3>3. QED
        BY <1>a, <3>1, <3>2
    <2>3. CASE Sigterm(w)
      <3>1. /\ Tended([Fresh EXCEPT !.pc = "down", !.shutdown = TRUE])
            /\ Tended([wk[w] EXCEPT !.shutdown = TRUE])
        BY <2>1 DEF Fresh, Tended, Worker
      <3>2. /\ \/ wk' = [wk EXCEPT ![w] = [Fresh EXCEPT !.pc = "down", !.shutdown = TRUE]]
               \/ wk' = [wk EXCEPT ![w] = [wk[w] EXCEPT !.shutdown = TRUE]]
            /\ faults' = faults
        BY <2>3 DEF Sigterm, Shapes
      <3>3. QED
        BY <1>a, <3>1, <3>2
    <2>4. CASE Restart(w)
      <3>1. Tended(Fresh)
        BY DEF Fresh, Tended
      <3>2. QED
        BY <1>a, <2>4, <3>1 DEF Restart
    <2>5. ~Crash(w) /\ ~StrayEnds(w)
      BY <1>0, <2>1 DEF Crash, StrayEnds, Tended
    <2>6. CASE Unsupported(w)
      <3>1. Tended([wk[w] EXCEPT !.pc = "to_fail"])
        BY <2>1, <2>6 DEF Tended, Worker, Unsupported
      <3>2. wk' = [wk EXCEPT ![w] = [wk[w] EXCEPT !.pc = "to_fail"]] /\ faults' = faults
        BY <2>6 DEF Unsupported
      <3>3. QED
        BY <1>a, <3>1, <3>2
    <2>7. QED
      BY <1>6, <2>2, <2>3, <2>4, <2>5, <2>6
  <1>7. ASSUME NEW j \in Jobs, Deadline(j) PROVE Lone'
    BY <1>0, <1>1, <1>7 DEF Deadline, NoFault
  <1>8. QED
    BY <1>1, <1>3, <1>4, <1>5, <1>6, <1>7 DEF NextLoop, allVars, workerVars

LEMMA LoneInvariance == ASSUME NoFaults PROVE SpecLoop => [](IInv /\ Shapes /\ Lone)
  <1>1. InitLoop => Lone
    BY DEF InitLoop, Lone, Tended, Fresh
  <1>2. Shapes /\ Lone /\ [NextLoop]_allVars => Lone'
    BY LoneStep
  <1>3. QED
    BY <1>1, <1>2, LoopShapes, PTL DEF SpecLoop

-----------------------------------------------------------------------------
(* Runs without faults in which requests do not overlap and completions    *)
(* insert nothing: the call in flight is known to the worker that sent it. *)

\* completing a job inserts no domain rows, so no result is refused for its content
AllPlainJobs == \A j \in Jobs : Kind[j] = "plain"

\* ... and none is about to be inserted
Plainly == \A h \in Handlers : call[h].phase # "record"

\* what a report of a failure stands for
Bad == {"error", "invalid", "unsupported"}

\* no call in flight presents or grants the lease id t
Quiet(t) == \A h \in Handlers : call[h].token # t

Has(w, t) == HoldsLease(job[granted[t]], w, t)

\* a renewal of the worker in state s is in flight, or may be
Renewing(s) == s.pc = "to_release" \/ s.renew = "call"

\* what is known of worker w in state s
Known(w, s) ==
  LET t == s.token
  IN /\ s.pc \in Idling => t = None
     /\ s.pc \notin Idling => granted[t] \in Jobs
     /\ s.pc \in {"claimed", "starting", "started", "reporting"} \/ s.exec = "running" =>
          ran[t] = "none"
     /\ s.exec = "error" => s.pc = "executing" /\ ran[t] \in Bad
     /\ s.pc \in {"claimed", "started"} => Quiet(t)
     /\ s.renew # "none" => s.pc \in {"executing", "joining"}
     /\ s.pc \in {"executing", "joining"} /\ s.renew # "call" => Quiet(t)
     /\ s.renew = "raised" => ~Has(w, t)
     /\ Renewing(s) => Quiet(t) \/ Has(w, t)
     /\ s.pc = "to_fail" => ran[t] \in Bad \/ (Quiet(t) /\ ~Has(w, t))

\* the worker that waits for call c, when it waits with task
Awaits(w, task, c) ==
  LET s == wk[w]
  IN \/ /\ task = "main" /\ s.pc = "claiming" /\ c.worker = w
        /\ c.phase \in {"sweep", "scan", "write"}
        /\ c.token # None => granted[c.token] = None /\ Installed(c) # {}
     \/ /\ task = "main" /\ c.worker = w /\ c.token = s.token
        /\ s.pc \in {"starting", "reporting", "completing", "failing", "releasing"}
        /\ c.phase = "write" \/ (s.pc = "completing" /\ c.phase = "complete")
     \/ /\ task = "renew" /\ s.renew = "call" /\ c.token = s.token /\ c.phase = "write"

\* a call that presents a worker's lease id is that worker's, and may write only if the
\* worker held the lease on the row it loaded
Presents(w, c) ==
  wk[w].token # None /\ c.token = wk[w].token =>
    /\ c.worker = w /\ c.rows = {granted[c.token]} /\ c.phase \in {"complete", "write"}
    /\ c.phase = "write" => HoldsLease(c.seen[granted[c.token]], w, c.token)
    /\ c.phase = "complete" => wk[w].pc = "completing"

\* the errors that a call is about to write
RealErrors(c) ==
  \A j \in c.rows : c.new[j].error \in {None, c.seen[j].error} \/ ran[c.new[j].error] \in Bad

TokensDiffer ==
  \A v, w \in Workers : v # w /\ wk[v].token # None => wk[v].token # wk[w].token

\* an executor runs for committed leases only
RanGranted == \A t \in Tokens : granted[t] = None => ran[t] = "none"

\* ... what the calls in flight may do to the record of the executors and the errors
QueueSide ==
  /\ \A h \in Handlers, w \in Workers : Presents(w, call[h])
  /\ \A h \in Handlers : RealErrors(call[h])
  /\ RanGranted /\ FailureIsReal
  /\ ran \in [Tokens -> {"none", "ok"} \cup Bad]

WInv ==
  /\ \A w \in Workers : Known(w, wk[w])
  /\ \A h \in Handlers : client[h] # None =>
       \E w \in Workers, task \in {"main", "renew"} :
         client[h] = <<w, task>> /\ Awaits(w, task, call[h])
  /\ TokensDiffer
  /\ QueueSide

\* everything known of a run without faults whose requests do not overlap
Calm == IInv /\ SInv /\ Shapes /\ Lone /\ Plainly /\ WInv

\* No request inserts a record where every job is plain.
LEMMA PlainlyStep ==
  ASSUME IInv, AllPlainJobs, Plainly, [Next]_vars
  PROVE  Plainly'
  <1>1. SUFFICES ASSUME NEW g \in Handlers, call'[g] # call[g], call'[g].phase = "record"
                 PROVE  FALSE
    BY DEF Plainly
  <1>2. ASSUME NEW h \in Handlers, NEW x, Take(h, x), x.phase # "record" PROVE FALSE
    BY <1>1, <1>2 DEF Take, IInv, TypeOK
  <1>3. Idle.phase = "idle" /\ \A p, w, t, S, new : Serving(p, w, t, S, new).phase = p
    BY DEF Idle, Serving
  <1>4. ASSUME NEW h \in Handlers, Abort(h) \/ CreateCommit(h) PROVE FALSE
    BY <1>2, <1>3, <1>4 DEF Abort, CreateCommit
  <1>5. ASSUME NEW h \in Handlers, NEW k, CreateLookup(h, k) PROVE FALSE
    <2>1. [Idle EXCEPT !.phase = "insert", !.key = k].phase = "insert"
      BY DEF Idle
    <2>2. QED
      BY <1>2, <1>5, <2>1 DEF CreateLookup
  <1>6. ASSUME NEW h \in Handlers, Commit(h) PROVE FALSE
    <2>1. [Idle EXCEPT !.phase = "scan", !.worker = call[h].worker].phase = "scan"
      BY DEF Idle
    <2>2. QED
      BY <1>2, <1>3, <1>6, <2>1 DEF Commit
  <1>7. ASSUME NEW h \in Handlers, NEW w, ClaimSweep(h, w) PROVE FALSE
    BY <1>2, <1>3, <1>7 DEF ClaimSweep
  <1>8. ASSUME NEW h \in Handlers, ClaimNothing(h) PROVE FALSE
    BY <1>2, <1>3, <1>8 DEF ClaimNothing
  <1>9. ASSUME NEW h \in Handlers, NEW j, NEW t, ClaimJob(h, j, t) PROVE FALSE
    BY <1>2, <1>3, <1>9 DEF ClaimJob
  <1>10. ASSUME NEW h \in Handlers, NEW j, CancelJob(h, j) PROVE FALSE
    BY <1>2, <1>3, <1>10 DEF CancelJob
  <1>11. ASSUME NEW h \in Handlers, NEW w, NEW t,
                Renew(h, w, t) \/ Release(h, w, t) \/ Fail(h, w, t) \/ CompleteLoad(h, w, t)
         PROVE  FALSE
    BY <1>2, <1>3, <1>11 DEF Renew, Release, Fail, LeaseWrite, CompleteLoad
  <1>12. ASSUME NEW h \in Handlers, CompleteAccept(h) \/ CompleteReject(h) PROVE FALSE
    <2>1. PICK j, again, new : Settle(h, j, again, new)
      BY <1>12 DEF CompleteAccept, CompleteReject, Complete
    <2>2. call[h] \in Call
      BY DEF IInv, TypeOK
    <2>3. [call[h] EXCEPT !.phase = "write", !.new[j] = new].phase = "write"
      BY <2>2 DEF Call
    <2>4. QED
      BY <1>2, <1>3, <2>1, <2>3 DEF Settle
  <1>13. ASSUME NEW h \in Handlers, RecordLookup(h) PROVE FALSE
    <2>1. granted[call[h].token] \in Jobs
      BY <1>13 DEF RecordLookup, IInv, CallOK
    <2>2. QED
      BY <1>13, <2>1 DEF RecordLookup, AllPlainJobs
  <1>14. ASSUME NEW h \in Handlers, RecordInsert(h) PROVE FALSE
    BY <1>14 DEF RecordInsert, Plainly
  <1>15. ASSUME NEW j \in Jobs, Expire(j) PROVE FALSE
    <2>1. call'[g].phase = call[g].phase
      BY <1>15 DEF Expire, IInv, TypeOK, Call
    <2>2. QED
      BY <1>1, <2>1 DEF Plainly
  <1>16. QED
    BY <1>1, <1>4, <1>5, <1>6, <1>7, <1>8, <1>9, <1>10, <1>11, <1>12, <1>13, <1>14, <1>15
       DEF Next, OwnerRequest, ClaimRequest, LeaseRequest, vars

\* A lease id stays with its job.
LEMMA GrantsStay ==
  ASSUME IInv, [Next]_vars, NEW t \in Tokens, granted[t] # None
  PROVE  granted'[t] = granted[t]
  <1>1. CASE UNCHANGED granted
    BY <1>1
  <1>2. ASSUME NEW h \in Handlers, Commit(h) PROVE granted'[t] = granted[t]
    <2>1. \/ \E j \in Jobs : Promised(h, j)
          \/ Installed(call[h]) = {} /\ \A j \in call[h].rows : Harmless(call[h], j)
      BY <1>2 DEF Commit, IInv, CallOK, Writes
    <2>2. ASSUME NEW j \in Jobs, Promised(h, j) PROVE granted'[t] = granted[t]
      <3>1. granted' = [granted EXCEPT ![call[h].token] = j] /\ granted[call[h].token] = None
        BY <1>2, <2>2, GrantCommitKeeps DEF Promised
      <3>2. QED
        BY <3>1 DEF IInv, TypeOK
    <2>3. QED
      BY <1>2, <2>1, <2>2, HarmlessCommitKeeps
  <1>3. ASSUME NEW h \in Handlers,
               Abort(h) \/ OwnerRequest(h) \/ ClaimRequest(h) \/ LeaseRequest(h)
        PROVE  UNCHANGED granted
    BY <1>3 DEF Abort, OwnerRequest, CreateLookup, CreateCommit, CancelJob, ClaimRequest,
                ClaimSweep, ClaimNothing, ClaimJob, LeaseRequest, Renew, Release, Fail,
                LeaseWrite, CompleteLoad, CompleteAccept, RecordLookup, RecordInsert,
                CompleteReject
  <1>4. QED
    BY <1>1, <1>2, <1>3 DEF Next, vars, Expire

\* What a guard allowed leaves a row without a lease, or under the lease of the call.
LEMMA AllowedLease ==
  ASSUME NEW c, NEW j \in Jobs, c.seen[j] \in Row, Agrees(c.seen[j]), Allowed(c, j)
  PROVE  c.new[j].lease \in {None, c.token}
  <1> DEFINE r == c.seen[j]
  <1>1. ASSUME Held(c, r) PROVE r.lease = c.token
    BY <1>1 DEF Held, HoldsLease
  <1>2. r.status \in Waiting => r.lease = None
    BY DEF Agrees
  <1>3. "queued" \in Waiting
    BY DEF Waiting
  <1>4. r \in Row
    OBVIOUS
  <1> HIDE DEF r
  <1>5. /\ Cancelled(r).lease = None /\ Requeued(j, r).lease = None
        /\ [r EXCEPT !.status = "waiting_for_worker"].lease = r.lease
        /\ Leased(r, c.worker, c.token).lease = c.token
        /\ Renewed(r).lease = r.lease /\ Failed(r, c.token).lease = r.lease
        /\ Succeeded(r, c.token).lease = r.lease
    BY <1>4 DEF Cancelled, Requeued, Leased, Renewed, Failed, Succeeded, Row
  <1>6. QED
    BY <1>1, <1>2, <1>3, <1>5 DEF Allowed, r

\* A lease that a worker lost is not its own again, unless by a call already in flight.
LEMMA LeaseNotRegained ==
  ASSUME IInv, SInv, OneHandler, [Next]_vars, NEW w \in Workers, NEW t \in Tokens,
         granted[t] \in Jobs, Quiet(t), ~Has(w, t)
  PROVE  ~Has(w, t)'
  <1> DEFINE j == granted[t]
  <1>1. granted'[t] = j /\ t # None /\ j \in Jobs
    BY GrantsStay, JobQueueAssumption
  <1> HIDE DEF j
  <1>2. SUFFICES ASSUME job'[j] # job[j], job'[j].lease = t, job'[j].exp # "past" PROVE FALSE
    BY <1>1 DEF Has, HoldsLease, j
  <1>3. ASSUME NEW h \in Handlers, Commit(h) PROVE FALSE
    <2> DEFINE c == call[h]
    <2>1. j \in c.rows /\ job'[j] = Flush(job[j], c.seen[j], c.new[j])
      BY <1>1, <1>2, <1>3, CommitShape
    <2>2. c.phase \in {"sweep", "write"} /\ c.token # t
      BY <1>3 DEF Commit, Quiet
    <2>3. Allowed(c, j) /\ Current(c.seen[j], job[j])
      BY <2>1, <2>2 DEF SInv, UpToDate, Writes
    <2>4. c.seen[j] \in Row /\ c.new[j] \in Row /\ job[j] \in Row /\ job[j].exp # "fresh"
      BY <1>1 DEF IInv, TypeOK, Call
    <2>5. Agrees(c.seen[j]) /\ c.seen[j].exp # "fresh"
      BY <1>1, <2>3, <2>4, CurrentAgrees DEF SInv
    <2> HIDE DEF c
    <2>6. c.new[j].exp \in {"none", "fresh"}
      BY <1>1, <2>3, <2>4, <2>5, AllowedAgrees
    <2>7. job'[j].lease = c.new[j].lease
      BY <2>1, <2>3, <2>4, <2>6, FlushLands
    <2>8. QED
      BY <1>1, <1>2, <2>2, <2>3, <2>4, <2>5, <2>7, AllowedLease
  <1>4. ASSUME NEW h \in Handlers, CreateCommit(h) PROVE FALSE
    <2>1. \A i \in Jobs : job'[i] = job[i] \/ \E k : job'[i] = Created(i, k)
      BY <1>4 DEF CreateCommit, IInv, TypeOK
    <2>2. PICK k : job'[j] = Created(j, k)
      BY <1>1, <1>2, <2>1
    <2>3. Created(j, k).lease = None
      BY DEF Created, NoRow
    <2>4. QED
      BY <1>1, <1>2, <2>2, <2>3
  <1>5. ASSUME NEW i \in Jobs, Expire(i) PROVE FALSE
    <2>1. job'[j] = job[j] \/ job'[j].exp = "past"
      BY <1>1, <1>5 DEF Expire, IInv, TypeOK, Row
    <2>2. QED
      BY <1>2, <2>1
  <1>6. ASSUME NEW h \in Handlers,
               Abort(h) \/ OwnerRequest(h) \/ ClaimRequest(h) \/ LeaseRequest(h)
        PROVE  FALSE
    <2>1. UNCHANGED job
      BY <1>4, <1>6 DEF Abort, OwnerRequest, CreateLookup, CancelJob, ClaimRequest,
                ClaimSweep, ClaimNothing, ClaimJob, LeaseRequest, Renew, Release, Fail,
                LeaseWrite, CompleteLoad, CompleteAccept, RecordLookup, RecordInsert,
                CompleteReject
    <2>2. QED
      BY <1>2, <2>1
  <1>7. QED
    BY <1>2, <1>3, <1>5, <1>6 DEF Next, vars

-----------------------------------------------------------------------------
(* What happens to the call in flight while no worker sends one. *)

\* the errors that d is about to write were those of c, or the row's own
KeepsErrors(c, d) ==
  d = c \/ \A j \in d.rows : d.new[j].error \in {None, d.seen[j].error}

\* call c becomes d
Evolves(c, d) ==
  /\ KeepsErrors(c, d)
  /\ \/ d.token = None
     \/ d.token \in Tokens /\ granted[d.token] = None
     \/ /\ d.token = c.token /\ d.worker = c.worker /\ d.rows = c.rows
        /\ d = c \/ (c.phase = "complete" /\ d.phase \in {"complete", "write"})
        /\ d.phase = "write" =>
             d = c \/ HoldsLease(d.seen[granted[d.token]], d.worker, d.token)

\* the steps of a call that is being served, and of the owner
Served(h) ==
  \/ Commit(h) \/ CreateCommit(h) \/ ClaimNothing(h) \/ CompleteAccept(h)
  \/ \E j \in Jobs, t \in Tokens : ClaimJob(h, j, t)
  \/ CreateLookup(h, None) \/ \E j \in Jobs : CancelJob(h, j)

\* A call that is served, and the owner's, evolve.
LEMMA ServedEvolves ==
  ASSUME IInv, NEW h \in Handlers, Served(h)
  PROVE  Evolves(call[h], call'[h])
  <1> DEFINE c == call[h]
             d == call'[h]
  <1>0. c \in Call /\ \A x : Take(h, x) => d = x
    BY DEF IInv, TypeOK, Take
  <1>1. ASSUME d.token = None, \A j \in d.rows : d.new[j].error \in {None, d.seen[j].error}
        PROVE  Evolves(c, d)
    BY <1>1 DEF Evolves, KeepsErrors
  <1>2. ASSUME d = Idle PROVE Evolves(c, d)
    <2>1. d.token = None /\ d.rows = {}
      BY <1>2 DEF Idle
    <2>2. QED
      BY <1>1, <2>1
  <1> HIDE DEF d
  <1>3. CASE Commit(h)
    <2>1. \/ d = Idle
          \/ d = [Idle EXCEPT !.phase = "scan", !.worker = c.worker]
      BY <1>0, <1>3 DEF Commit
    <2> DEFINE scan == [Idle EXCEPT !.phase = "scan", !.worker = c.worker]
    <2>2. scan.token = None /\ scan.rows = {}
      BY DEF Idle
    <2> HIDE DEF scan
    <2>3. QED
      BY <1>1, <1>2, <2>1, <2>2 DEF d, scan
  <1>4. CASE CreateCommit(h)
    BY <1>0, <1>2, <1>4 DEF CreateCommit, d
  <1>5. CASE ClaimNothing(h)
    <2>1. CASE d = Idle
      BY <1>2, <2>1 DEF d
    <2>2. CASE d # Idle
      <3>1. d = Serving("write", c.worker, None, Parked(Scanned), [i \in Jobs |-> ParkedAs(i)])
        BY <1>0, <1>5, <2>2 DEF ClaimNothing
      <3>2. /\ d.token = None /\ d.rows \subseteq Jobs
            /\ \A j \in d.rows : d.new[j] = ParkedAs(j) /\ d.seen[j] = job[j]
        BY <3>1 DEF Serving, Parked, Scanned
      <3>3. \A j \in Jobs : ParkedAs(j).error = job[j].error
        BY RowOf DEF ParkedAs, Row
      <3>4. QED
        BY <1>1, <3>2, <3>3 DEF d
    <2>3. QED
      BY <2>1, <2>2
  <1>6. CASE CompleteAccept(h)
    <2> DEFINE j == granted[c.token]
               new == Succeeded(c.seen[j], c.token)
    <2>1. c.token \in Tokens /\ j \in Jobs /\ c.rows = {j} /\ c.phase = "complete"
      BY <1>6 DEF IInv, CallOK, CompleteAccept
    <2>2. CASE d = Idle
      BY <1>2, <2>2 DEF d
    <2>3. CASE d # Idle
      <3>1. HoldsLease(c.seen[j], c.worker, c.token) /\ d = [c EXCEPT !.phase = "write", !.new[j] = new]
        BY <1>0, <1>6, <2>3 DEF CompleteAccept, Complete, Settle
      <3>2. /\ d.token = c.token /\ d.worker = c.worker /\ d.rows = c.rows /\ d.seen = c.seen
            /\ d.phase = "write" /\ d.new[j] = new
        BY <1>0, <2>1, <3>1 DEF Call
      <3>3. new.error = None
        BY <1>0, <2>1 DEF Succeeded, Call, Row
      <3>4. QED
        BY <2>1, <3>1, <3>2, <3>3 DEF Evolves, KeepsErrors, d
    <2>4. QED
      BY <2>2, <2>3
  <1>7. ASSUME NEW j \in Jobs, NEW t \in Tokens, ClaimJob(h, j, t) PROVE Evolves(c, d)
    <2> DEFINE new == [i \in Jobs |-> IF i = j THEN Leased(job[j], c.worker, t) ELSE ParkedAs(i)]
               S == Parked({i \in Scanned : i < j}) \cup {j}
    <2>1. d = Serving("write", c.worker, t, S, new) /\ granted[t] = None
      BY <1>0, <1>7 DEF ClaimJob, Unused
    <2>2. S \subseteq Jobs
      BY DEF Parked, Scanned
    <2>3. ASSUME NEW i \in Jobs PROVE new[i].error = job[i].error
      <3>1. ParkedAs(i).error = job[i].error /\ Leased(job[i], c.worker, t).error = job[i].error
        BY RowOf DEF ParkedAs, Leased, Row
      <3>2. QED
        BY <3>1
    <2> HIDE DEF new, S
    <2>4. /\ d.token = t /\ d.rows = S /\ \A i \in S : d.new[i] = new[i] /\ d.seen[i] = job[i]
      BY <2>1, <2>2 DEF Serving
    <2>5. QED
      BY <2>1, <2>2, <2>3, <2>4 DEF Evolves, KeepsErrors
  <1>8. CASE CreateLookup(h, None)
    <2>1. d = [Idle EXCEPT !.phase = "insert", !.key = None]
      BY <1>0, <1>8 DEF CreateLookup
    <2>2. d.token = None /\ d.rows = {}
      BY <2>1 DEF Idle
    <2>3. QED
      BY <1>1, <2>2 DEF d
  <1>9. ASSUME NEW j \in Jobs, CancelJob(h, j) PROVE Evolves(c, d)
    <2>1. d = Serving("write", None, None, {j}, Only(Cancelled(job[j])))
      BY <1>0, <1>9 DEF CancelJob
    <2>2. d.token = None /\ d.rows = {j} /\ d.new[j] = Cancelled(job[j]) /\ d.seen[j] = job[j]
      BY <2>1 DEF Serving, Only
    <2>3. Cancelled(job[j]).error = job[j].error
      BY RowOf DEF Cancelled, Row
    <2>4. QED
      BY <1>1, <2>2, <2>3 DEF d
  <1>10. QED
    BY <1>3, <1>4, <1>5, <1>6, <1>7, <1>8, <1>9 DEF Served, d

\* So does a call while the clock runs.
LEMMA ExpireEvolves ==
  ASSUME IInv, Plainly, NEW j \in Jobs, Expire(j), NEW h \in Handlers
  PROVE  Evolves(call[h], call'[h])
  <1> DEFINE c == call[h]
             d == call'[h]
  <1>1. c \in Call
    BY DEF IInv, TypeOK
  <1>2. CASE d = c
    <2>1. d.phase \in {"complete", "write"} \/ d = c
      BY <1>2
    <2>2. QED
      BY <1>2 DEF Evolves, KeepsErrors
  <1>3. CASE d # c
    <2>1. c.phase = "complete" /\ d = [c EXCEPT !.seen[j].exp = "past"]
      BY <1>3 DEF Expire, Plainly
    <2>2. /\ d.token = c.token /\ d.worker = c.worker /\ d.rows = c.rows /\ d.new = c.new
          /\ d.phase = "complete"
      BY <1>1, <2>1 DEF Call
    <2>3. c.new = NoRows /\ c.rows \subseteq Jobs
      BY <1>1, <2>1 DEF IInv, CallOK, Call
    <2>4. \A i \in Jobs : NoRows[i].error = None
      BY DEF NoRows, NoRow
    <2>5. QED
      BY <2>1, <2>2, <2>3, <2>4 DEF Evolves, KeepsErrors
  <1>4. QED
    BY <1>2, <1>3

\* a lease id that a worker has was granted
LEMMA TokenGranted ==
  ASSUME Calm, NEW w \in Workers, wk[w].token # None
  PROVE  /\ wk[w].token \in Tokens /\ granted[wk[w].token] \in Jobs
         /\ granted[wk[w].token] # None
  <1>1. wk[w].token \in Tokens
    BY DEF Calm, Shapes, Fits, Worker
  <1>2. Known(w, wk[w])
    BY DEF Calm, WInv
  <1>3. granted[wk[w].token] \in Jobs
    BY <1>2 DEF Known
  <1>4. QED
    BY <1>1, <1>3, JobQueueAssumption

\* What is known of a worker outlasts the steps of the queue.
LEMMA KnownStays ==
  ASSUME Calm, OneHandler, [Next]_vars, \A h \in Handlers : Evolves(call[h], call'[h]),
         NEW w \in Workers, NEW s, s = wk[w], s.token # None => ran'[s.token] = ran[s.token],
         Renewing(s) => Quiet(s.token)' \/ Has(w, s.token)'
  PROVE  Known(w, s)'
  <1>1. Fits(s) /\ Tended(s) /\ Known(w, s)
    BY DEF Calm, Shapes, Lone, WInv
  <1>2. CASE s.pc \in Idling
    <2>1. s.token = None /\ s.renew = "none" /\ s.exec \notin {"running", "error"}
      BY <1>1, <1>2 DEF Known, Tended, Idling
    <2>2. QED
      BY <1>2, <2>1 DEF Known, Idling, Renewing
  <1>3. CASE s.pc \notin Idling
    <2> DEFINE t == s.token
    <2>1. t \in Tokens /\ granted[t] \in Jobs /\ granted[t] # None /\ t # None
      BY <1>1, <1>3, JobQueueAssumption DEF Fits, Known
    <2>2. granted'[t] = granted[t]
      BY <2>1, GrantsStay DEF Calm
    <2>3. ASSUME Quiet(t) PROVE Quiet(t)'
      <3>1. ASSUME NEW h \in Handlers PROVE call'[h].token # t
        <4>1. Evolves(call[h], call'[h]) /\ call[h].token # t
          BY <2>3 DEF Quiet
        <4>2. QED
          BY <2>1, <4>1 DEF Evolves
      <3>2. QED
        BY <3>1 DEF Quiet
    <2>4. ASSUME Quiet(t), ~Has(w, t) PROVE ~Has(w, t)'
      BY <2>1, <2>4, LeaseNotRegained DEF Calm
    <2> HIDE DEF t
    <2>5. s.renew = "raised" => Quiet(t)
      BY <1>1 DEF Known, t
    <2>6. QED
      BY <1>1, <1>3, <2>1, <2>2, <2>3, <2>4, <2>5 DEF Known, t
  <1>4. QED
    BY <1>2, <1>3

\* No error reaches a job but that of an executor that failed.
LEMMA ErrorsStay ==
  ASSUME IInv, QueueSide, [Next]_vars, \A t \in Tokens : ran[t] \in Bad => ran'[t] \in Bad
  PROVE  FailureIsReal'
  <1>1. SUFFICES ASSUME NEW j \in Jobs, job'[j].error # None PROVE ran'[job'[j].error] \in Bad
    BY DEF FailureIsReal, Bad
  <1>2. ASSUME job'[j].error = job[j].error PROVE ran'[job'[j].error] \in Bad
    <2>1. job[j].error \in Tokens
      BY <1>1, <1>2 DEF IInv, TypeOK, Row
    <2>2. QED
      BY <1>1, <1>2, <2>1 DEF QueueSide, FailureIsReal, Bad
  <1>3. ASSUME NEW h \in Handlers, Commit(h) PROVE ran'[job'[j].error] \in Bad
    <2> DEFINE c == call[h]
    <2>1. CASE j \notin c.rows
      BY <1>2, <1>3, <2>1, CommitShape
    <2>2. CASE j \in c.rows
      <3>1. job'[j] = Flush(job[j], c.seen[j], c.new[j])
        BY <1>3, <2>2, CommitShape
      <3>2. job'[j].error = Column(job[j].error, c.seen[j].error, c.new[j].error)
        BY <3>1 DEF Flush
      <3>3. RealErrors(c)
        BY DEF QueueSide
      <3>4. c.new[j].error \in Tokens \cup {None}
        BY DEF IInv, TypeOK, Call, Row
      <3>5. QED
        BY <1>1, <1>2, <2>2, <3>2, <3>3, <3>4 DEF Column, RealErrors
    <2>3. QED
      BY <2>1, <2>2
  <1>4. ASSUME NEW h \in Handlers, CreateCommit(h) PROVE ran'[job'[j].error] \in Bad
    <2>1. \A i \in Jobs : job'[i] = job[i] \/ \E k : job'[i] = Created(i, k)
      BY <1>4 DEF CreateCommit, IInv, TypeOK
    <2>2. \A k : Created(j, k).error = None
      BY DEF Created, NoRow
    <2>3. QED
      BY <1>1, <1>2, <2>1, <2>2
  <1>5. ASSUME NEW i \in Jobs, Expire(i) PROVE job'[j].error = job[j].error
    BY <1>5 DEF Expire, IInv, TypeOK, Row
  <1>6. ASSUME NEW h \in Handlers,
               Abort(h) \/ OwnerRequest(h) \/ ClaimRequest(h) \/ LeaseRequest(h)
        PROVE  ran'[job'[j].error] \in Bad
    <2>1. CASE CreateCommit(h)
      BY <1>4, <2>1
    <2>2. CASE ~CreateCommit(h)
      <3>1. UNCHANGED job
        BY <1>6, <2>2 DEF Abort, OwnerRequest, CreateLookup, CancelJob, ClaimRequest,
                  ClaimSweep, ClaimNothing, ClaimJob, LeaseRequest, Renew, Release, Fail,
                  LeaseWrite, CompleteLoad, CompleteAccept, RecordLookup, RecordInsert,
                  CompleteReject
      <3>2. QED
        BY <1>2, <3>1
    <2>3. QED
      BY <2>1, <2>2
  <1>7. QED
    BY <1>2, <1>3, <1>5, <1>6 DEF Next, vars

\* what came of executing is recorded under a granted lease, and a failure stays one
RanGrows ==
  /\ ran' \in [Tokens -> {"none", "ok"} \cup Bad]
  /\ \A t \in Tokens :
       ran'[t] = ran[t] \/ (granted[t] # None /\ (ran[t] \in Bad => ran'[t] \in Bad))

\* The queue's side outlasts every step in which no worker sends a call, and none has a
\* new lease id while a call is in flight.
LEMMA QueueSideStays ==
  ASSUME Calm, [Next]_vars, RanGrows, \A h \in Handlers : Evolves(call[h], call'[h]),
         \A w \in Workers : \/ wk'[w].token = None
                            \/ /\ wk'[w].token = wk[w].token
                               /\ wk[w].pc = "completing" => wk'[w].pc = "completing"
                            \/ \A h \in Handlers : call'[h].token = None
  PROVE  QueueSide'
  <1>0. IInv /\ QueueSide /\ \A t \in Tokens : ran[t] \in Bad => ran'[t] \in Bad
    BY DEF Calm, WInv, RanGrows
  <1>1. FailureIsReal'
    BY <1>0, ErrorsStay
  <1>2. RanGranted'
    <2>1. ASSUME NEW t \in Tokens, granted'[t] = None PROVE granted[t] = None
      BY <1>0, <2>1, GrantsStay
    <2>2. QED
      BY <1>0, <2>1 DEF QueueSide, RanGranted, RanGrows
  <1>3. ASSUME NEW h \in Handlers PROVE RealErrors(call[h])'
    <2> DEFINE c == call[h]
               d == call'[h]
    <2>1. KeepsErrors(c, d) /\ RealErrors(c)
      BY <1>0 DEF Evolves, QueueSide
    <2>2. c \in Call
      BY <1>0 DEF IInv, TypeOK
    <2>3. \A j \in c.rows : c.new[j].error \in Tokens \cup {None}
      BY <2>2 DEF Call, Row
    <2> HIDE DEF c, d
    <2>4. \A j \in d.rows : d.new[j].error \in {None, d.seen[j].error} \/ ran'[d.new[j].error] \in Bad
      <3>1. CASE d = c
        <4>1. ASSUME NEW j \in c.rows
              PROVE  c.new[j].error \in {None, c.seen[j].error} \/ ran'[c.new[j].error] \in Bad
          BY <1>0, <2>1, <2>3 DEF RealErrors
        <4>2. QED
          BY <3>1, <4>1
      <3>2. CASE d # c
        BY <2>1, <3>2 DEF KeepsErrors
      <3>3. QED
        BY <3>1, <3>2
    <2>5. QED
      BY <2>4 DEF RealErrors, d
  <1>4. ASSUME NEW h \in Handlers, NEW w \in Workers PROVE Presents(w, call[h])'
    <2> DEFINE c == call[h]
               d == call'[h]
               t == wk[w].token
    <2>1. Evolves(c, d) /\ Presents(w, c)
      BY <1>0 DEF QueueSide
    <2> SUFFICES ASSUME wk'[w].token # None, d.token = wk'[w].token
                 PROVE  /\ d.worker = w /\ d.rows = {granted'[d.token]}
                        /\ d.phase \in {"complete", "write"}
                        /\ d.phase = "write" =>
                             HoldsLease(d.seen[granted'[d.token]], w, d.token)
                        /\ d.phase = "complete" => wk'[w].pc = "completing"
      BY DEF Presents
    <2>2. d.token = t /\ t # None /\ (wk[w].pc = "completing" => wk'[w].pc = "completing")
      OBVIOUS
    <2>3. t \in Tokens /\ granted[t] # None
      BY <2>2, TokenGranted
    <2>4. granted'[t] = granted[t]
      BY <1>0, <2>3, GrantsStay
    <2> HIDE DEF c, d, t
    <2>5. /\ c.token = t /\ d.worker = c.worker /\ d.rows = c.rows
          /\ d = c \/ (c.phase = "complete" /\ d.phase \in {"complete", "write"})
          /\ d.phase = "write" => d = c \/ HoldsLease(d.seen[granted[d.token]], d.worker, d.token)
      BY <2>1, <2>2, <2>3 DEF Evolves
    <2>6. /\ c.worker = w /\ c.rows = {granted[c.token]} /\ c.phase \in {"complete", "write"}
          /\ c.phase = "write" => HoldsLease(c.seen[granted[c.token]], w, c.token)
          /\ c.phase = "complete" => wk[w].pc = "completing"
      BY <2>1, <2>2, <2>5 DEF Presents, t
    <2>7. QED
      BY <2>2, <2>4, <2>5, <2>6
  <1>5. QED
    BY <1>1, <1>2, <1>3, <1>4 DEF QueueSide, RanGrows

-----------------------------------------------------------------------------
(* The steps, by who makes them. *)

LEMMA SameCallEvolves == ASSUME NEW c PROVE Evolves(c, c)
  BY DEF Evolves, KeepsErrors

\* Every job completes plainly: no result is recorded or refused.
LEMMA NoneRejected ==
  ASSUME IInv, Plainly, AllPlainJobs, NEW h \in Handlers
  PROVE  ~CompleteReject(h) /\ ~RecordLookup(h) /\ ~RecordInsert(h)
  <1>1. ASSUME call[h].phase = "complete" PROVE granted[call[h].token] \in Jobs
    BY <1>1 DEF IInv, CallOK
  <1>2. QED
    BY <1>1 DEF CompleteReject, RecordLookup, RecordInsert, Plainly, AllPlainJobs

\* A step of the queue that no worker takes part in.
LEMMA StillStays ==
  ASSUME Calm, OneHandler, [Next]_vars, UNCHANGED <<wk, client, ran>>,
         \A h \in Handlers : Evolves(call[h], call'[h]),
         \A h \in Handlers, w \in Workers, task \in {"main", "renew"} :
           client[h] = <<w, task>> /\ Awaits(w, task, call[h]) => Awaits(w, task, call[h])',
         \A w \in Workers : Renewing(wk[w]) => (Quiet(wk[w].token) \/ Has(w, wk[w].token))'
  PROVE  WInv'
  <1>1. ASSUME NEW w \in Workers PROVE Known(w, wk[w])'
    <2>1. PICK s : s = wk[w]
      OBVIOUS
    <2>a. Renewing(s) => Quiet(s.token)' \/ Has(w, s.token)'
      BY <2>1 DEF Quiet, Has
    <2>2. Known(w, s)'
      BY <2>1, <2>a, KnownStays
    <2>3. QED
      BY <2>1, <2>2 DEF Known, Has, Quiet
  <1>2. ASSUME NEW h \in Handlers, client'[h] # None
        PROVE  \E w \in Workers, task \in {"main", "renew"} :
                 client'[h] = <<w, task>> /\ Awaits(w, task, call[h])'
    BY <1>2 DEF Calm, WInv
  <1>3. TokensDiffer'
    BY DEF Calm, WInv, TokensDiffer
  <1>4. QueueSide'
    <2>1. RanGrows
      BY DEF RanGrows, Calm, WInv, QueueSide
    <2>2. QED
      BY <2>1, QueueSideStays
  <1>5. QED
    BY <1>1, <1>2, <1>3, <1>4 DEF WInv

\* A call that goes on without an answer is awaited as before, and the owner's is not.
LEMMA ServerStepStays ==
  ASSUME Calm, OneHandler, AllPlainJobs, [Next]_vars, NEW h \in Handlers,
         UNCHANGED <<wk, client, ran>>,
         \/ Works(h) \/ Prepares(h)
         \/ CreateLookup(h, None) \/ \E j \in Jobs : CancelJob(h, j)
  PROVE  WInv'
  <1> DEFINE c == call[h]
             d == call'[h]
  <1>0. /\ IInv /\ Plainly /\ c \in Call
        /\ \A x : Take(h, x) => d = x
    BY DEF Calm, IInv, TypeOK, Take
  <1>1. Served(h)
    BY <1>0, NoneRejected DEF Served, Works, Prepares
  <1>2. \A g \in Handlers : Evolves(call[g], call'[g])
    BY <1>0, <1>1, ServedEvolves DEF OneHandler
  <1>3. ASSUME NEW w \in Workers, NEW task \in {"main", "renew"}, Awaits(w, task, c)
        PROVE  Awaits(w, task, call[h])'
    <2>1. c.phase \in {"sweep", "scan", "write", "complete"}
      BY <1>3 DEF Awaits
    <2>2. CASE c.phase = "sweep" /\ Commit(h)
      <3> DEFINE scan == [Idle EXCEPT !.phase = "scan", !.worker = c.worker]
      <3>1. d = scan
        BY <1>0, <2>2 DEF Commit
      <3>2. scan.token = None /\ scan.phase = "scan" /\ scan.worker = c.worker
        BY DEF Idle
      <3> HIDE DEF scan
      <3>3. QED
        BY <1>3, <2>2, <3>1, <3>2 DEF Awaits
    <2>3. CASE ClaimNothing(h) /\ d.phase = "write"
      <3>1. d = Serving("write", c.worker, None, Parked(Scanned), [i \in Jobs |-> ParkedAs(i)])
            \/ d = Idle
        BY <1>0, <2>3 DEF ClaimNothing
      <3>2. d.token = None /\ d.worker = c.worker
        BY <2>3, <3>1 DEF Serving, Idle
      <3>3. c.phase = "scan"
        BY <2>3 DEF ClaimNothing
      <3>4. QED
        BY <1>3, <2>3, <3>2, <3>3 DEF Awaits
    <2>4. ASSUME NEW j \in Jobs, NEW t \in Tokens, ClaimJob(h, j, t) PROVE Awaits(w, task, call[h])'
      <3> DEFINE new == [i \in Jobs |-> IF i = j THEN Leased(job[j], c.worker, t) ELSE ParkedAs(i)]
                 S == Parked({i \in Scanned : i < j}) \cup {j}
      <3>1. /\ d = Serving("write", c.worker, t, S, new) /\ granted[t] = None
            /\ granted' = granted /\ c.phase = "scan"
        BY <1>0, <2>4 DEF ClaimJob, Unused
      <3>2. new[j].lease = t
        <4>1. Leased(job[j], c.worker, t).lease = t
          BY <1>0, RowOf DEF Leased, Row
        <4>2. QED
          BY <4>1
      <3>3. job[j].lease # t /\ t # None
        BY <1>0, <3>1, JobQueueAssumption DEF IInv, LeaseGranted
      <3>4. j \in S
        OBVIOUS
      <3> HIDE DEF new, S
      <3>5. /\ d.phase = "write" /\ d.worker = c.worker /\ d.token = t /\ d.rows = S
            /\ d.new[j] = new[j] /\ d.seen[j] = job[j]
        BY <3>1, <3>4 DEF Serving
      <3>6. j \in Installed(d)
        BY <3>2, <3>3, <3>4, <3>5 DEF Installed
      <3>7. Installed(d) # {} /\ granted'[t] = None /\ wk' = wk
        BY <3>1, <3>6
      <3> HIDE DEF d
      <3>8. QED
        BY <1>3, <3>1, <3>5, <3>7 DEF Awaits, Installed, d
    <2>5. CASE CompleteAccept(h) /\ d.phase = "write"
      <3> DEFINE j == granted[c.token]
                 new == Succeeded(c.seen[j], c.token)
      <3>1. d = [c EXCEPT !.phase = "write", !.new[j] = new] \/ d = Idle
        BY <1>0, <2>5 DEF CompleteAccept, Complete, Settle
      <3> HIDE DEF new
      <3>a. Idle.phase = "idle"
        BY DEF Idle
      <3>2. d.token = c.token /\ d.worker = c.worker
        BY <1>0, <2>5, <3>1, <3>a DEF Call
      <3>3. c.phase = "complete"
        BY <2>5 DEF CompleteAccept
      <3>4. QED
        BY <1>3, <2>5, <3>2, <3>3 DEF Awaits
    <2>6. ~CreateCommit(h) /\ ~CreateLookup(h, None) /\ ~ \E j \in Jobs : CancelJob(h, j)
      BY <2>1 DEF CreateCommit, CreateLookup, CancelJob, Free
    <2>7. QED
      BY <1>0, <2>2, <2>3, <2>4, <2>5, <2>6, NoneRejected DEF Works, Prepares
  <1>4. \A g \in Handlers, w \in Workers, task \in {"main", "renew"} :
          client[g] = <<w, task>> /\ Awaits(w, task, call[g]) => Awaits(w, task, call[g])'
    <2>1. ASSUME NEW g \in Handlers PROVE g = h
      BY DEF OneHandler
    <2>2. ASSUME NEW w \in Workers, NEW task \in {"main", "renew"}, Awaits(w, task, call[h])
          PROVE  Awaits(w, task, call[h])'
      BY <1>3, <2>2 DEF Awaits
    <2>3. QED
      BY <2>1, <2>2
  <1>5. ASSUME NEW w \in Workers, Renewing(wk[w])
        PROVE  (Quiet(wk[w].token) \/ Has(w, wk[w].token))'
    <2> DEFINE t == wk[w].token
    <2>1. wk[w].pc # "completing" /\ wk[w].pc \notin Idling
      BY <1>5 DEF Calm, WInv, Known, Renewing, Idling
    <2>2. t \in Tokens /\ granted[t] # None /\ t # None
      BY <2>1, TokenGranted, JobQueueAssumption DEF Calm, Shapes, Fits
    <2>3. c.token # t
      <3>1. ASSUME c.token = t PROVE c.phase = "write"
        BY <2>1, <2>2, <3>1 DEF Calm, WInv, QueueSide, Presents
      <3>2. ASSUME c.phase = "write" PROVE FALSE
        BY <1>0, <3>2 DEF Works, Prepares, CreateCommit, ClaimJob, RecordLookup, ClaimNothing,
                  CompleteAccept, RecordInsert, CompleteReject, CreateLookup, CancelJob, Free
      <3>3. QED
        BY <3>1, <3>2
    <2>4. call'[h].token # t
      BY <1>2, <2>2, <2>3 DEF Evolves
    <2>5. QED
      BY <2>4 DEF Quiet, OneHandler
  <1>6. QED
    BY <1>2, <1>4, <1>5, StillStays

\* The clock: the deadline of a job that a worker attends to does not pass.
LEMMA DeadlineStays ==
  ASSUME Calm, OneHandler, [Next]_vars, NEW j \in Jobs, Expire(j), ~Attended(j),
         UNCHANGED <<wk, client, ran>>
  PROVE  WInv'
  <1>1. \A h \in Handlers : Evolves(call[h], call'[h])
    BY ExpireEvolves DEF Calm
  <1>2. ASSUME NEW h \in Handlers
        PROVE  \/ call'[h] = call[h]
               \/ /\ call[h].phase = "complete" /\ call'[h].phase = "complete"
                  /\ call'[h].token = call[h].token /\ call'[h].worker = call[h].worker
    BY DEF Expire, Calm, Plainly, IInv, TypeOK, Call
  <1>3. UNCHANGED granted
    BY DEF Expire
  <1>4. ASSUME NEW h \in Handlers, NEW w \in Workers, NEW task \in {"main", "renew"},
               Awaits(w, task, call[h])
        PROVE  Awaits(w, task, call[h])'
    BY <1>2, <1>3, <1>4 DEF Awaits, Installed
  <1>5. ASSUME NEW w \in Workers, Renewing(wk[w])
        PROVE  (Quiet(wk[w].token) \/ Has(w, wk[w].token))'
    <2> DEFINE t == wk[w].token
    <2>1. /\ wk[w].pc \in {"executing", "joining", "to_release"}
          /\ wk[w].pc = "executing" => wk[w].renew # "raised"
          /\ Quiet(t) \/ Has(w, t)
      BY <1>5 DEF Calm, WInv, Known, Renewing
    <2>2. ASSUME Quiet(t) PROVE Quiet(wk[w].token)'
      <3>1. \A h \in Handlers : call'[h].token = call[h].token
        BY <1>2
      <3>2. QED
        BY <2>2, <3>1 DEF Quiet
    <2>3. ASSUME Has(w, t) PROVE Has(w, wk[w].token)'
      <3>1. granted[t] # j
        BY <2>1, <2>3 DEF Has, HoldsLease, Attended
      <3>2. job'[granted[t]] = job[granted[t]]
        BY <3>1, TokenGranted, <2>1 DEF Expire, Calm, IInv, TypeOK, WInv, Known, Shapes, Fits, Idling
      <3>3. QED
        BY <1>3, <2>3, <3>2 DEF Has
    <2>4. QED
      BY <2>1, <2>2, <2>3
  <1>6. QED
    BY <1>1, <1>4, <1>5, StillStays

\* a worker that has ended run_once
LEMMA KnownReturned ==
  ASSUME NEW w, NEW s, Fits(s) PROVE Known(w, Returned(s)) /\ Returned(s).token = None
  <1>1. /\ Returned(s).pc \in Idling /\ Returned(s).token = None
        /\ Returned(s).exec = "none" /\ Returned(s).renew = "none"
    BY DEF Returned, Fits, Worker, Idling
  <1>2. QED
    BY <1>1 DEF Known, Idling, Renewing

\* A worker sends a call that presents its lease id.
LEMMA PresentingStays ==
  ASSUME Calm, OneHandler, NEW w \in Workers, NEW h \in Handlers,
         NEW task \in {"main", "renew"}, NEW s, NEW d,
         Sent(w, task, h, s), Take(h, d), UNCHANGED <<job, granted>>,
         s.token = wk[w].token, s.token # None, d.token = s.token, d.worker = w,
         d.rows = {granted[s.token]}, d.phase \in {"complete", "write"},
         d.phase = "write" => HoldsLease(d.seen[granted[s.token]], w, s.token),
         d.phase = "complete" => s.pc = "completing", RealErrors(d),
         (wk[w].pc = "completing" => s.pc = "completing"),
         Awaits(w, task, call[h])', Known(w, s)'
  PROVE  WInv'
  <1>1. /\ \A v \in Workers : wk'[v] = IF v = w THEN s ELSE wk[v]
        /\ client'[h] = <<w, task>> /\ UNCHANGED ran
    BY DEF Sent, Calm, Shapes
  <1>2. \A g \in Handlers : g = h /\ call'[g] = d
    BY DEF OneHandler, Take, Calm, IInv, TypeOK
  <1>3. ASSUME NEW v \in Workers, v # w PROVE Known(v, wk[v])'
    <2>1. wk'[v] = wk[v] /\ Known(v, wk[v]) /\ Fits(wk[v]) /\ Tended(wk[v])
      BY <1>1, <1>3 DEF Calm, WInv, Shapes, Lone
    <2>2. wk[v].token # None => wk[v].token # d.token
      BY <1>3 DEF Calm, WInv, TokensDiffer
    <2>3. wk[v].token # None => Quiet(wk[v].token)'
      BY <1>2, <2>1, <2>2 DEF Quiet
    <2>4. wk[v].pc \notin Idling => wk[v].token # None
      BY <2>1, JobQueueAssumption DEF Fits
    <2>5. PICK x : x = wk[v]
      OBVIOUS
    <2>6. Known(v, x)'
      BY <1>1, <2>1, <2>3, <2>4, <2>5 DEF Known, Has, Idling, Quiet, Renewing
    <2>7. QED
      BY <2>1, <2>5, <2>6 DEF Known, Has, Quiet
  <1>4. Known(w, wk[w])'
    <2>1. wk'[w] = s
      BY <1>1
    <2>2. QED
      BY <2>1 DEF Known, Has, Quiet
  <1>5. TokensDiffer'
    BY <1>1 DEF TokensDiffer, Calm, WInv
  <1>6. ASSUME NEW v \in Workers PROVE Presents(v, call[h])'
    <2>1. CASE v = w
      BY <1>1, <1>2, <2>1 DEF Presents
    <2>2. CASE v # w
      <3>1. wk'[v].token = None \/ wk'[v].token # d.token
        BY <1>1, <2>2 DEF TokensDiffer, Calm, WInv
      <3>2. QED
        BY <1>2, <3>1 DEF Presents
    <2>3. QED
      BY <2>1, <2>2
  <1>7. RealErrors(call[h])'
    BY <1>1, <1>2 DEF RealErrors
  <1>8. QueueSide'
    <2>1. \A g \in Handlers, v \in Workers : Presents(v, call[g])'
      BY <1>2, <1>6 DEF Presents
    <2>2. \A g \in Handlers : RealErrors(call[g])'
      BY <1>2, <1>7 DEF RealErrors
    <2>3. RanGranted' /\ FailureIsReal' /\ ran' \in [Tokens -> {"none", "ok"} \cup Bad]
      BY <1>1 DEF Calm, WInv, QueueSide, RanGranted, FailureIsReal
    <2>4. QED
      BY <2>1, <2>2, <2>3 DEF QueueSide
  <1>9. ASSUME NEW g \in Handlers
        PROVE  \E v \in Workers, k \in {"main", "renew"} :
                 client'[g] = <<v, k>> /\ Awaits(v, k, call[g])'
    BY <1>1, <1>2
  <1>10. \A v \in Workers : Known(v, wk[v])'
    BY <1>3, <1>4
  <1>11. QED
    BY <1>5, <1>8, <1>9, <1>10 DEF WInv

\* ... one that writes on its row.
LEMMA LeaseWriteStays ==
  ASSUME Calm, OneHandler, NEW w \in Workers, NEW h \in Handlers,
         NEW task \in {"main", "renew"}, NEW s, NEW new,
         Sent(w, task, h, s), LeaseWrite(h, w, wk[w].token, new),
         s.token = wk[w].token, wk[w].token # None, wk[w].pc # "completing",
         new.error \in {None, job[granted[wk[w].token]].error} \/ ran[new.error] \in Bad,
         \/ task = "main" /\ s.pc \in {"starting", "reporting", "failing", "releasing"}
         \/ task = "renew" /\ s.renew = "call",
         Known(w, s)'
  PROVE  WInv'
  <1> DEFINE t == wk[w].token
             j == granted[t]
             d == Serving("write", w, t, {j}, Only(new))
  <1>1. Take(h, d) /\ UNCHANGED <<job, granted>> /\ HoldsLease(job[j], w, t)
    BY DEF LeaseWrite
  <1>2. t \in Tokens /\ j \in Jobs
    BY TokenGranted
  <1>3. /\ d.phase = "write" /\ d.worker = w /\ d.token = t /\ d.rows = {j}
        /\ d.seen[j] = job[j] /\ d.new[j] = new
    BY <1>2 DEF Serving, Only
  <1> HIDE DEF d
  <1>4. RealErrors(d)
    BY <1>3 DEF RealErrors
  <1>5. call'[h] = d /\ wk'[w] = s
    BY <1>1 DEF Take, Sent, Calm, IInv, TypeOK, Shapes
  <1>6. Awaits(w, task, call[h])'
    BY <1>3, <1>5 DEF Awaits
  <1>7. QED
    BY <1>1, <1>3, <1>4, <1>6, PresentingStays

\* Sending a call.
LEMMA SendsStay ==
  ASSUME Calm, OneHandler, [Next]_vars, NEW w \in Workers, NEW h \in Handlers,
         Sends(w, h) \/ RenewTick(w, h)
  PROVE  WInv'
  <1> DEFINE s == wk[w]
             t == wk[w].token
  <1>0. Fits(s) /\ Tended(s) /\ Known(w, s) /\ s \in Worker /\ \A j \in Jobs : job[j] \in Row
    BY DEF Calm, Shapes, Lone, WInv, Fits, IInv, TypeOK
  <1>1. ASSUME s.pc \notin Idling
        PROVE  t \in Tokens /\ t # None /\ granted[t] \in Jobs
    BY <1>0, <1>1, JobQueueAssumption DEF Fits, Known
  <1>2. CASE SendClaim(w, h)
    <2>0. PICK n : n = [s EXCEPT !.pc = "claiming"]
      OBVIOUS
    <2> DEFINE expired == {j \in Jobs : job[j].status \in Active /\ job[j].exp = "past"}
               new == [j \in Jobs |-> Requeued(j, job[j])]
               d == Serving("sweep", w, None, expired, new)
    <2>1. /\ Take(h, d) /\ UNCHANGED <<job, granted, records, ran>> /\ s.pc = "idle"
          /\ wk' = [wk EXCEPT ![w] = n] /\ client' = [client EXCEPT ![h] = <<w, "main">>]
      BY <1>2, <2>0 DEF SendClaim, ClaimSweep, Sent
    <2>2. n.pc = "claiming" /\ n.token = None /\ s.token = None /\ n.renew = "none" /\ n.exec \notin {"running", "error"}
      BY <1>0, <2>0, <2>1 DEF Known, Tended, Worker, Idling
    <2>3. /\ d.phase = "sweep" /\ d.worker = w /\ d.token = None /\ d.rows = expired
          /\ \A j \in expired : d.new[j] = Requeued(j, job[j]) /\ d.seen[j] = job[j]
      BY DEF Serving
    <2>4. \A j \in Jobs : Requeued(j, job[j]).error = job[j].error
      BY <1>0 DEF Requeued, Row
    <2>5. expired \subseteq Jobs
      OBVIOUS
    <2> HIDE DEF d, expired
    <2>6. \A c : Evolves(c, d)
      BY <2>3, <2>4, <2>5 DEF Evolves, KeepsErrors
    <2>7. \A g \in Handlers : g = h /\ call'[g] = d /\ client'[g] = <<w, "main">>
      BY <2>1 DEF OneHandler, Take, Calm, IInv, TypeOK, Shapes
    <2>8. \A v \in Workers : wk'[v] = IF v = w THEN n ELSE wk[v]
      BY <2>1 DEF Calm, Shapes
    <2>9. ASSUME NEW v \in Workers PROVE Known(v, wk[v])'
      <3>1. CASE v = w
        <4>1. Known(w, n)'
          BY <2>2 DEF Known, Idling, Renewing
        <4>2. QED
          BY <2>8, <3>1, <4>1 DEF Known, Has, Quiet
      <3>2. CASE v # w
        <4>1. PICK x : x = wk[v]
          OBVIOUS
        <4>2. Known(v, x)'
          <5>1. Renewing(x) => Quiet(x.token)'
            <6>1. ASSUME Renewing(x) PROVE x.token # None
              BY <4>1, <6>1, JobQueueAssumption DEF Calm, WInv, Known, Renewing, Idling, Shapes, Fits
            <6>2. QED
              BY <2>3, <2>7, <6>1 DEF Quiet
          <5>2. QED
            BY <2>1, <2>6, <2>7, <4>1, <5>1, KnownStays
        <4>3. QED
          BY <2>8, <3>2, <4>1, <4>2 DEF Known, Has, Quiet
      <3>3. QED
        BY <3>1, <3>2
    <2>10. Awaits(w, "main", call[h])'
      BY <2>2, <2>3, <2>7, <2>8 DEF Awaits
    <2>11. TokensDiffer'
      BY <2>2, <2>8 DEF TokensDiffer, Calm, WInv
    <2>12. QueueSide'
      <3>1. RanGrows
        BY <2>1 DEF RanGrows, Calm, WInv, QueueSide
      <3>2. \A g \in Handlers : call'[g].token = None /\ Evolves(call[g], call'[g])
        BY <2>3, <2>6, <2>7
      <3>3. QED
        BY <3>1, <3>2, QueueSideStays
    <2>13. \A g \in Handlers : client'[g] # None =>
             \E v \in Workers, k \in {"main", "renew"} :
               client'[g] = <<v, k>> /\ Awaits(v, k, call[g])'
      BY <2>7, <2>10
    <2>14. QED
      BY <2>9, <2>11, <2>12, <2>13 DEF WInv
  <1>3. CASE SendStart(w, h)
    <2>0. PICK n : n = [s EXCEPT !.pc = IF @ = "claimed" THEN "starting" ELSE "reporting"]
      OBVIOUS
    <2> DEFINE new == Renewed(job[granted[t]])
    <2>1. LeaseWrite(h, w, t, new) /\ Sent(w, "main", h, n) /\ s.pc \in {"claimed", "started"}
      BY <1>3, <2>0 DEF SendStart, Renew
    <2>2. t # None /\ granted[t] \in Jobs
      BY <1>1, <2>1 DEF Idling
    <2>3. new.error = job[granted[t]].error
      BY <1>0, <2>2 DEF Renewed, Row
    <2>4. /\ n.pc \in {"starting", "reporting"} /\ n.token = t /\ n.exec = s.exec
          /\ n.renew = s.renew
      BY <1>0, <2>0, <2>1 DEF Worker
    <2>5. UNCHANGED <<granted, ran>>
      BY <2>1 DEF LeaseWrite, Sent
    <2>6. Known(w, n)'
      BY <1>0, <2>1, <2>2, <2>4, <2>5 DEF Known, Tended, Idling, Renewing
    <2> HIDE DEF new
    <2>7. QED
      BY <2>1, <2>2, <2>3, <2>4, <2>6, LeaseWriteStays
  <1>4. CASE SendFail(w, h)
    <2>0. PICK n : n = [s EXCEPT !.pc = "failing"]
      OBVIOUS
    <2> DEFINE new == Failed(job[granted[t]], t)
    <2>1. LeaseWrite(h, w, t, new) /\ Sent(w, "main", h, n) /\ s.pc = "to_fail"
      BY <1>4, <2>0 DEF SendFail, Fail
    <2>2. t # None /\ granted[t] \in Jobs
      BY <1>1, <2>1 DEF Idling
    <2>3. new.error = t
      BY <1>0, <2>2 DEF Failed, Row
    <2>4. Has(w, t)
      BY <2>1 DEF Has, LeaseWrite
    <2>5. ran[t] \in Bad
      BY <1>0, <2>1, <2>4 DEF Known
    <2>6. n.pc = "failing" /\ n.token = t /\ n.exec = s.exec /\ n.renew = s.renew
      BY <1>0, <2>0 DEF Worker
    <2>7. UNCHANGED <<granted, ran>>
      BY <2>1 DEF LeaseWrite, Sent
    <2>8. Known(w, n)'
      BY <1>0, <2>1, <2>2, <2>6, <2>7 DEF Known, Tended, Idling, Renewing
    <2> HIDE DEF new
    <2>9. QED
      BY <2>1, <2>2, <2>3, <2>5, <2>6, <2>8, LeaseWriteStays
  <1>5. CASE SendRelease(w, h)
    <2>0. PICK n : n = [s EXCEPT !.pc = "releasing"]
      OBVIOUS
    <2> DEFINE new == Requeued(granted[t], job[granted[t]])
    <2>1. LeaseWrite(h, w, t, new) /\ Sent(w, "main", h, n) /\ s.pc = "to_release"
      BY <1>5, <2>0 DEF SendRelease, Release
    <2>2. t # None /\ granted[t] \in Jobs
      BY <1>1, <2>1 DEF Idling
    <2>3. new.error = job[granted[t]].error
      BY <1>0, <2>2 DEF Requeued, Row
    <2>4. n.pc = "releasing" /\ n.token = t /\ n.exec = s.exec /\ n.renew = s.renew
      BY <1>0, <2>0 DEF Worker
    <2>5. UNCHANGED <<granted, ran>>
      BY <2>1 DEF LeaseWrite, Sent
    <2>6. Known(w, n)'
      BY <1>0, <2>1, <2>2, <2>4, <2>5 DEF Known, Tended, Idling, Renewing
    <2> HIDE DEF new
    <2>7. QED
      BY <2>1, <2>2, <2>3, <2>4, <2>6, LeaseWriteStays
  <1>6. CASE RenewTick(w, h)
    <2>0. PICK n : n = [s EXCEPT !.renew = "call"]
      OBVIOUS
    <2> DEFINE new == Renewed(job[granted[t]])
    <2>1. LeaseWrite(h, w, t, new) /\ Sent(w, "renew", h, n) /\ s.pc = "executing"
      BY <1>6, <2>0 DEF RenewTick, Renew
    <2>2. t # None /\ granted[t] \in Jobs
      BY <1>1, <2>1 DEF Idling
    <2>3. new.error = job[granted[t]].error
      BY <1>0, <2>2 DEF Renewed, Row
    <2>4. n.pc = "executing" /\ n.token = t /\ n.exec = s.exec /\ n.renew = "call"
      BY <1>0, <2>0, <2>1 DEF Worker
    <2>5. UNCHANGED <<granted, ran>>
      BY <2>1 DEF LeaseWrite, Sent
    <2>a. HoldsLease(job[granted[t]], w, t) /\ UNCHANGED job
      BY <2>1 DEF LeaseWrite
    <2>b. Has(w, n.token)'
      BY <2>4, <2>5, <2>a DEF Has
    <2>6. Known(w, n)'
      BY <1>0, <2>1, <2>2, <2>4, <2>5, <2>b DEF Known, Tended, Idling, Renewing, Has
    <2> HIDE DEF new
    <2>7. QED
      BY <2>1, <2>2, <2>3, <2>4, <2>6, LeaseWriteStays
  <1>7. CASE SendComplete(w, h)
    <2>0. PICK n : n = [s EXCEPT !.pc = "completing"]
      OBVIOUS
    <2> DEFINE d == Serving("complete", w, t, {granted[t]}, NoRows)
    <2>1. Take(h, d) /\ UNCHANGED <<job, granted>> /\ Sent(w, "main", h, n) /\ s.pc = "to_complete"
      BY <1>7, <2>0 DEF SendComplete, CompleteLoad
    <2>2. t # None /\ granted[t] \in Jobs
      BY <1>1, <2>1 DEF Idling
    <2>3. /\ d.phase = "complete" /\ d.worker = w /\ d.token = t /\ d.rows = {granted[t]}
          /\ d.new[granted[t]] = NoRow
      BY <2>2 DEF Serving, NoRows
    <2>a. NoRow.error = None
      BY DEF NoRow
    <2> HIDE DEF d
    <2>4. RealErrors(d)
      BY <2>3, <2>a DEF RealErrors
    <2>5. n.pc = "completing" /\ n.token = t /\ n.exec = s.exec /\ n.renew = s.renew
      BY <1>0, <2>0 DEF Worker
    <2>6. UNCHANGED ran /\ call'[h] = d /\ wk'[w] = n
      BY <2>1 DEF Sent, Take, Calm, IInv, TypeOK, Shapes
    <2>7. Known(w, n)'
      BY <1>0, <2>1, <2>2, <2>5, <2>6 DEF Known, Tended, Idling, Renewing
    <2>8. Awaits(w, "main", call[h])'
      BY <2>3, <2>5, <2>6 DEF Awaits
    <2>9. QED
      BY <2>1, <2>2, <2>3, <2>4, <2>5, <2>7, <2>8, PresentingStays
  <1>8. QED
    BY <1>2, <1>3, <1>4, <1>5, <1>6, <1>7 DEF Sends

\* A step that a worker makes by itself.
LEMMA LocalStays ==
  ASSUME Calm, OneHandler, UNCHANGED vars, RanGrows, NEW w \in Workers, NEW s,
         wk' = [wk EXCEPT ![w] = s], s.token \in {None, wk[w].token},
         wk[w].pc # "completing" \/ s.pc = "completing" \/ s.token = None,
         \A v \in Workers : v # w /\ wk[v].token # None => ran'[wk[v].token] = ran[wk[v].token],
         Known(w, s)',
         \A h \in Handlers :
           client'[h] = None \/ /\ client'[h] = client[h]
                                /\ \A task \in {"main", "renew"} :
                                     client[h] = <<w, task>> => Awaits(w, task, call[h])'
  PROVE  WInv'
  <1>1. \A v \in Workers : wk'[v] = IF v = w THEN s ELSE wk[v]
    BY DEF Calm, Shapes
  <1>2. UNCHANGED <<job, call, granted, records>> /\ [Next]_vars
    BY DEF vars
  <1>3. \A h \in Handlers : Evolves(call[h], call'[h])
    BY <1>2, SameCallEvolves
  <1>4. ASSUME NEW v \in Workers PROVE Known(v, wk[v])'
    <2>1. CASE v = w
      BY <1>1, <2>1 DEF Known, Has, Quiet
    <2>2. CASE v # w
      <3>1. PICK x : x = wk[v]
        OBVIOUS
      <3>2. x.token # None => ran'[x.token] = ran[x.token]
        BY <2>2, <3>1
      <3>a. Renewing(x) => Quiet(x.token)' \/ Has(v, x.token)'
        BY <1>2, <3>1 DEF Calm, WInv, Known, Quiet, Has
      <3>3. Known(v, x)'
        BY <1>2, <1>3, <3>1, <3>2, <3>a, KnownStays
      <3>4. QED
        BY <1>1, <2>2, <3>1, <3>3 DEF Known, Has, Quiet
    <2>3. QED
      BY <2>1, <2>2
  <1>5. ASSUME NEW h \in Handlers, client'[h] # None
        PROVE  \E v \in Workers, task \in {"main", "renew"} :
                 client'[h] = <<v, task>> /\ Awaits(v, task, call[h])'
    <2>1. client'[h] = client[h]
      BY <1>5
    <2>2. PICK v \in Workers, task \in {"main", "renew"} :
            client[h] = <<v, task>> /\ Awaits(v, task, call[h])
      BY <1>5, <2>1 DEF Calm, WInv
    <2>3. Awaits(v, task, call[h])'
      <3>1. CASE v = w
        BY <1>5, <2>2, <3>1
      <3>2. CASE v # w
        BY <1>1, <1>2, <2>2, <3>2 DEF Awaits, Installed
      <3>3. QED
        BY <3>1, <3>2
    <2>4. QED
      BY <2>1, <2>2, <2>3
  <1>6. TokensDiffer'
    BY <1>1 DEF TokensDiffer, Calm, WInv
  <1>7. QueueSide'
    <2>1. \A v \in Workers : \/ wk'[v].token = None
                             \/ /\ wk'[v].token = wk[v].token
                                /\ wk[v].pc = "completing" => wk'[v].pc = "completing"
      BY <1>1
    <2>2. QED
      BY <1>2, <1>3, <2>1, QueueSideStays
  <1>8. QED
    BY <1>4, <1>5, <1>6, <1>7 DEF WInv

\* the states of run_once that wait for an answer
Waits == {"claiming", "starting", "reporting", "completing", "failing", "releasing"}

\* ... as a move that may abandon its renewal call.
LEMMA MoveStays ==
  ASSUME Calm, OneHandler, UNCHANGED vars, RanGrows, NEW w \in Workers, NEW s, Moves(w, s),
         s.token \in {None, wk[w].token}, wk[w].pc \notin Waits,
         s.renew = "call" => s.token = wk[w].token, Known(w, s)',
         \A v \in Workers : v # w /\ wk[v].token # None => ran'[wk[v].token] = ran[wk[v].token]
  PROVE  WInv'
  <1>3. ASSUME NEW h \in Handlers, client'[h] # None
        PROVE  /\ client'[h] = client[h]
               /\ \A task \in {"main", "renew"} :
                    client[h] = <<w, task>> => Awaits(w, task, call[h])'
    <2>1. client'[h] = client[h] /\ ~(client[h] = <<w, "renew">> /\ s.renew # "call")
      BY <1>3 DEF Moves
    <2>2. ASSUME NEW task \in {"main", "renew"}, client[h] = <<w, task>>
          PROVE  Awaits(w, task, call[h])'
      <3>1. PICK v \in Workers, k \in {"main", "renew"} :
              client[h] = <<v, k>> /\ Awaits(v, k, call[h])
        BY <1>3, <2>1 DEF Calm, WInv
      <3>2. Awaits(w, task, call[h])
        BY <2>2, <3>1
      <3>3. task = "renew" /\ s.renew = "call" /\ call[h].phase = "write"
            /\ call[h].token = s.token
        BY <2>1, <2>2, <3>2 DEF Awaits, Waits
      <3>4. wk'[w] = s /\ call' = call
        BY DEF Moves, Calm, Shapes, vars
      <3>5. QED
        BY <3>3, <3>4 DEF Awaits
    <2>3. QED
      BY <2>1, <2>2
  <1>4. wk' = [wk EXCEPT ![w] = s]
    BY DEF Moves
  <1>5. wk[w].pc # "completing"
    BY DEF Waits
  <1>6. \A h \in Handlers :
           client'[h] = None \/ /\ client'[h] = client[h]
                                /\ \A task \in {"main", "renew"} :
                                     client[h] = <<w, task>> => Awaits(w, task, call[h])'
    BY <1>3
  <1>7. QED
    BY <1>4, <1>5, <1>6, LocalStays

\* A lease that the poll finds lost is not held, and no call of the worker is in flight.
LEMMA LostLease ==
  ASSUME Calm, NEW w \in Workers, wk[w].token # None, wk[w].pc # "completing", LeaseLost(w)
  PROVE  ~Has(w, wk[w].token) /\ Quiet(wk[w].token)
  <1> DEFINE t == wk[w].token
             j == granted[t]
  <1>1. t \in Tokens /\ j \in Jobs
    BY TokenGranted
  <1>2. ~Has(w, t)
    BY DEF Has, HoldsLease, LeaseLost, Stale
  <1>3. ASSUME NEW h \in Handlers, call[h].token = t PROVE FALSE
    <2> DEFINE c == call[h]
    <2>1. c.rows = {j} /\ c.phase = "write" /\ HoldsLease(c.seen[j], w, t)
      BY <1>3 DEF Calm, WInv, QueueSide, Presents
    <2>2. Current(c.seen[j], job[j])
      BY <2>1 DEF Calm, SInv, UpToDate
    <2>3. QED
      BY <2>1, <2>2 DEF Current, HoldsLease, LeaseLost, Stale
  <1>4. QED
    BY <1>2, <1>3 DEF Quiet

\* the generic except clause, where no executor runs
LEMMA RaisedShape ==
  ASSUME NEW s, Fits(s), s.exec # "running"
  PROVE  /\ Raised(s).exec = "none" /\ Raised(s).renew = "none"
         /\ \/ Raised(s).token = None /\ Raised(s).pc \in Idling
            \/ Raised(s).token = s.token /\ Raised(s).pc = "to_fail"
  <1> DEFINE left == [s EXCEPT !.exec = "none",
                               !.stray = IF s.exec = "running" THEN @ \cup {s.token} ELSE @]
             n == [left EXCEPT !.pc = "to_fail", !.renew = "none"]
  <1>1. left \in Worker /\ left.token = s.token /\ left.exec = "none"
    BY DEF Fits, Worker, Execs
  <1>2. Raised(s) = IF s.renew = "raised" THEN Returned(left) ELSE n
    BY DEF Raised
  <1> HIDE DEF left
  <1>3. n.pc = "to_fail" /\ n.renew = "none" /\ n.token = s.token /\ n.exec = "none"
    BY <1>1 DEF Worker
  <1> HIDE DEF n
  <1>4. /\ Returned(left).renew = "none" /\ Returned(left).token = None
        /\ Returned(left).exec = "none" /\ Returned(left).pc \in Idling
    BY <1>1 DEF Returned, Worker, Idling
  <1>5. QED
    BY <1>2, <1>3, <1>4

\* ... and the renewal task has not failed
LEMMA RaisedAlone ==
  ASSUME NEW s, s \in Worker, s.renew # "raised"
  PROVE  /\ Raised(s).token = s.token /\ Raised(s).pc = "to_fail"
         /\ Raised(s).exec = "none" /\ Raised(s).renew = "none"
  <1> DEFINE left == [s EXCEPT !.exec = "none",
                               !.stray = IF s.exec = "running" THEN @ \cup {s.token} ELSE @]
  <1>1. left.token = s.token /\ left.exec = "none" /\ DOMAIN left = DOMAIN s
        /\ DOMAIN s = {"pc", "token", "exec", "renew", "stray", "shutdown"}
    BY DEF Worker, Execs
  <1>2. Raised(s) = [left EXCEPT !.pc = "to_fail", !.renew = "none"]
    BY DEF Raised
  <1> HIDE DEF left
  <1>3. QED
    BY <1>1, <1>2

\* ... with a failure to report, or without the lease.
LEMMA KnownRaised ==
  ASSUME NEW w, NEW s, Fits(s), Known(w, s), s.pc \notin Idling, s.exec # "running",
         ran[s.token] \in Bad \/ (Quiet(s.token) /\ ~Has(w, s.token))
  PROVE  Known(w, Raised(s))
  <1> DEFINE n == Raised(s)
  <1>1. /\ n.exec = "none" /\ n.renew = "none"
        /\ (n.token = None /\ n.pc \in Idling) \/ (n.token = s.token /\ n.pc = "to_fail")
    BY RaisedShape
  <1>2. granted[s.token] \in Jobs
    BY DEF Known
  <1> HIDE DEF n
  <1>3. Known(w, n)
    BY <1>1, <1>2 DEF Known, Idling, Renewing
  <1>4. QED
    BY <1>3 DEF n

\* The steps of run_once and of its renewal task between calls.
LEMMA WorkerStepStays ==
  ASSUME NoFaults, Calm, OneHandler, NEW w \in Workers, WorkerStep(w) \/ RenewUnserved(w)
  PROVE  WInv'
  <1>0. PICK s : s = wk[w]
    OBVIOUS
  <1> DEFINE t == s.token
  <1>1. Fits(s) /\ Tended(s) /\ Known(w, s) /\ s \in Worker /\ ~Fault
    BY <1>0 DEF Calm, Shapes, Lone, WInv, Fits, Fault, NoFaults
  <1>2. s.pc \in {"claimed", "started", "executing", "joining", "to_fail", "to_release",
                  "to_complete"}
    BY <1>0 DEF WorkerStep, RenewUnserved, CheckLease, StopExecuting, Upload, UploadRefused,
                ResultInvalid, ExecutorRaised, JoinRenewal, StartUnserved, LastCallUnserved
  <1>3. s.pc \notin Idling /\ wk[w].pc \notin Waits
    BY <1>0, <1>2 DEF Idling, Waits
  <1>4. t \in Tokens /\ t # None /\ granted[t] \in Jobs
    BY <1>1, <1>3, JobQueueAssumption DEF Fits, Known
  <1>5. UNCHANGED vars /\ (ResultInvalid(w) \/ UNCHANGED ran)
    BY DEF WorkerStep, RenewUnserved, CheckLease, StopExecuting, Upload, UploadRefused,
           ExecutorRaised, JoinRenewal, StartUnserved, LastCallUnserved, ResultInvalid
  <1>6. ASSUME NEW n, Moves(w, n), n.token \in {None, t}, n.renew = "call" => n.token = t,
               Known(w, n), UNCHANGED ran
        PROVE  WInv'
    <2>1. RanGrows
      BY <1>6 DEF RanGrows, Calm, WInv, QueueSide
    <2>2. Known(w, n)'
      BY <1>5, <1>6 DEF Known, Has, Quiet, vars
    <2>3. QED
      BY <1>0, <1>3, <1>5, <1>6, <2>1, <2>2, MoveStays
  <1>7. ASSUME Moves(w, Returned(s)), UNCHANGED ran PROVE WInv'
    <2>1. Returned(s).renew = "none"
      BY <1>1 DEF Returned, Worker
    <2>2. QED
      BY <1>1, <1>6, <1>7, <2>1, KnownReturned
  <1>8. ASSUME Moves(w, Raised(s)), s.exec # "running", UNCHANGED ran,
               ran[t] \in Bad \/ (Quiet(t) /\ ~Has(w, t))
        PROVE  WInv'
    <2>1. Raised(s).token \in {None, t} /\ Raised(s).renew # "call"
      BY <1>1, <1>8, RaisedShape
    <2>2. QED
      BY <1>1, <1>3, <1>6, <1>8, <2>1, KnownRaised
  <1>9. Holds(w) <=> Has(w, t)
    BY <1>0, <1>4 DEF Holds, Has
  <1>10. LeaseLost(w) /\ s.pc # "completing" => ~Has(w, t) /\ Quiet(t)
    BY <1>0, <1>4, LostLease
  <1>11. CASE CheckLease(w)
    BY <1>0, <1>7, <1>11 DEF CheckLease
  <1>12. CASE StopExecuting(w)
    <2> DEFINE n == [s EXCEPT !.pc = "to_release", !.exec = "none", !.renew = "none"]
    <2>1. n.pc = "to_release" /\ n.exec = "none" /\ n.renew = "none" /\ n.token = t
      BY <1>1 DEF Worker
    <2>2. Moves(w, Returned(s)) \/ Moves(w, n)
      BY <1>0, <1>12 DEF StopExecuting
    <2> HIDE DEF n
    <2>a. Quiet(t) \/ Has(w, t)
      <3>1. s.pc = "executing"
        BY <1>0, <1>12 DEF StopExecuting
      <3>2. QED
        BY <1>1, <3>1 DEF Known, Renewing
    <2>3. Known(w, n)
      BY <1>4, <2>1, <2>a DEF Known, Idling, Renewing
    <2>b. UNCHANGED ran
      BY <1>12 DEF StopExecuting
    <2>4. QED
      BY <1>6, <1>7, <2>1, <2>2, <2>3, <2>b
  <1>13. CASE Upload(w)
    <2> DEFINE n == [s EXCEPT !.pc = "joining"]
    <2>1. n.pc = "joining" /\ n.exec = s.exec /\ n.renew = s.renew /\ n.token = t
      BY <1>1 DEF Worker
    <2>2. s.pc = "executing" /\ s.exec = "ok"
      BY <1>0, <1>13 DEF Upload
    <2>3. Moves(w, n) /\ UNCHANGED ran
      BY <1>0, <1>13 DEF Upload
    <2> HIDE DEF n
    <2>4. Known(w, n)
      BY <1>1, <1>4, <2>1, <2>2 DEF Known, Idling, Renewing
    <2>5. QED
      BY <1>6, <2>1, <2>3, <2>4
  <1>a. CASE UploadRefused(w)
    <2>1. /\ s.pc = "executing" /\ s.exec = "ok" /\ LeaseLost(w) /\ Moves(w, Raised(s))
          /\ UNCHANGED ran
      BY <1>0, <1>1, <1>a DEF UploadRefused
    <2>2. QED
      BY <1>8, <1>10, <2>1
  <1>b. CASE ResultInvalid(w)
    <2>0. PICK n : n = Raised(s)
      OBVIOUS
    <2>1. /\ s.exec = "ok" /\ ran' = [ran EXCEPT ![t] = "invalid"] /\ Moves(w, n)
      BY <1>0, <1>b, <2>0 DEF ResultInvalid
    <2>2. /\ ran'[t] = "invalid" /\ \A u \in Tokens \ {t} : ran'[u] = ran[u]
          /\ granted[t] # None
      BY <1>4, <2>1, JobQueueAssumption DEF Calm, WInv, QueueSide
    <2>3. RanGrows
      BY <1>4, <2>1, <2>2 DEF RanGrows, Bad, Calm, WInv, QueueSide
    <2>4. \A v \in Workers : v # w /\ wk[v].token # None => ran'[wk[v].token] = ran[wk[v].token]
      <3>1. ASSUME NEW v \in Workers, v # w, wk[v].token # None
            PROVE  wk[v].token \in Tokens \ {t}
        BY <1>0, <3>1, TokenGranted DEF Calm, WInv, TokensDiffer
      <3>2. QED
        BY <2>2, <3>1
    <2>5. /\ n.exec = "none" /\ n.renew = "none"
          /\ (n.token = None /\ n.pc \in Idling) \/ (n.token = t /\ n.pc = "to_fail")
      BY <1>1, <2>0, <2>1, RaisedShape
    <2>6. Known(w, n)'
      <3>1. granted' = granted
        BY <1>5 DEF vars
      <3>2. QED
        BY <1>4, <2>2, <2>5, <3>1 DEF Known, Bad, Idling, Renewing
    <2>7. QED
      BY <1>0, <1>3, <1>5, <2>1, <2>3, <2>4, <2>5, <2>6, MoveStays
  <1>14. CASE ExecutorRaised(w)
    <2>1. Moves(w, Raised(s)) /\ s.exec = "error" /\ UNCHANGED ran
      BY <1>0, <1>14 DEF ExecutorRaised
    <2>2. ran[t] \in Bad
      BY <1>1, <2>1 DEF Known
    <2>3. QED
      BY <1>8, <2>1, <2>2
  <1>15. CASE JoinRenewal(w)
    <2> DEFINE n == [s EXCEPT !.pc = "to_complete", !.renew = "none"]
    <2>1. n.pc = "to_complete" /\ n.exec = s.exec /\ n.renew = "none" /\ n.token = t
      BY <1>1 DEF Worker
    <2>2. /\ s.pc = "joining" /\ s.renew # "call"
          /\ (s.renew = "raised" /\ Moves(w, Raised(s))) \/ Moves(w, n)
          /\ UNCHANGED ran
      BY <1>0, <1>15 DEF JoinRenewal
    <2>3. s.exec \notin {"running", "error"}
      BY <1>1, <2>2 DEF Known, Tended
    <2> HIDE DEF n
    <2>4. Known(w, n)
      BY <1>4, <2>1, <2>3 DEF Known, Idling, Renewing
    <2>5. s.renew = "raised" => Quiet(t) /\ ~Has(w, t)
      BY <1>1, <2>2 DEF Known
    <2>6. QED
      BY <1>6, <1>8, <2>1, <2>2, <2>3, <2>4, <2>5
  <1>16. CASE StartUnserved(w)
    <2>1. s.pc \in {"claimed", "started"} /\ Moves(w, Raised(s)) /\ ~Has(w, t) /\ UNCHANGED ran
      BY <1>0, <1>1, <1>9, <1>16 DEF StartUnserved
    <2>2. Quiet(t) /\ s.exec # "running"
      BY <1>1, <2>1 DEF Known, Tended
    <2>3. QED
      BY <1>8, <2>1, <2>2
  <1>17. CASE LastCallUnserved(w)
    <2>1. wk[w].pc # "to_complete"
      BY <1>1, <1>17 DEF LastCallUnserved
    <2>2. CASE s.pc = "to_fail"
      <3>1. Moves(w, Returned(s)) /\ UNCHANGED ran
        BY <1>0, <1>17, <2>2 DEF LastCallUnserved
      <3>2. QED
        BY <1>7, <3>1
    <2>3. CASE s.pc = "to_release"
      <3>1. Moves(w, Raised(s)) /\ UNCHANGED ran /\ ~Has(w, t)
        BY <1>0, <1>1, <1>9, <1>17, <2>3 DEF LastCallUnserved
      <3>2. Quiet(t) /\ s.exec # "running"
        BY <1>1, <2>3, <3>1 DEF Known, Renewing, Tended
      <3>3. QED
        BY <1>8, <3>1, <3>2
    <2>4. QED
      BY <1>0, <1>17, <2>1, <2>2, <2>3 DEF LastCallUnserved
  <1>18. CASE RenewUnserved(w)
    <2> DEFINE n == [s EXCEPT !.renew = "raised"]
    <2>1. n.pc = s.pc /\ n.exec = s.exec /\ n.renew = "raised" /\ n.token = t
      BY <1>1 DEF Worker
    <2>2. s.pc = "executing" /\ s.renew = "sleep" /\ Moves(w, n) /\ ~Has(w, t) /\ UNCHANGED ran
      BY <1>0, <1>1, <1>9, <1>18 DEF RenewUnserved
    <2> HIDE DEF n
    <2>3. Known(w, n)
      BY <1>1, <2>1, <2>2 DEF Known, Idling, Renewing
    <2>4. QED
      BY <1>6, <2>1, <2>2, <2>3
  <1>19. QED
    BY <1>11, <1>12, <1>13, <1>14, <1>15, <1>16, <1>17, <1>18, <1>a, <1>b DEF WorkerStep

\* An executor ends, a worker is told to stop, or is started again.
LEMMA ProcessStays ==
  ASSUME NoFaults, Calm, OneHandler, NEW w \in Workers,
         \/ \E how \in {"ok", "error"} : ExecutorEnds(w, how)
         \/ Unsupported(w) \/ StrayEnds(w)
         \/ Sigterm(w) \/ Crash(w) \/ Restart(w)
  PROVE  WInv'
  <1>0. PICK s : s = wk[w]
    OBVIOUS
  <1>1. Fits(s) /\ Tended(s) /\ Known(w, s) /\ s \in Worker /\ ~Fault
    BY <1>0 DEF Calm, Shapes, Lone, WInv, Fits, Fault, NoFaults
  <1>2. ASSUME NEW h \in Handlers, NEW task \in {"main", "renew"}, client[h] = <<w, task>>
        PROVE  Awaits(w, task, call[h]) \/ client[h] = None
    BY <1>2 DEF Calm, WInv
  <1>3. ASSUME NEW how \in {"ok", "error"}, ExecutorEnds(w, how) PROVE WInv'
    <2>0. PICK n : n = [s EXCEPT !.exec = how]
      OBVIOUS
    <2>1. n.pc = "executing" /\ n.exec = how /\ n.renew = s.renew /\ n.token = s.token
      BY <1>0, <1>1, <1>3, <2>0 DEF Worker, ExecutorEnds
    <2>2. /\ wk' = [wk EXCEPT ![w] = n] /\ ran' = [ran EXCEPT ![s.token] = how]
          /\ UNCHANGED <<vars, client>> /\ s.pc = "executing" /\ s.exec = "running"
      BY <1>0, <1>3, <2>0 DEF ExecutorEnds
    <2>3. s.token \in Tokens /\ granted[s.token] \in Jobs /\ ran[s.token] = "none"
          /\ granted[s.token] # None
      BY <1>1, <2>2, JobQueueAssumption DEF Fits, Known, Idling
    <2>4. RanGrows
      BY <2>2, <2>3 DEF RanGrows, Bad, Calm, WInv, QueueSide
    <2>5. ran'[s.token] = how /\ \A t \in Tokens \ {s.token} : ran'[t] = ran[t]
      BY <2>2, <2>3 DEF Calm, WInv, QueueSide
    <2>6. \A v \in Workers : v # w /\ wk[v].token # None => ran'[wk[v].token] = ran[wk[v].token]
      <3>1. ASSUME NEW v \in Workers, v # w, wk[v].token # None
            PROVE  wk[v].token \in Tokens \ {s.token}
        BY <1>0, <3>1, TokenGranted DEF Calm, WInv, TokensDiffer
      <3>2. QED
        BY <2>5, <3>1
    <2>7. Known(w, n)'
      <3>1. UNCHANGED <<job, call, granted>>
        BY <2>2 DEF vars
      <3>2. QED
        BY <1>1, <2>1, <2>2, <2>3, <2>5, <3>1 DEF Known, Bad, Has, Quiet, Idling, Renewing
    <2>8. ASSUME NEW h \in Handlers
          PROVE  \/ client'[h] = None
                 \/ /\ client'[h] = client[h]
                    /\ \A task \in {"main", "renew"} :
                         client[h] = <<w, task>> => Awaits(w, task, call[h])'
      <3>1. client'[h] = client[h] /\ call'[h] = call[h] /\ wk'[w] = n
        BY <2>2 DEF vars, Calm, Shapes
      <3>2. ASSUME NEW task \in {"main", "renew"}, client[h] = <<w, task>>, client[h] # None
            PROVE  Awaits(w, task, call[h])'
        <4>1. Awaits(w, task, call[h])
          BY <1>2, <3>2
        <4>2. QED
          BY <1>0, <2>1, <2>2, <3>1, <4>1 DEF Awaits
      <3>3. QED
        BY <3>1, <3>2
    <2>9. QED
      BY <1>0, <2>1, <2>2, <2>4, <2>6, <2>7, <2>8, LocalStays
  <1>4. ASSUME Sigterm(w) PROVE WInv'
    <2>0. PICK n : n = IF s.pc = "idle" THEN [Fresh EXCEPT !.pc = "down", !.shutdown = TRUE]
                       ELSE [s EXCEPT !.shutdown = TRUE]
      OBVIOUS
    <2>a. s.pc = "idle" => s.token = None /\ s.renew = "none" /\ s.exec # "running"
      BY <1>1 DEF Known, Tended, Idling
    <2>1. /\ n.pc = (IF s.pc = "idle" THEN "down" ELSE s.pc)
          /\ n.exec = (IF s.pc = "idle" THEN "none" ELSE s.exec)
          /\ n.renew = s.renew /\ n.token = s.token
      BY <1>1, <2>0, <2>a DEF Worker, Fresh
    <2>2. wk' = [wk EXCEPT ![w] = n] /\ UNCHANGED <<vars, ran, client>>
      BY <1>0, <1>4, <2>0 DEF Sigterm, Calm, Shapes
    <2>3. RanGrows
      BY <2>2 DEF RanGrows, Calm, WInv, QueueSide
    <2>4. Known(w, n)'
      <3>1. UNCHANGED <<job, call, granted, ran>>
        BY <2>2 DEF vars
      <3>2. Known(w, n)
        BY <1>1, <2>1 DEF Known, Tended, Idling, Renewing
      <3>3. QED
        BY <3>1, <3>2 DEF Known, Has, Quiet
    <2>5. ASSUME NEW h \in Handlers
          PROVE  \/ client'[h] = None
                 \/ /\ client'[h] = client[h]
                    /\ \A task \in {"main", "renew"} :
                         client[h] = <<w, task>> => Awaits(w, task, call[h])'
      <3>1. /\ client'[h] = client[h] /\ call'[h] = call[h] /\ wk'[w] = n
            /\ granted' = granted
        BY <2>2 DEF vars, Calm, Shapes
      <3>2. ASSUME NEW task \in {"main", "renew"}, client[h] = <<w, task>>, client[h] # None
            PROVE  Awaits(w, task, call[h])'
        <4>1. Awaits(w, task, call[h])
          BY <1>2, <3>2
        <4>2. QED
          BY <1>0, <2>1, <3>1, <4>1 DEF Awaits, Installed
      <3>3. QED
        BY <3>1, <3>2
    <2>6. s.pc = "completing" => n.pc = "completing"
      BY <2>1
    <2>7. QED
      BY <1>0, <2>1, <2>2, <2>3, <2>4, <2>5, <2>6, LocalStays
  <1>5. ASSUME Restart(w) PROVE WInv'
    <2>0. PICK n : n = Fresh
      OBVIOUS
    <2>1. n.pc = "idle" /\ n.exec = "none" /\ n.renew = "none" /\ n.token = None
      BY <2>0 DEF Fresh
    <2>2. wk' = [wk EXCEPT ![w] = n] /\ UNCHANGED <<vars, ran, client>> /\ s.pc = "down"
      BY <1>0, <1>5, <2>0 DEF Restart
    <2>3. RanGrows
      BY <2>2 DEF RanGrows, Calm, WInv, QueueSide
    <2>4. Known(w, n)'
      BY <2>1 DEF Known, Idling, Renewing
    <2>5. ASSUME NEW h \in Handlers
          PROVE  \/ client'[h] = None
                 \/ /\ client'[h] = client[h]
                    /\ \A task \in {"main", "renew"} :
                         client[h] = <<w, task>> => Awaits(w, task, call[h])'
      <3>1. ASSUME NEW task \in {"main", "renew"}, client[h] = <<w, task>>, client[h] # None
            PROVE  FALSE
        <4>1. Awaits(w, task, call[h])
          BY <1>2, <3>1
        <4>2. s.renew # "call"
          BY <1>1, <2>2 DEF Known
        <4>3. QED
          BY <1>0, <2>2, <4>1, <4>2 DEF Awaits
      <3>2. QED
        BY <2>2, <3>1
    <2>6. QED
      BY <1>0, <2>1, <2>2, <2>3, <2>4, <2>5, LocalStays
  <1>6. ~Crash(w) /\ ~StrayEnds(w)
    BY <1>0, <1>1 DEF Crash, StrayEnds, Tended
  <1>7. ASSUME Unsupported(w) PROVE WInv'
    <2>0. PICK n : n = [s EXCEPT !.pc = "to_fail"]
      OBVIOUS
    <2>1. n.pc = "to_fail" /\ n.exec = s.exec /\ n.renew = s.renew /\ n.token = s.token
      BY <1>1, <2>0 DEF Worker
    <2>2. /\ wk' = [wk EXCEPT ![w] = n] /\ ran' = [ran EXCEPT ![s.token] = "unsupported"]
          /\ UNCHANGED <<vars, client>> /\ s.pc = "claimed"
      BY <1>0, <1>7, <2>0 DEF Unsupported
    <2>3. s.token \in Tokens /\ granted[s.token] \in Jobs /\ granted[s.token] # None
      BY <1>1, <2>2, JobQueueAssumption DEF Fits, Known, Idling
    <2>4. ran'[s.token] = "unsupported" /\ \A t \in Tokens \ {s.token} : ran'[t] = ran[t]
      BY <2>2, <2>3 DEF Calm, WInv, QueueSide
    <2>5. RanGrows
      BY <2>2, <2>3, <2>4 DEF RanGrows, Bad, Calm, WInv, QueueSide
    <2>6. \A v \in Workers : v # w /\ wk[v].token # None => ran'[wk[v].token] = ran[wk[v].token]
      <3>1. ASSUME NEW v \in Workers, v # w, wk[v].token # None
            PROVE  wk[v].token \in Tokens \ {s.token}
        BY <1>0, <3>1, TokenGranted DEF Calm, WInv, TokensDiffer
      <3>2. QED
        BY <2>4, <3>1
    <2>7. Known(w, n)'
      <3>1. UNCHANGED <<job, call, granted>> /\ s.exec \notin {"running", "error"} /\ s.renew = "none"
        BY <1>1, <2>2 DEF vars, Known, Tended
      <3>2. QED
        BY <2>1, <2>3, <2>4, <3>1 DEF Known, Bad, Idling, Renewing
    <2>8. ASSUME NEW h \in Handlers
          PROVE  \/ client'[h] = None
                 \/ /\ client'[h] = client[h]
                    /\ \A task \in {"main", "renew"} :
                         client[h] = <<w, task>> => Awaits(w, task, call[h])'
      <3>1. ASSUME NEW task \in {"main", "renew"}, client[h] = <<w, task>>, client[h] # None
            PROVE  FALSE
        <4>1. Awaits(w, task, call[h])
          BY <1>2, <3>1
        <4>2. s.renew # "call"
          BY <1>1, <2>2 DEF Known
        <4>3. QED
          BY <1>0, <2>2, <4>1, <4>2 DEF Awaits
      <3>2. QED
        BY <2>2, <3>1
    <2>9. QED
      BY <1>0, <2>1, <2>2, <2>5, <2>6, <2>7, <2>8, LocalStays
  <1>8. QED
    BY <1>3, <1>4, <1>5, <1>6, <1>7

\* The last step of a call frees its handler, and refuses a completion only without the
\* lease.
LEMMA EndsFree ==
  ASSUME Calm, OneHandler, AllPlainJobs, NEW h \in Handlers, NEW ok, Ends(h, ok)
  PROVE  /\ Served(h) /\ call'[h].token = None
         /\ ~ok => /\ call[h].phase = "complete" /\ UNCHANGED <<job, granted>>
                   /\ LET c == call[h]
                          j == granted[c.token]
                      IN ~HoldsLease(job[j], c.worker, c.token)
  <1> DEFINE c == call[h]
  <1>0. /\ IInv /\ Plainly /\ c \in Call
        /\ (\A x : Take(h, x) => call'[h] = x) /\ Idle.token = None
    BY DEF Calm, IInv, TypeOK, Take, Idle
  <1>1. CASE ok /\ c.phase = "write" /\ Commit(h)
    <2>1. call'[h] = Idle
      BY <1>0, <1>1 DEF Commit
    <2>2. QED
      BY <1>0, <1>1, <2>1 DEF Served
  <1>2. CASE ok /\ ClaimNothing(h) /\ call'[h].phase = "idle"
    <2> DEFINE d == Serving("write", c.worker, None, Parked(Scanned), [i \in Jobs |-> ParkedAs(i)])
    <2>1. call'[h] \in {Idle, d}
      BY <1>0, <1>2 DEF ClaimNothing
    <2>2. d.token = None
      BY DEF Serving
    <2> HIDE DEF d
    <2>3. QED
      BY <1>0, <1>2, <2>1, <2>2 DEF Served
  <1>3. CASE /\ CompleteAccept(h) /\ call'[h].phase = "idle"
             /\ ok <=> c.seen[granted[c.token]].status = "succeeded"
    <2> DEFINE j == granted[c.token]
               r == c.seen[j]
               new == Succeeded(r, c.token)
               d == [c EXCEPT !.phase = "write", !.new[j] = new]
    <2>1. /\ c.phase = "complete" /\ UNCHANGED <<job, granted>> /\ j \in Jobs /\ c.rows = {j}
      BY <1>0, <1>3 DEF CompleteAccept, IInv, CallOK
    <2>2. Take(h, IF ~(r.status = "succeeded" /\ r.lease = c.token) /\ HoldsLease(r, c.worker, c.token)
                  THEN d ELSE Idle)
      BY <1>3 DEF CompleteAccept, Complete, Settle
    <2>3. d.phase = "write"
      BY <1>0 DEF Call
    <2> HIDE DEF d
    <2>4. /\ call'[h] = Idle
          /\ (r.status = "succeeded" /\ r.lease = c.token) \/ ~HoldsLease(r, c.worker, c.token)
      BY <1>0, <1>3, <2>2, <2>3
    <2>5. Current(r, job[j])
      BY <2>1 DEF Calm, SInv, UpToDate
    <2>6. ~ok => ~HoldsLease(job[j], c.worker, c.token)
      <3>1. ASSUME ~ok PROVE ~HoldsLease(r, c.worker, c.token)
        BY <1>3, <2>4, <3>1
      <3>2. ~HoldsLease(r, c.worker, c.token) => ~HoldsLease(job[j], c.worker, c.token)
        BY <2>5 DEF Current, HoldsLease
      <3>3. QED
        BY <3>1, <3>2
    <2>7. QED
      BY <1>0, <1>3, <2>1, <2>4, <2>6 DEF Served
  <1>4. QED
    BY <1>0, <1>1, <1>2, <1>3, NoneRejected DEF Ends

\* The commit of a claim grants the lease id to a job.
LEMMA ClaimGrants ==
  ASSUME IInv, NEW h \in Handlers, Commit(h), Installed(call[h]) # {}
  PROVE  granted'[call[h].token] \in Jobs
  <1>1. PICK j \in Jobs : Promised(h, j)
    BY DEF Commit, IInv, CallOK, Writes
  <1>2. granted' = [granted EXCEPT ![call[h].token] = j] /\ call[h].token \in Tokens
    BY <1>1, GrantCommitKeeps DEF Promised
  <1>3. QED
    BY <1>2 DEF IInv, TypeOK

\* The answer to a call.
LEMMA AnsweredStays ==
  ASSUME Calm, OneHandler, AllPlainJobs, [Next]_vars, NEW h \in Handlers, Answered(h)
  PROVE  WInv'
  <1>0. PICK ok \in BOOLEAN : Ends(h, ok) /\ Deliver(h, ok, call[h].token) /\ UNCHANGED ran
    BY DEF Answered
  <1> DEFINE c == call[h]
  <1>1. /\ Served(h) /\ call'[h].token = None
        /\ ~ok => c.phase = "complete" /\ UNCHANGED <<job, granted>>
                  /\ ~HoldsLease(job[granted[c.token]], c.worker, c.token)
    BY <1>0, EndsFree
  <1>2. \A g \in Handlers : g = h /\ call'[g].token = None /\ Evolves(call[g], call'[g])
    BY <1>1, ServedEvolves DEF OneHandler, Calm
  <1>3. RanGrows
    BY <1>0 DEF RanGrows, Calm, WInv, QueueSide
  <1>a. ASSUME NEW w \in Workers, NEW s, s = wk[w], Renewing(s) PROVE Quiet(s.token)'
    <2>1. s.token # None
      BY <1>a, JobQueueAssumption DEF Calm, WInv, Known, Renewing, Idling, Shapes, Fits
    <2>2. QED
      BY <1>2, <2>1 DEF Quiet
  <1>4. CASE client[h] = None
    <2>1. UNCHANGED <<wk, client, ran>>
      BY <1>0, <1>4 DEF Deliver
    <2>2. ASSUME NEW g \in Handlers, NEW w \in Workers, NEW task \in {"main", "renew"},
                 client[g] = <<w, task>>, Awaits(w, task, call[g])
          PROVE  Awaits(w, task, call[g])' \/ client[g] = None
      BY <1>2, <1>4
    <2>3. ASSUME NEW w \in Workers PROVE Known(w, wk[w])'
      <3>1. PICK s : s = wk[w]
        OBVIOUS
      <3>2. Known(w, s)'
        BY <1>0, <1>2, <1>a, <3>1, KnownStays
      <3>3. QED
        BY <2>1, <3>1, <3>2 DEF Known, Has, Quiet
    <2>4. QueueSide'
      BY <1>2, <1>3, QueueSideStays
    <2>5. TokensDiffer' /\ \A g \in Handlers : client'[g] = None
      BY <1>2, <1>4, <2>1 DEF Calm, WInv, TokensDiffer
    <2>6. QED
      BY <2>3, <2>4, <2>5 DEF WInv
  <1>5. CASE client[h] # None
    <2>1. PICK w \in Workers, task \in {"main", "renew"} :
            client[h] = <<w, task>> /\ Awaits(w, task, c)
      BY <1>5 DEF Calm, WInv
    <2>2. PICK s : s = wk[w]
      OBVIOUS
    <2>3. PICK n : n = Answer(s, task, ok, c.token)
      OBVIOUS
    <2>4. /\ wk' = [wk EXCEPT ![w] = n]
          /\ client' = [g \in Handlers |->
               IF g = h \/ (client[g] = <<w, "renew">> /\ n.renew # "call")
               THEN None ELSE client[g]]
      <3>1. client[h][1] = w /\ client[h][2] = task
        BY <2>1
      <3>2. QED
        BY <1>0, <1>5, <2>2, <2>3, <3>1 DEF Deliver
    <2>5. /\ \A v \in Workers : wk'[v] = IF v = w THEN n ELSE wk[v]
          /\ \A g \in Handlers : client'[g] = None
      BY <1>2, <2>4 DEF Calm, Shapes
    <2>6. Fits(s) /\ Tended(s) /\ Known(w, s) /\ s \in Worker /\ c.token \in Tokens \cup {None}
      BY <2>2 DEF Calm, Shapes, Lone, WInv, Fits, IInv, TypeOK, Call
    <2>7. \A t \in Tokens : Quiet(t)'
      BY <1>2, JobQueueAssumption DEF Quiet
    <2>8. Known(w, s)'
      BY <1>0, <1>2, <1>a, <2>2, KnownStays
    <2>9. /\ Known(w, n)'
          /\ n.token \in {None, s.token} \/ (n.token = c.token /\ granted[c.token] = None)
      <3>1. Known(w, Returned(s)) /\ Returned(s).token = None
        BY <2>6, KnownReturned
      <3>2. ASSUME n = Returned(s) PROVE Known(w, n)' /\ n.token = None
        <4>1. n.token = None /\ n.pc \in Idling /\ n.exec = "none" /\ n.renew = "none"
          BY <2>6, <3>2 DEF Returned, Worker, Idling
        <4>2. QED
          BY <4>1 DEF Known, Idling, Renewing
      <3>3. CASE task = "renew"
        <4>1. c.phase = "write" /\ s.renew = "call" /\ ok
          BY <1>1, <2>1, <2>2, <3>3 DEF Awaits
        <4>2. n = [s EXCEPT !.renew = IF s.pc = "joining" THEN "none" ELSE "sleep"]
          BY <2>3, <3>3, <4>1 DEF Answer, RenewAnswer
        <4>3. n.pc = s.pc /\ n.token = s.token /\ n.exec = s.exec /\ n.renew \in {"none", "sleep"}
          BY <2>6, <4>2 DEF Worker
        <4>4. s.pc \in {"executing", "joining"} /\ s.token \in Tokens
          BY <2>6, <4>1 DEF Known, Fits, Idling
        <4>5. QED
          BY <2>7, <2>8, <4>3, <4>4 DEF Known, Idling, Renewing
      <3>4. ASSUME task = "main" PROVE n = MainAnswer(s, ok, c.token)
        BY <2>3, <3>4 DEF Answer
      <3>5. CASE task = "main" /\ s.pc = "claiming"
        <4>1. n = Returned(s) \/ (ok /\ c.token # None /\ n = [s EXCEPT !.pc = "claimed", !.token = c.token])
          BY <3>4, <3>5 DEF MainAnswer
        <4>2. CASE n = Returned(s)
          BY <3>2, <4>2
        <4>3. CASE ok /\ c.token # None /\ n = [s EXCEPT !.pc = "claimed", !.token = c.token]
          <5>1. granted[c.token] = None /\ Installed(c) # {} /\ c.phase \in {"sweep", "scan", "write"}
            BY <2>1, <2>2, <3>5, <4>3 DEF Awaits
          <5>2. Commit(h)
            <6>1. ~ClaimNothing(h)
              <7>1. ASSUME ClaimNothing(h) PROVE c.rows = {}
                BY <7>1 DEF ClaimNothing, Calm, IInv, CallOK
              <7>2. QED
                BY <5>1, <7>1 DEF Installed
            <6>2. ~CompleteAccept(h) /\ ~RecordInsert(h) /\ ~CompleteReject(h)
              BY <5>1 DEF CompleteAccept, RecordInsert, CompleteReject
            <6>3. QED
              BY <1>0, <6>1, <6>2 DEF Ends
          <5>3. granted'[c.token] \in Jobs
            BY <5>1, <5>2, ClaimGrants DEF Calm
          <5>4. c.token \in Tokens /\ ran'[c.token] = "none"
            BY <1>0, <2>6, <4>3, <5>1 DEF Calm, WInv, QueueSide, RanGranted
          <5>5. n.pc = "claimed" /\ n.token = c.token /\ n.exec = s.exec /\ n.renew = s.renew
            BY <2>6, <4>3 DEF Worker
          <5>6. s.exec \notin {"running", "error"} /\ s.renew = "none"
            BY <2>6, <3>5 DEF Known, Tended
          <5>7. QED
            BY <2>7, <5>1, <5>3, <5>4, <5>5, <5>6 DEF Known, Idling, Renewing
        <4>4. QED
          BY <4>1, <4>2, <4>3
      <3>6. CASE task = "main" /\ s.pc # "claiming"
        <4>1. /\ s.pc \in {"starting", "reporting", "completing", "failing", "releasing"}
              /\ c.worker = w /\ c.token = s.token
              /\ c.phase = "write" \/ s.pc = "completing"
          BY <2>1, <2>2, <3>6 DEF Awaits
        <4>2. /\ s.token \in Tokens /\ granted'[s.token] \in Jobs /\ s.renew = "none"
              /\ s.exec \notin {"running", "error"}
          BY <2>6, <2>8, <4>1 DEF Fits, Known, Idling, Tended
        <4>3. CASE s.pc = "starting"
          <5>1. n = [s EXCEPT !.pc = "started"]
            BY <1>1, <3>4, <3>6, <4>1, <4>3 DEF MainAnswer
          <5>2. n.pc = "started" /\ n.token = s.token /\ n.exec = s.exec /\ n.renew = s.renew
            BY <2>6, <5>1 DEF Worker
          <5>3. QED
            BY <2>7, <2>8, <4>2, <4>3, <5>2 DEF Known, Idling, Renewing
        <4>4. CASE s.pc = "reporting"
          <5>1. n = [s EXCEPT !.pc = "executing", !.exec = "running", !.renew = "sleep"]
            BY <1>1, <3>4, <3>6, <4>1, <4>4 DEF MainAnswer
          <5>2. n.pc = "executing" /\ n.token = s.token /\ n.exec = "running" /\ n.renew = "sleep"
            BY <2>6, <5>1 DEF Worker
          <5>3. QED
            BY <2>7, <2>8, <4>2, <4>4, <5>2 DEF Known, Idling, Renewing
        <4>5. CASE s.pc = "completing" /\ ~ok
          <5>1. n = Raised(s)
            BY <3>4, <3>6, <4>5 DEF MainAnswer
          <5>2. n.pc = "to_fail" /\ n.token = s.token /\ n.exec = "none" /\ n.renew = "none"
            BY <2>6, <4>2, <5>1, RaisedAlone
          <5>3. ~Has(w, s.token)'
            BY <1>1, <4>1, <4>5 DEF Has
          <5>4. QED
            <6>1. Quiet(n.token)' /\ ~Has(w, n.token)'
              BY <2>7, <4>2, <5>2, <5>3 DEF Has, Quiet
            <6>2. QED
              BY <4>2, <5>2, <6>1 DEF Known, Idling, Renewing
        <4>6. CASE s.pc \in {"failing", "releasing"} \/ (s.pc = "completing" /\ ok)
          <5>0. s.pc = "releasing" => ok
            BY <1>1, <4>1
          <5>1. n = Returned(s)
            BY <3>4, <3>6, <4>6, <5>0 DEF MainAnswer
          <5>2. QED
            BY <3>2, <5>1
        <4>7. QED
          BY <4>1, <4>3, <4>4, <4>5, <4>6
      <3>7. QED
        BY <3>3, <3>5, <3>6
    <2>10. ASSUME NEW v \in Workers PROVE Known(v, wk[v])'
      <3>1. CASE v = w
        BY <2>5, <2>9, <3>1 DEF Known, Has, Quiet
      <3>2. CASE v # w
        <4>1. PICK x : x = wk[v]
          OBVIOUS
        <4>2. Known(v, x)'
          BY <1>0, <1>2, <1>a, <4>1, KnownStays
        <4>3. QED
          BY <2>5, <3>2, <4>1, <4>2 DEF Known, Has, Quiet
      <3>3. QED
        BY <3>1, <3>2
    <2>11. TokensDiffer'
      <3>1. ASSUME NEW v \in Workers, wk[v].token # None PROVE granted[wk[v].token] # None
        BY <3>1, TokenGranted
      <3>2. QED
        BY <2>2, <2>5, <2>9, <3>1 DEF TokensDiffer, Calm, WInv
    <2>12. QueueSide'
      BY <1>2, <1>3, QueueSideStays
    <2>13. QED
      BY <2>5, <2>10, <2>11, <2>12 DEF WInv
  <1>6. QED
    BY <1>4, <1>5

\* Every step of a run without faults keeps what is known.
LEMMA CalmStep ==
  ASSUME NoFaults, OneHandler, AllPlainJobs, Calm, [NextLoop]_allVars
  PROVE  WInv'
  <1>0. [Next]_vars /\ ~Fault
    BY LoopSteps DEF Calm, Fault, NoFaults, Lone
  <1>1. CASE UNCHANGED allVars
    <2>1. UNCHANGED <<vars, wk, client, ran>> /\ UNCHANGED <<call, granted>>
      BY <1>1 DEF allVars, workerVars, vars
    <2>2. \A h \in Handlers : Evolves(call[h], call'[h])
      BY <2>1, SameCallEvolves
    <2>3. \A h \in Handlers, w \in Workers, task \in {"main", "renew"} :
            client[h] = <<w, task>> /\ Awaits(w, task, call[h]) => Awaits(w, task, call[h])'
      BY <2>1 DEF Awaits, Installed
    <2>4. \A w \in Workers : Renewing(wk[w]) => (Quiet(wk[w].token) \/ Has(w, wk[w].token))'
      BY <2>1 DEF Calm, WInv, Known, Quiet, Has, vars
    <2>5. QED
      BY <1>0, <2>1, <2>2, <2>3, <2>4, StillStays
  <1>2. ASSUME NEW h \in Handlers,
               ServerStep(h) \/ Answered(h) \/ AnswerLost(h) \/ TimedOut(h) \/ RequestDies(h)
                 \/ Owner(h)
        PROVE  WInv'
    <2>1. CASE ServerStep(h) \/ Owner(h)
      <3>1. /\ UNCHANGED <<wk, client, ran>>
            /\ \/ Works(h) \/ Prepares(h)
               \/ CreateLookup(h, None) \/ \E j \in Jobs : CancelJob(h, j)
        BY <2>1 DEF ServerStep, Owner, workerVars
      <3>2. QED
        BY <1>0, <3>1, ServerStepStays
    <2>2. CASE Answered(h)
      BY <1>0, <2>2, AnsweredStays
    <2>3. ~AnswerLost(h) /\ ~TimedOut(h) /\ ~RequestDies(h)
      BY <1>0 DEF AnswerLost, TimedOut, RequestDies
    <2>4. QED
      BY <1>2, <2>1, <2>2, <2>3
  <1>3. ASSUME NEW w \in Workers, NEW h \in Handlers, Sends(w, h) \/ RenewTick(w, h)
        PROVE  WInv'
    BY <1>0, <1>3, SendsStay
  <1>4. ASSUME NEW w \in Workers, WorkerStep(w) \/ CheckUnserved(w) \/ RenewUnserved(w)
        PROVE  WInv'
    <2>1. ~CheckUnserved(w)
      BY <1>0 DEF CheckUnserved
    <2>2. QED
      BY <1>4, <2>1, WorkerStepStays
  <1>5. ASSUME NEW w \in Workers,
               \/ \E how \in {"ok", "error"} : ExecutorEnds(w, how)
               \/ Unsupported(w) \/ StrayEnds(w)
               \/ Sigterm(w) \/ Crash(w) \/ Restart(w)
        PROVE  WInv'
    BY <1>5, ProcessStays
  <1>6. ASSUME NEW j \in Jobs, Deadline(j) PROVE WInv'
    BY <1>0, <1>6, DeadlineStays DEF Deadline
  <1>7. QED
    BY <1>1, <1>2, <1>3, <1>4, <1>5, <1>6 DEF NextLoop

LEMMA CalmInvariance ==
  ASSUME NoFaults, OneHandler, AllPlainJobs
  PROVE  SpecLoop => []Calm
  <1>1. InitLoop => WInv
    <2> SUFFICES ASSUME InitLoop PROVE WInv
      OBVIOUS
    <2>1. /\ \A j \in Jobs : job[j] = NoRow
          /\ \A h \in Handlers : call[h] = Idle /\ client[h] = None
          /\ \A w \in Workers : wk[w] = Fresh
          /\ ran = [t \in Tokens |-> "none"]
      BY DEF InitLoop, Init
    <2>2. \A w \in Workers : Known(w, wk[w]) /\ wk[w].token = None
      BY <2>1 DEF Known, Fresh, Idling, Renewing
    <2>3. \A h \in Handlers, w \in Workers : Presents(w, call[h])
      BY <2>2 DEF Presents
    <2>4. \A h \in Handlers : call[h].rows = {}
      BY <2>1 DEF Idle
    <2>5. \A h \in Handlers : RealErrors(call[h])
      BY <2>4 DEF RealErrors
    <2>6. FailureIsReal
      BY <2>1 DEF FailureIsReal, NoRow
    <2>7. RanGranted /\ ran \in [Tokens -> {"none", "ok"} \cup Bad]
      BY <2>1 DEF RanGranted
    <2>8. TokensDiffer
      BY <2>2 DEF TokensDiffer
    <2>9. QED
      BY <2>1, <2>2, <2>3, <2>5, <2>6, <2>7, <2>8 DEF WInv, QueueSide
  <1>2. SpecLoop => []SInv
    BY LoopUsesQueue, SerialInvariance, PTL
  <1>3. IInv /\ SInv /\ Shapes /\ Lone /\ Plainly /\ WInv /\ [NextLoop]_allVars => WInv'
    BY CalmStep DEF Calm
  <1>4. InitLoop => Plainly
    BY DEF InitLoop, Init, Idle, Plainly
  <1>5. IInv /\ Shapes /\ Plainly /\ [NextLoop]_allVars => Plainly'
    BY LoopSteps, PlainlyStep
  <1>6. SpecLoop => [](Plainly /\ WInv)
    BY <1>1, <1>2, <1>3, <1>4, <1>5, LoneInvariance, PTL DEF SpecLoop
  <1>7. IInv /\ SInv /\ Shapes /\ Lone /\ Plainly /\ WInv => Calm
    BY DEF Calm
  <1>8. QED
    BY <1>2, <1>6, <1>7, LoneInvariance, PTL

\* A worker that holds its lease while it executes or has a result goes on with run_once.
LEMMA HolderGoesOn ==
  ASSUME NoFaults, OneHandler, AllPlainJobs, Calm, NextLoop, NEW w \in Workers,
         wk[w].pc \in {"executing", "joining"}, Holds(w)
  PROVE  wk'[w].token = wk[w].token /\ wk'[w].pc \notin Idling
  <1>0. PICK s : s = wk[w]
    OBVIOUS
  <1>1. /\ Fits(s) /\ Tended(s) /\ Known(w, s) /\ s \in Worker /\ ~Fault
        /\ s.pc \in {"executing", "joining"} /\ s.pc \notin Idling
    BY <1>0 DEF Calm, Shapes, Lone, WInv, Fits, Fault, NoFaults, Idling
  <1>2. Has(w, s.token) /\ s.renew # "raised" /\ ~LeaseLost(w)
    BY <1>0, <1>1 DEF Holds, Has, Known, LeaseLost, Stale, HoldsLease
  <1>3. ASSUME wk'[w] = wk[w] PROVE wk'[w].token = wk[w].token /\ wk'[w].pc \notin Idling
    BY <1>0, <1>1, <1>3
  <1>4. ASSUME NEW n, wk' = [wk EXCEPT ![w] = n], n.token = s.token, n.pc \notin Idling
        PROVE  wk'[w].token = wk[w].token /\ wk'[w].pc \notin Idling
    BY <1>0, <1>4 DEF Calm, Shapes
  <1>5. ASSUME NEW v \in Workers, NEW h \in Handlers, Sends(v, h) \/ RenewTick(v, h)
        PROVE  wk'[w].token = wk[w].token /\ wk'[w].pc \notin Idling
    <2>1. CASE v = w
      <3>1. RenewTick(w, h)
        BY <1>0, <1>1, <1>5, <2>1
           DEF Sends, SendClaim, SendStart, SendComplete, SendFail, SendRelease
      <3>2. PICK n : n = [s EXCEPT !.renew = "call"]
        OBVIOUS
      <3>3. n.token = s.token /\ n.pc = s.pc
        BY <1>1, <3>2 DEF Worker
      <3>4. wk' = [wk EXCEPT ![w] = n]
        BY <1>0, <3>1, <3>2 DEF RenewTick, Sent
      <3>5. QED
        BY <1>1, <1>4, <3>3, <3>4
    <2>2. CASE v # w
      <3>1. wk'[w] = wk[w]
        BY <1>5, <2>2 DEF Sends, SendClaim, SendStart, SendComplete, SendFail, SendRelease,
                          RenewTick, Sent, Calm, Shapes
      <3>2. QED
        BY <1>3, <3>1
    <2>3. QED
      BY <2>1, <2>2
  <1>6. ASSUME NEW v \in Workers, WorkerStep(v) \/ CheckUnserved(v) \/ RenewUnserved(v)
        PROVE  wk'[w].token = wk[w].token /\ wk'[w].pc \notin Idling
    <2>0. \E n : Moves(v, n)
      BY <1>6 DEF WorkerStep, CheckUnserved, RenewUnserved, CheckLease, StopExecuting, Upload,
                  UploadRefused, ResultInvalid, ExecutorRaised, JoinRenewal, StartUnserved,
                  LastCallUnserved
    <2>1. CASE v # w
      <3>1. wk'[w] = wk[w]
        BY <2>0, <2>1 DEF Moves, Calm, Shapes
      <3>2. QED
        BY <1>3, <3>1
    <2>2. CASE v = w
      <3>1. PICK x1 : x1 = [s EXCEPT !.pc = "to_release", !.exec = "none", !.renew = "none"]
        OBVIOUS
      <3>2. PICK x2 : x2 = [s EXCEPT !.pc = "joining"]
        OBVIOUS
      <3>3. PICK x3 : x3 = [s EXCEPT !.pc = "to_complete", !.renew = "none"]
        OBVIOUS
      <3>4. PICK x4 : x4 = [s EXCEPT !.renew = "raised"]
        OBVIOUS
      <3>5. /\ Raised(s).token = s.token /\ Raised(s).pc = "to_fail"
            /\ \A x \in {x1, x2, x3, x4} : x.token = s.token /\ x.pc \notin Idling
        <4>1. \A x \in {x1, x2, x3, x4} : x.token = s.token /\ x.pc \notin Idling
          BY <1>1, <3>1, <3>2, <3>3, <3>4 DEF Worker, Idling
        <4>2. Raised(s).token = s.token /\ Raised(s).pc = "to_fail"
          BY <1>1, <1>2, RaisedAlone
        <4>3. QED
          BY <4>1, <4>2
      <3>6. Moves(w, Raised(s)) \/ \E x \in {x1, x2, x3, x4} : Moves(w, x)
        BY <1>0, <1>1, <1>2, <1>6, <2>2, <3>1, <3>2, <3>3, <3>4
           DEF WorkerStep, CheckUnserved, RenewUnserved, CheckLease, StopExecuting, Upload,
               UploadRefused, ResultInvalid, ExecutorRaised, JoinRenewal, StartUnserved,
               LastCallUnserved
      <3>7. QED
        BY <1>4, <3>5, <3>6 DEF Moves, Idling
    <2>3. QED
      BY <2>1, <2>2
  <1>7. ASSUME NEW v \in Workers,
               \/ \E how \in {"ok", "error"} : ExecutorEnds(v, how)
               \/ Unsupported(v) \/ StrayEnds(v)
               \/ Sigterm(v) \/ Crash(v) \/ Restart(v)
        PROVE  wk'[w].token = wk[w].token /\ wk'[w].pc \notin Idling
    <2>1. ~Crash(v) /\ \E n : wk' = [wk EXCEPT ![v] = n]
      BY <1>1, <1>7 DEF Crash, ExecutorEnds, Unsupported, StrayEnds, Restart, Sigterm
    <2>2. CASE v # w
      <3>1. wk'[w] = wk[w]
        BY <2>1, <2>2 DEF Calm, Shapes
      <3>2. QED
        BY <1>3, <3>1
    <2>3. CASE v = w
      <3>1. ASSUME NEW how \in {"ok", "error"}, ExecutorEnds(w, how)
            PROVE  wk'[w].token = wk[w].token /\ wk'[w].pc = wk[w].pc
        BY <1>0, <1>1, <3>1 DEF ExecutorEnds, Calm, Shapes, Worker
      <3>2. ASSUME Sigterm(w) PROVE wk'[w].token = wk[w].token /\ wk'[w].pc = wk[w].pc
        BY <1>0, <1>1, <3>2 DEF Sigterm, Calm, Shapes, Worker
      <3>3. ~Restart(w) /\ ~Unsupported(w) /\ ~StrayEnds(w)
        BY <1>0, <1>1 DEF Restart, Unsupported, StrayEnds, Tended
      <3>4. QED
        BY <1>0, <1>1, <1>7, <2>1, <2>3, <3>1, <3>2, <3>3
    <2>4. QED
      BY <2>2, <2>3
  <1>8. ASSUME NEW h \in Handlers, Answered(h)
        PROVE  wk'[w].token = wk[w].token /\ wk'[w].pc \notin Idling
    <2>1. CASE client[h] = None
      BY <1>3, <1>8, <2>1 DEF Answered, Deliver
    <2>2. CASE client[h] # None
      <3>1. PICK v \in Workers, task \in {"main", "renew"} :
              client[h] = <<v, task>> /\ Awaits(v, task, call[h])
        BY <2>2 DEF Calm, WInv
      <3>2. PICK ok \in BOOLEAN : Deliver(h, ok, call[h].token)
        BY <1>8 DEF Answered
      <3>3. wk' = [wk EXCEPT ![v] = Answer(wk[v], task, ok, call[h].token)]
        <4>1. client[h][1] = v /\ client[h][2] = task
          BY <3>1
        <4>2. QED
          BY <2>2, <3>2, <4>1 DEF Deliver
      <3>4. CASE v # w
        <4>1. wk'[w] = wk[w]
          BY <3>3, <3>4 DEF Calm, Shapes
        <4>2. QED
          BY <1>3, <4>1
      <3>5. CASE v = w
        <4>1. task = "renew"
          BY <1>0, <1>1, <3>1, <3>5 DEF Awaits
        <4>2. PICK n : n = RenewAnswer(s, ok)
          OBVIOUS
        <4>3. n.token = s.token /\ n.pc = s.pc
          BY <1>1, <4>2 DEF RenewAnswer, Worker
        <4>4. wk' = [wk EXCEPT ![w] = n]
          BY <1>0, <3>3, <3>5, <4>1, <4>2 DEF Answer
        <4>5. QED
          BY <1>1, <1>4, <4>3, <4>4
      <3>6. QED
        BY <3>4, <3>5
    <2>3. QED
      BY <2>1, <2>2
  <1>9. ASSUME UNCHANGED wk PROVE wk'[w].token = wk[w].token /\ wk'[w].pc \notin Idling
    BY <1>3, <1>9
  <1>10. ASSUME NEW h \in Handlers,
               ServerStep(h) \/ AnswerLost(h) \/ TimedOut(h) \/ RequestDies(h) \/ Owner(h)
        PROVE  UNCHANGED wk
    BY <1>1, <1>10 DEF ServerStep, AnswerLost, TimedOut, RequestDies, Owner, workerVars
  <1>11. ASSUME NEW j \in Jobs, Deadline(j) PROVE UNCHANGED wk
    BY <1>11 DEF Deadline
  <1>12. QED
    BY <1>5, <1>6, <1>7, <1>8, <1>9, <1>10, <1>11 DEF NextLoop

\* Without faults and without overlapping requests a job fails only because its executor
\* failed, returned something invalid, or did not exist: never because its worker was
\* stopped, its lease was lost to expiry or cancellation, a release was refused or a
\* completion came too late.
THEOREM FailuresReal ==
  ASSUME NoFaults, OneHandler, AllPlainJobs
  PROVE  SpecLoop => []FailureIsReal
  <1>1. Calm => FailureIsReal
    BY DEF Calm, WInv, QueueSide
  <1>2. QED
    BY <1>1, CalmInvariance, PTL

\* A worker that is told to stop while it executes under a lease in force does not stop
\* before it has gone on to release that lease.
THEOREM StopsRelease ==
  ASSUME NoFaults, OneHandler, AllPlainJobs
  PROVE  SpecLoop => ReleasesBeforeStopping
  <1>1. Calm /\ [NextLoop]_allVars =>
          [\A w \in Workers :
             wk[w].exec = "running" /\ Holds(w) /\ ~Crashes(w) => wk'[w].pc # "down"]_allVars
    <2> SUFFICES ASSUME Calm, NextLoop, NEW w \in Workers, wk[w].exec = "running", Holds(w)
                 PROVE  wk'[w].pc # "down"
      OBVIOUS
    <2>1. wk[w].pc = "executing"
      BY DEF Calm, Lone, Tended
    <2>2. QED
      BY <2>1, HolderGoesOn DEF Idling
  <1>2. QED
    BY <1>1, CalmInvariance, PTL DEF SpecLoop, ReleasesBeforeStopping
=============================================================================
