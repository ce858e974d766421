---------------------------- MODULE RuntimeProofs ----------------------------
(***************************************************************************)
(* Image jobs get images of their own, and jobs that end leave no prompt   *)
(* behind, for any number of jobs, failures and prompts of a server that   *)
(* does what it likes.                                                     *)
(*                                                                         *)
(* The argument.  As long as the loop has left no task running, only the   *)
(* job it is at is working, so that the file a prompt reads is that of its *)
(* job until the prompt has run (Own).  Whether a prompt is left behind is *)
(* a question about one job: cancel() knows its prompt from the answer to  *)
(* the submission until the task ends, and what the server has ended it    *)
(* does not run again (Clean).                                             *)
(***************************************************************************)
EXTENDS ImageRuntime, TLAPS

Shape ==
  /\ DOMAIN task = Tasks /\ \A j \in Tasks : DOMAIN task[j] = {"step", "polls"}
  /\ DOMAIN report = Tasks /\ DOMAIN prompt = Tasks /\ DOMAIN made = Tasks
  /\ active \subseteq Tasks

Early == {"new", "inputs", "submit"}
Late == {"collect", "version", "done"}

\* what job j makes is its own
Own(j) ==
  /\ task[j].step \in Working => doing = j
  /\ task[j].step \in Working \ {"inputs"} => file = j
  /\ task[j].step \in {"sent", "wait"} /\ prompt[j] \in {"running", "success"} => made[j] = j
  /\ task[j].step \in Late => made[j] = j
  /\ report[j] = "completed" => task[j].step = "done"

\* what job j leaves on the server
Clean(j) ==
  /\ task[j].step \in {"wait", "collect"} => j \in active
  /\ j \in active => \/ task[j].step \in {"wait", "collect"}
                     \/ task[j].step = "failed" /\ j \in excused
  /\ task[j].step \in Early => prompt[j] = "none"
  /\ report[j] = "stopping" => task[j].step \notin Early \cup {"sent"}
  /\ report[j] = "stopping" /\ j \notin excused => prompt[j] \notin Live
  /\ task[j].step \in Late => prompt[j] = "success"
  /\ task[j].step = "failed" /\ j \notin excused => prompt[j] \in {"error", "cancelled"}
  /\ task[j].step = "stopped" /\ j \notin excused => prompt[j] \notin Live

IInv ==
  /\ Shape
  /\ \A j \in Tasks : Clean(j)
  /\ astray = {} => \A j \in Tasks : Own(j)

-----------------------------------------------------------------------------
(* A step of one job leaves the tasks, reports and prompts of the others.  *)

\* a job: how far its task is, what is known of it
Same(k) ==
  /\ task'[k] = task[k] /\ report'[k] = report[k] /\ prompt'[k] = prompt[k] /\ made'[k] = made[k]
  /\ k \in active' <=> k \in active
  /\ k \in excused => k \in excused'

\* Jobs a step is not about: they are as clean as before, and their images are their
\* own if neither the loop nor the file goes away from them.
LEMMA OthersKeep ==
  ASSUME IInv, NEW j \in Tasks, \A k \in Tasks \ {j} : Same(k)
  PROVE  /\ \A k \in Tasks \ {j} : Clean(k)'
         /\ astray = {} /\ (doing = j \/ doing = Nobody \/ (doing' = doing /\ file' = file))
              => \A k \in Tasks \ {j} : Own(k)'
  <1>1. ASSUME NEW k \in Tasks \ {j}
        PROVE  Clean(k)'
    BY <1>1 DEF IInv, Clean, Same
  <1>2. ASSUME NEW k \in Tasks \ {j}, astray = {},
               doing = j \/ doing = Nobody \/ (doing' = doing /\ file' = file)
        PROVE  Own(k)'
    <2>1. Own(k) /\ Same(k) /\ k # Nobody
      BY <1>2, ImageRuntimeAssumption DEF IInv
    <2>2. CASE doing' = doing /\ file' = file
      BY <2>1, <2>2 DEF Own, Same
    <2>3. CASE doing = j \/ doing = Nobody
      <3>1. task[k].step \notin Working
        BY <2>1, <2>3 DEF Own
      <3>2. QED
        BY <2>1, <3>1 DEF Own, Same, Working
    <2>4. QED
      BY <1>2, <2>2, <2>3
  <1>3. QED
    BY <1>1, <1>2

\* The step of a task.
LEMMA StepTakes ==
  ASSUME IInv, NEW j \in Tasks, NEW step, Step(j, step)
  PROVE  /\ DOMAIN task' = Tasks /\ \A k \in Tasks : DOMAIN task'[k] = {"step", "polls"}
         /\ task'[j].step = step
         /\ \A k \in Tasks \ {j} : task'[k] = task[k]
  <1>1. /\ DOMAIN task = Tasks /\ \A k \in Tasks : DOMAIN task[k] = {"step", "polls"}
        /\ task' = [task EXCEPT ![j] = [@ EXCEPT !.step = step]]
    BY DEF IInv, Shape, Step
  <1>2. task'[j] = [task[j] EXCEPT !.step = step] /\ \A k \in Tasks \ {j} : task'[k] = task[k]
    BY <1>1
  <1>3. DOMAIN task'[j] = {"step", "polls"} /\ task'[j].step = step
    BY <1>1, <1>2
  <1>4. QED
    BY <1>1, <1>2, <1>3

\* What has to be shown of a step that is about one job.
LEMMA JobStep ==
  ASSUME IInv, NEW j \in Tasks, Shape', \A k \in Tasks \ {j} : Same(k), Clean(j)',
         astray' = {} => /\ astray = {} /\ Own(j)'
                         /\ doing = j \/ doing = Nobody \/ (doing' = doing /\ file' = file)
  PROVE  IInv'
  <1>1. \A k \in Tasks : Clean(k)'
    <2>1. \A k \in Tasks \ {j} : Clean(k)'
      BY OthersKeep
    <2>2. QED
      BY <2>1
  <1>2. ASSUME astray' = {}
        PROVE  \A k \in Tasks : Own(k)'
    <2>1. \A k \in Tasks \ {j} : Own(k)'
      BY OthersKeep, <1>2
    <2>2. Own(j)'
      BY <1>2
    <2>3. QED
      BY <2>1, <2>2
  <1>3. QED
    BY <1>1, <1>2 DEF IInv

-----------------------------------------------------------------------------
(* execute() *)

LEMMA ClaimKeeps ==
  ASSUME IInv, NEW j \in Tasks, Claim(j)
  PROVE  IInv'
  <1>1. /\ Step(j, "inputs") /\ task[j].step = "new" /\ doing = Nobody /\ doing' = j
        /\ UNCHANGED <<active, report, file, prompt, made, excused, astray>>
    BY DEF Claim, At
  <1>2. /\ DOMAIN task' = Tasks /\ \A k \in Tasks : DOMAIN task'[k] = {"step", "polls"}
        /\ task'[j].step = "inputs" /\ \A k \in Tasks \ {j} : task'[k] = task[k]
    BY StepTakes, <1>1
  <1>3. Shape' /\ \A k \in Tasks \ {j} : Same(k)
    BY <1>1, <1>2 DEF IInv, Shape, Same
  <1>4. Clean(j)'
    BY <1>1, <1>2 DEF IInv, Clean, Early, Late
  <1>5. ASSUME astray' = {}
        PROVE  Own(j)' /\ astray = {}
    BY <1>1, <1>2, <1>5 DEF IInv, Own, Working, Late
  <1>6. QED
    BY JobStep, <1>1, <1>3, <1>4, <1>5

LEMMA SendInputsKeeps ==
  ASSUME IInv, NEW j \in Tasks, SendInputs(j)
  PROVE  IInv'
  <1>1. /\ Step(j, "submit") /\ task[j].step = "inputs" /\ file' = j
        /\ UNCHANGED <<doing, active, report, prompt, made, excused, astray>>
    BY DEF SendInputs, At
  <1>2. /\ DOMAIN task' = Tasks /\ \A k \in Tasks : DOMAIN task'[k] = {"step", "polls"}
        /\ task'[j].step = "submit" /\ \A k \in Tasks \ {j} : task'[k] = task[k]
    BY StepTakes, <1>1
  <1>3. Shape' /\ \A k \in Tasks \ {j} : Same(k)
    BY <1>1, <1>2 DEF IInv, Shape, Same
  <1>4. Clean(j)'
    BY <1>1, <1>2 DEF IInv, Shape, Clean, Early, Late, Live, Working
  <1>5. ASSUME astray' = {}
        PROVE  Own(j)' /\ astray = {} /\ doing = j
    BY <1>1, <1>2, <1>5 DEF IInv, Shape, Clean, Own, Working, Late, Early
  <1>6. QED
    BY JobStep, <1>3, <1>4, <1>5

LEMMA SubmitKeeps ==
  ASSUME IInv, NEW j \in Tasks, Submit(j)
  PROVE  IInv'
  <1>1. /\ Step(j, "sent") /\ task[j].step = "submit"
        /\ prompt' = [prompt EXCEPT ![j] = "queued"]
        /\ UNCHANGED <<doing, active, report, file, made, excused, astray>>
    BY DEF Submit, At
  <1>2. /\ DOMAIN task' = Tasks /\ \A k \in Tasks : DOMAIN task'[k] = {"step", "polls"}
        /\ task'[j].step = "sent" /\ \A k \in Tasks \ {j} : task'[k] = task[k]
    BY StepTakes, <1>1
  <1>3. Shape' /\ \A k \in Tasks \ {j} : Same(k)
    BY <1>1, <1>2 DEF IInv, Shape, Same
  <1>4. Clean(j)'
    BY <1>1, <1>2 DEF IInv, Shape, Clean, Early, Late, Live, Working
  <1>5. ASSUME astray' = {}
        PROVE  Own(j)' /\ astray = {} /\ doing = j
    BY <1>1, <1>2, <1>5 DEF IInv, Shape, Clean, Own, Working, Late, Early
  <1>6. QED
    BY JobStep, <1>3, <1>4, <1>5

LEMMA SubmittedKeeps ==
  ASSUME IInv, NEW j \in Tasks, Submitted(j)
  PROVE  IInv'
  <1>1. /\ Step(j, "wait") /\ task[j].step = "sent" /\ active' = active \cup {j}
        /\ UNCHANGED <<doing, report, file, prompt, made, excused, astray>>
    BY DEF Submitted, At
  <1>2. /\ DOMAIN task' = Tasks /\ \A k \in Tasks : DOMAIN task'[k] = {"step", "polls"}
        /\ task'[j].step = "wait" /\ \A k \in Tasks \ {j} : task'[k] = task[k]
    BY StepTakes, <1>1
  <1>3. Shape' /\ \A k \in Tasks \ {j} : Same(k)
    BY <1>1, <1>2 DEF IInv, Shape, Same
  <1>4. Clean(j)'
    BY <1>1, <1>2 DEF IInv, Shape, Clean, Early, Late, Live, Working
  <1>5. ASSUME astray' = {}
        PROVE  Own(j)' /\ astray = {} /\ doing = j
    BY <1>1, <1>2, <1>5 DEF IInv, Shape, Clean, Own, Working, Late, Early
  <1>6. QED
    BY JobStep, <1>3, <1>4, <1>5

LEMMA MalformedKeeps ==
  ASSUME IInv, NEW j \in Tasks, Malformed(j)
  PROVE  IInv'
  <1>1. /\ Step(j, "failed") /\ task[j].step = "sent" /\ active' \in {active, active \cup {j}}
        /\ excused' = excused \cup {j}
        /\ UNCHANGED <<doing, report, file, prompt, made, astray>>
    BY DEF Malformed, At
  <1>2. /\ DOMAIN task' = Tasks /\ \A k \in Tasks : DOMAIN task'[k] = {"step", "polls"}
        /\ task'[j].step = "failed" /\ \A k \in Tasks \ {j} : task'[k] = task[k]
    BY StepTakes, <1>1
  <1>3. Shape' /\ \A k \in Tasks \ {j} : Same(k)
    BY <1>1, <1>2 DEF IInv, Shape, Same
  <1>4. Clean(j)'
    BY <1>1, <1>2 DEF IInv, Shape, Clean, Early, Late, Live, Working
  <1>5. ASSUME astray' = {}
        PROVE  Own(j)' /\ astray = {} /\ doing = j
    BY <1>1, <1>2, <1>5 DEF IInv, Shape, Clean, Own, Working, Late, Early
  <1>6. QED
    BY JobStep, <1>3, <1>4, <1>5

LEMMA CollectKeeps ==
  ASSUME IInv, NEW j \in Tasks, Collect(j)
  PROVE  IInv'
  <1>1. /\ Step(j, "version") /\ task[j].step = "collect" /\ active' = active \ {j}
        /\ UNCHANGED <<doing, report, file, prompt, made, excused, astray>>
    BY DEF Collect, At
  <1>2. /\ DOMAIN task' = Tasks /\ \A k \in Tasks : DOMAIN task'[k] = {"step", "polls"}
        /\ task'[j].step = "version" /\ \A k \in Tasks \ {j} : task'[k] = task[k]
    BY StepTakes, <1>1
  <1>3. Shape' /\ \A k \in Tasks \ {j} : Same(k)
    BY <1>1, <1>2 DEF IInv, Shape, Same
  <1>4. Clean(j)'
    BY <1>1, <1>2 DEF IInv, Shape, Clean, Early, Late, Live, Working
  <1>5. ASSUME astray' = {}
        PROVE  Own(j)' /\ astray = {} /\ doing = j
    BY <1>1, <1>2, <1>5 DEF IInv, Shape, Clean, Own, Working, Late, Early
  <1>6. QED
    BY JobStep, <1>3, <1>4, <1>5

LEMMA VersionKeeps ==
  ASSUME IInv, NEW j \in Tasks, Version(j)
  PROVE  IInv'
  <1>1. /\ Step(j, "done") /\ task[j].step = "version"
        /\ UNCHANGED <<doing, active, report, file, prompt, made, excused, astray>>
    BY DEF Version, At
  <1>2. /\ DOMAIN task' = Tasks /\ \A k \in Tasks : DOMAIN task'[k] = {"step", "polls"}
        /\ task'[j].step = "done" /\ \A k \in Tasks \ {j} : task'[k] = task[k]
    BY StepTakes, <1>1
  <1>3. Shape' /\ \A k \in Tasks \ {j} : Same(k)
    BY <1>1, <1>2 DEF IInv, Shape, Same
  <1>4. Clean(j)'
    BY <1>1, <1>2 DEF IInv, Shape, Clean, Early, Late, Live, Working
  <1>5. ASSUME astray' = {}
        PROVE  Own(j)' /\ astray = {} /\ doing = j
    BY <1>1, <1>2, <1>5 DEF IInv, Shape, Clean, Own, Working, Late, Early
  <1>6. QED
    BY JobStep, <1>3, <1>4, <1>5

LEMMA RequestFailsKeeps ==
  ASSUME IInv, NEW j \in Tasks, RequestFails(j)
  PROVE  IInv'
  <1>1. /\ Step(j, "failed") /\ task[j].step \in Working
        /\ active' = active \ {j} /\ excused' = excused \cup {j}
        /\ UNCHANGED <<doing, report, file, prompt, made, astray>>
    BY DEF RequestFails, At
  <1>2. /\ DOMAIN task' = Tasks /\ \A k \in Tasks : DOMAIN task'[k] = {"step", "polls"}
        /\ task'[j].step = "failed" /\ \A k \in Tasks \ {j} : task'[k] = task[k]
    BY StepTakes, <1>1
  <1>3. Shape' /\ \A k \in Tasks \ {j} : Same(k)
    BY <1>1, <1>2 DEF IInv, Shape, Same
  <1>4. Clean(j)'
    BY <1>1, <1>2 DEF IInv, Shape, Clean, Early, Late, Live, Working
  <1>5. ASSUME astray' = {}
        PROVE  Own(j)' /\ astray = {} /\ doing = j
    BY <1>1, <1>2, <1>5 DEF IInv, Shape, Clean, Own, Working, Late, Early
  <1>6. QED
    BY JobStep, <1>3, <1>4, <1>5

LEMMA PollKeeps ==
  ASSUME IInv, NEW j \in Tasks, Poll(j)
  PROVE  IInv'
  <1> DEFINE now == task'[j].step
  <1>1. /\ task[j].step = "wait"
        /\ UNCHANGED <<doing, report, file, prompt, made, astray>>
        /\ active' = IF now = "failed" THEN active \ {j} ELSE active
        /\ excused' = IF task[j].polls = Deadline THEN excused \cup {j} ELSE excused
    BY DEF Poll, At
  <1>2. /\ DOMAIN task' = Tasks /\ \A k \in Tasks : DOMAIN task'[k] = {"step", "polls"}
        /\ \A k \in Tasks \ {j} : task'[k] = task[k]
        /\ \/ now = "failed" /\ task[j].polls = Deadline
           \/ now = "failed" /\ prompt[j] \in {"error", "cancelled"}
           \/ now = "collect" /\ prompt[j] = "success"
           \/ now = "wait"
    <2>1. /\ DOMAIN task = Tasks /\ \A k \in Tasks : DOMAIN task[k] = {"step", "polls"}
          /\ task' = [task EXCEPT ![j] =
               CASE task[j].polls = Deadline -> [@ EXCEPT !.step = "failed"]
                 [] task[j].polls < Deadline /\ prompt[j] = "success" -> [@ EXCEPT !.step = "collect"]
                 [] task[j].polls < Deadline /\ prompt[j] \in {"error", "cancelled"} ->
                      [@ EXCEPT !.step = "failed"]
                 [] OTHER -> [@ EXCEPT !.polls = @ + 1]]
      BY DEF IInv, Shape, Poll
    <2>2. CASE task[j].polls = Deadline
      BY <2>1, <2>2
    <2>3. CASE task[j].polls # Deadline /\ task[j].polls < Deadline /\ prompt[j] = "success"
      BY <2>1, <2>3
    <2>4. CASE /\ task[j].polls # Deadline /\ task[j].polls < Deadline
               /\ prompt[j] \in {"error", "cancelled"}
      BY <2>1, <2>4
    <2>5. CASE /\ task[j].polls # Deadline
               /\ ~(task[j].polls < Deadline /\ prompt[j] \in {"success", "error", "cancelled"})
      BY <2>1, <2>5, <1>1
    <2>6. QED
      BY <2>2, <2>3, <2>4, <2>5
  <1> HIDE DEF now
  <1>3. Shape' /\ \A k \in Tasks \ {j} : Same(k)
    BY <1>1, <1>2 DEF IInv, Shape, Same
  <1>4. Clean(j)'
    BY <1>1, <1>2 DEF IInv, Shape, Clean, Early, Late, Live, now
  <1>5. ASSUME astray' = {}
        PROVE  Own(j)' /\ astray = {} /\ doing = j
    BY <1>1, <1>2, <1>5 DEF IInv, Shape, Clean, Own, Working, Late, now
  <1>6. QED
    BY JobStep, <1>3, <1>4, <1>5

-----------------------------------------------------------------------------
(* run_once and the server *)

LEMMA ReportKeeps ==
  ASSUME IInv, NEW j \in Tasks, Report(j)
  PROVE  IInv'
  <1>1. /\ doing = j /\ task[j].step \in {"done", "failed"} /\ report[j] = "nothing"
        /\ report' = [report EXCEPT ![j] = IF task[j].step = "done" THEN "completed" ELSE "failed"]
        /\ doing' = Nobody /\ UNCHANGED <<task, active, file, prompt, made, excused, astray>>
    BY DEF Report, At
  <1>3. Shape' /\ \A k \in Tasks \ {j} : Same(k)
    BY <1>1 DEF IInv, Shape, Same
  <1>4. Clean(j)'
    BY <1>1 DEF IInv, Shape, Clean, Early, Late, Live, Working
  <1>5. ASSUME astray' = {}
        PROVE  Own(j)' /\ astray = {} /\ doing = j
    BY <1>1, <1>5 DEF IInv, Shape, Clean, Own, Working, Late, Early, Live
  <1>6. QED
    BY JobStep, <1>3, <1>4, <1>5

LEMMA StopEarlyKeeps ==
  ASSUME IInv, NEW j \in Tasks, StopEarly(j)
  PROVE  IInv'
  <1>1. /\ doing = j /\ task[j].step \in Working /\ j \notin active
        /\ Step(j, "stopped") /\ doing' = Nobody
        /\ report' = [report EXCEPT ![j] = "let go"]
        /\ excused' = IF task[j].step = "sent" THEN excused \cup {j} ELSE excused
        /\ UNCHANGED <<active, file, prompt, made, astray>>
    BY DEF StopEarly, At
  <1>2. /\ DOMAIN task' = Tasks /\ \A k \in Tasks : DOMAIN task'[k] = {"step", "polls"}
        /\ task'[j].step = "stopped" /\ \A k \in Tasks \ {j} : task'[k] = task[k]
    BY StepTakes, <1>1
  <1>3. Shape' /\ \A k \in Tasks \ {j} : Same(k)
    BY <1>1, <1>2 DEF IInv, Shape, Same
  <1>4. Clean(j)'
    BY <1>1, <1>2 DEF IInv, Shape, Clean, Early, Late, Live, Working
  <1>5. ASSUME astray' = {}
        PROVE  Own(j)' /\ astray = {} /\ doing = j
    BY <1>1, <1>2, <1>5 DEF IInv, Shape, Clean, Own, Working, Late, Early, Live
  <1>6. QED
    BY JobStep, <1>3, <1>4, <1>5

LEMMA StopKeeps ==
  ASSUME IInv, NEW j \in Tasks, NEW obeyed \in BOOLEAN, Stop(j, obeyed)
  PROVE  IInv'
  <1>1. /\ doing = j /\ task[j].step \in Working /\ j \in active
        /\ report[j] = "nothing"
        /\ prompt' = IF obeyed /\ prompt[j] \in Live
                     THEN [prompt EXCEPT ![j] = "cancelled"] ELSE prompt
        /\ report' = [report EXCEPT ![j] = "stopping"]
        /\ excused' = IF obeyed THEN excused ELSE excused \cup {j}
        /\ UNCHANGED <<doing, task, active, file, made, astray>>
    BY DEF Stop, At
  <1>3. Shape' /\ \A k \in Tasks \ {j} : Same(k)
    BY <1>1 DEF IInv, Shape, Same
  <1>4. Clean(j)'
    BY <1>1 DEF IInv, Shape, Clean, Early, Late, Live, Working
  <1>5. ASSUME astray' = {}
        PROVE  Own(j)' /\ astray = {} /\ doing = j
    BY <1>1, <1>5 DEF IInv, Shape, Clean, Own, Working, Late, Early, Live
  <1>6. QED
    BY JobStep, <1>3, <1>4, <1>5

LEMMA StoppedKeeps ==
  ASSUME IInv, NEW j \in Tasks, Stopped(j)
  PROVE  IInv'
  <1>1. /\ doing = j /\ report[j] = "stopping"
        /\ task' = IF task[j].step \in Working THEN [task EXCEPT ![j].step = "stopped"] ELSE task
        /\ active' = active \ {j}
        /\ report' = [report EXCEPT ![j] = IF task[j].step = "failed" THEN "failed" ELSE "let go"]
        /\ doing' = Nobody /\ UNCHANGED <<file, prompt, made, excused, astray>>
    BY DEF Stopped, At
  <1>2. /\ DOMAIN task' = Tasks /\ \A k \in Tasks : DOMAIN task'[k] = {"step", "polls"}
        /\ \A k \in Tasks \ {j} : task'[k] = task[k]
        /\ \/ task[j].step \in Working /\ task'[j].step = "stopped"
           \/ task[j].step \notin Working /\ task'[j].step = task[j].step
    BY StepTakes, <1>1 DEF Step, IInv, Shape
  <1>3. Shape' /\ \A k \in Tasks \ {j} : Same(k)
    BY <1>1, <1>2 DEF IInv, Shape, Same
  <1>4. Clean(j)'
    BY <1>1, <1>2 DEF IInv, Shape, Clean, Early, Late, Live, Working
  <1>5. ASSUME astray' = {}
        PROVE  Own(j)' /\ astray = {} /\ doing = j
    BY <1>1, <1>2, <1>5 DEF IInv, Shape, Clean, Own, Working, Late, Early, Live
  <1>6. QED
    BY JobStep, <1>3, <1>4, <1>5

LEMMA LeaseLostKeeps ==
  ASSUME IInv, NEW j \in Tasks, LeaseLost(j)
  PROVE  IInv'
  <1>1. /\ doing = j /\ task[j].step \in Working /\ Step(j, "stopped")
        /\ active' = active \ {j} /\ doing' = Nobody
        /\ report' = [report EXCEPT ![j] = "let go"] /\ excused' = excused \cup {j}
        /\ UNCHANGED <<file, prompt, made, astray>>
    BY DEF LeaseLost, At
  <1>2. /\ DOMAIN task' = Tasks /\ \A k \in Tasks : DOMAIN task'[k] = {"step", "polls"}
        /\ task'[j].step = "stopped" /\ \A k \in Tasks \ {j} : task'[k] = task[k]
    BY StepTakes, <1>1
  <1>3. Shape' /\ \A k \in Tasks \ {j} : Same(k)
    BY <1>1, <1>2 DEF IInv, Shape, Same
  <1>4. Clean(j)'
    BY <1>1, <1>2 DEF IInv, Shape, Clean, Early, Late, Live, Working
  <1>5. ASSUME astray' = {}
        PROVE  Own(j)' /\ astray = {} /\ doing = j
    BY <1>1, <1>2, <1>5 DEF IInv, Shape, Clean, Own, Working, Late, Early, Live
  <1>6. QED
    BY JobStep, <1>3, <1>4, <1>5

LEMMA LoopFailsKeeps ==
  ASSUME IInv, NEW j \in Tasks, LoopFails(j)
  PROVE  IInv'
  <1>1. /\ doing' = Nobody /\ report' = [report EXCEPT ![j] = "failed"]
        /\ astray' = astray \cup {j}
        /\ UNCHANGED <<task, active, file, prompt, made, excused>>
    BY DEF LoopFails
  <1>2. Shape' /\ \A k \in Tasks \ {j} : Same(k)
    BY <1>1 DEF IInv, Shape, Same
  <1>3. Clean(j)'
    BY <1>1 DEF IInv, Shape, Clean, Early, Late, Live
  <1>4. astray' # {}
    BY <1>1
  <1>5. QED
    BY JobStep, <1>2, <1>3, <1>4

LEMMA RunPromptKeeps ==
  ASSUME IInv, NEW j \in Tasks, RunPrompt(j)
  PROVE  IInv'
  <1>1. /\ prompt[j] = "queued" /\ prompt' = [prompt EXCEPT ![j] = "running"]
        /\ made' = [made EXCEPT ![j] = file]
        /\ UNCHANGED <<doing, task, active, report, file, excused, astray>>
    BY DEF RunPrompt, At
  <1>3. Shape' /\ \A k \in Tasks \ {j} : Same(k)
    BY <1>1 DEF IInv, Shape, Same
  <1>4. Clean(j)'
    BY <1>1 DEF IInv, Shape, Clean, Early, Late, Live, Working
  <1>5. ASSUME astray' = {}
        PROVE  Own(j)' /\ astray = {}
    BY <1>1, <1>5 DEF IInv, Shape, Clean, Own, Working, Late, Early, Live
  <1>6. QED
    BY JobStep, <1>1, <1>3, <1>4, <1>5

LEMMA PromptEndsKeeps ==
  ASSUME IInv, NEW j \in Tasks, NEW how \in {"success", "error"}, PromptEnds(j, how)
  PROVE  IInv'
  <1>1. /\ prompt[j] = "running" /\ prompt' = [prompt EXCEPT ![j] = how]
        /\ UNCHANGED <<doing, task, active, report, file, made, excused, astray>>
    BY DEF PromptEnds, At
  <1>3. Shape' /\ \A k \in Tasks \ {j} : Same(k)
    BY <1>1 DEF IInv, Shape, Same
  <1>4. Clean(j)'
    BY <1>1 DEF IInv, Shape, Clean, Early, Late, Live, Working
  <1>5. ASSUME astray' = {}
        PROVE  Own(j)' /\ astray = {}
    BY <1>1, <1>5 DEF IInv, Shape, Clean, Own, Working, Late, Early, Live
  <1>6. QED
    BY JobStep, <1>1, <1>3, <1>4, <1>5

-----------------------------------------------------------------------------
LEMMA StepOK ==
  ASSUME IInv, [RuntimeNext]_runtimeVars
  PROVE  IInv'
  <1>1. CASE UNCHANGED runtimeVars
    BY <1>1 DEF IInv, Shape, Clean, Own, runtimeVars
  <1>2. CASE RuntimeNext
    <2>1. PICK j \in Tasks :
            \/ Claim(j) \/ Execute(j) \/ RequestFails(j)
            \/ Report(j) \/ StopEarly(j) \/ Stopped(j) \/ LeaseLost(j) \/ LoopFails(j)
            \/ \E obeyed \in BOOLEAN : Stop(j, obeyed)
            \/ RunPrompt(j) \/ \E how \in {"success", "error"} : PromptEnds(j, how)
      BY <1>2 DEF RuntimeNext
    <2>2. CASE Execute(j)
      BY <2>2, SendInputsKeeps, SubmitKeeps, SubmittedKeeps, MalformedKeeps,
         PollKeeps, CollectKeeps, VersionKeeps DEF Execute
    <2>3. CASE \E obeyed \in BOOLEAN : Stop(j, obeyed)
      BY <2>3, StopKeeps
    <2>4. CASE \E how \in {"success", "error"} : PromptEnds(j, how)
      BY <2>4, PromptEndsKeeps
    <2>5. QED
      BY <2>1, <2>2, <2>3, <2>4, ClaimKeeps, RequestFailsKeeps, ReportKeeps, StopEarlyKeeps,
         StoppedKeeps, LeaseLostKeeps, LoopFailsKeeps, RunPromptKeeps
  <1>3. QED
    BY <1>1, <1>2

LEMMA InitOK == RuntimeInit => IInv
  BY DEF RuntimeInit, IInv, Shape, Clean, Own, Early, Late, Working, Live

\* The invariant holds at all times.
THEOREM RuntimeInvariant == RuntimeSpec => []IInv
  BY InitOK, StepOK, PTL DEF RuntimeSpec

\* As long as the loop has left no task running, what is reported for a job (complete())
\* was made from its own crop, however many jobs edit the same asset under one file name.
THEOREM ResultsOwn == RuntimeSpec => []ResultIsOwn
  <1>1. IInv => ResultIsOwn
    BY DEF IInv, Own, ResultIsOwn, Late
  <1>2. QED
    BY <1>1, RuntimeInvariant, PTL

\* A job that has ended leaves no prompt on the server (cancel(), wait()), but for the
\* ways of giving up that NoPromptLeft names.
THEOREM NothingLeft == RuntimeSpec => []NoPromptLeft
  <1>1. IInv => NoPromptLeft
    BY DEF IInv, Clean, NoPromptLeft, Over, Late, Live
  <1>2. QED
    BY <1>1, RuntimeInvariant, PTL
=============================================================================
