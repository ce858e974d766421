---------------------------- MODULE ImageRuntime ----------------------------
(***************************************************************************)
(* Image jobs on ComfyUI: the executor (ComfyUIExecutor), the requests it  *)
(* makes (ComfyUIAdapter), the loop of the worker that starts and stops it *)
(* (run_once), and the server, which runs one prompt at a time and is not  *)
(* part of the repository.  The server keeps input files by name, and the  *)
(* name is that of the asset: here every job edits the same asset, with a  *)
(* crop of its own.  A job submits at most one prompt, named by the job.   *)
(***************************************************************************)
EXTENDS Integers, FiniteSets

CONSTANTS
  Tasks,      \* image jobs, as this worker claims them
  Deadline,   \* polls until AdapterTimeout
  MaxTroubles \* bound on requests that fail and leases that are lost

Nobody == "nobody"

ASSUME ImageRuntimeAssumption ==
  Deadline \in Nat /\ MaxTroubles \in Nat /\ Nobody \notin Tasks

VARIABLES
  doing,     \* the job the loop is at
  task,      \* the asyncio task of a job: how far execute() is, polls made
  active,    \* active_prompts: jobs whose prompt can be cancelled
  report,    \* what became of a job: completed, failed, or let go (released at a
             \* shutdown, dropped when it was cancelled or its lease is lost)
  file,      \* the input file on the server: the job whose crop it holds
  prompt,    \* the prompt of a job on the server
  made,      \* the crop a prompt was made from
  troubles,
  excused,   \* history: jobs given up in a way that leaves their prompt alone
  astray     \* history: tasks the loop has left running

runtimeVars == <<doing, task, active, report, file, prompt, made, troubles, excused, astray>>

Working == {"inputs", "submit", "sent", "wait", "collect", "version"}
Over == {"done", "failed", "stopped"}
Live == {"queued", "running"}

At(j, step) == task[j].step = step
Step(j, step) == task' = [task EXCEPT ![j].step = step]

\* a request times out, or the server answers 5xx: AdapterTimeout, AdapterUnavailable
Trouble == troubles < MaxTroubles /\ troubles' = troubles + 1

\* the worker claims a job
Claim(j) ==
  /\ doing = Nobody /\ At(j, "new")
  /\ doing' = j /\ Step(j, "inputs")
  /\ UNCHANGED <<active, report, file, prompt, made, troubles, excused, astray>>

-----------------------------------------------------------------------------
(* execute() *)

\* without "overwrite"
SendInputsKept(j) ==
  /\ At(j, "inputs") /\ Step(j, "submit")
  /\ file' = IF file = Nobody THEN j ELSE file
  /\ UNCHANGED <<doing, active, report, prompt, made, troubles, excused, astray>>

\* download, crop, upload under the name of the asset, overwriting; free_memory may
\* fail without harm
SendInputs(j) ==
  /\ At(j, "inputs") /\ file' = j /\ Step(j, "submit")
  /\ UNCHANGED <<doing, active, report, prompt, made, troubles, excused, astray>>

\* POST /prompt
Submit(j) ==
  /\ At(j, "submit") /\ Step(j, "sent")
  /\ prompt' = [prompt EXCEPT ![j] = "queued"]
  /\ UNCHANGED <<doing, active, report, file, made, troubles, excused, astray>>

\* its answer: from here on cancel() knows the prompt
Submitted(j) ==
  /\ At(j, "sent") /\ Step(j, "wait")
  /\ active' = active \cup {j}
  /\ UNCHANGED <<doing, report, file, prompt, made, troubles, excused, astray>>

\* ... unless the job is found malformed only now: no valid generation context (and
\* active_prompts keeps the prompt) or no valid timeout.  The prompt is on the server.
Malformed(j) ==
  /\ At(j, "sent") /\ Step(j, "failed")
  /\ active' \in {active, active \cup {j}}
  /\ excused' = excused \cup {j}
  /\ UNCHANGED <<doing, report, file, prompt, made, troubles, astray>>

\* without end
PollForever(j) ==
  /\ At(j, "wait")
  /\ task' = [task EXCEPT ![j] =
       CASE prompt[j] = "success" -> [@ EXCEPT !.step = "collect"]
         [] prompt[j] \in {"error", "cancelled"} -> [@ EXCEPT !.step = "failed"]
         [] OTHER -> @]
  /\ active' = IF task'[j].step = "failed" THEN active \ {j} ELSE active
  /\ UNCHANGED <<doing, report, file, prompt, made, troubles, excused, astray>>

\* wait(): GET /history until the prompt is in it or the deadline has passed, which
\* leaves the prompt alone
Poll(j) ==
  /\ At(j, "wait")
  /\ task' = [task EXCEPT ![j] =
       CASE task[j].polls = Deadline -> [@ EXCEPT !.step = "failed"]
         [] task[j].polls < Deadline /\ prompt[j] = "success" -> [@ EXCEPT !.step = "collect"]
         [] task[j].polls < Deadline /\ prompt[j] \in {"error", "cancelled"} ->
              [@ EXCEPT !.step = "failed"]
         [] OTHER -> [@ EXCEPT !.polls = @ + 1]]
  /\ active' = IF task'[j].step = "failed" THEN active \ {j} ELSE active
  /\ excused' = IF task[j].polls = Deadline THEN excused \cup {j} ELSE excused
  /\ UNCHANGED <<doing, report, file, prompt, made, troubles, astray>>

\* GET /view for each image; then the prompt is forgotten
Collect(j) ==
  /\ At(j, "collect") /\ Step(j, "version")
  /\ active' = active \ {j}
  /\ UNCHANGED <<doing, report, file, prompt, made, troubles, excused, astray>>

Version(j) ==
  /\ At(j, "version") /\ Step(j, "done")
  /\ UNCHANGED <<doing, active, report, file, prompt, made, troubles, excused, astray>>

\* any of these requests may fail and fails the job: one poll in an hour, the answer
\* of a prompt that was accepted, the version when the images are there
RequestFails(j) ==
  /\ task[j].step \in Working /\ Trouble /\ Step(j, "failed")
  /\ active' = active \ {j}
  /\ excused' = excused \cup {j}
  /\ UNCHANGED <<doing, report, file, prompt, made, astray>>

-----------------------------------------------------------------------------
(* run_once *)

\* the task has ended: complete() or fail()
Report(j) ==
  /\ doing = j /\ task[j].step \in {"done", "failed"} /\ report[j] = "nothing"
  /\ report' = [report EXCEPT ![j] = IF At(j, "done") THEN "completed" ELSE "failed"]
  /\ doing' = Nobody
  /\ UNCHANGED <<task, active, file, prompt, made, troubles, excused, astray>>

\* the job was cancelled or the worker is told to stop, and nothing is known of a
\* prompt: the task is stopped at once.  A prompt whose submission has not been
\* answered stays.
StopEarly(j) ==
  /\ doing = j /\ task[j].step \in Working /\ j \notin active
  /\ Step(j, "stopped") /\ doing' = Nobody
  /\ report' = [report EXCEPT ![j] = "let go"]
  /\ excused' = IF At(j, "sent") THEN excused \cup {j} ELSE excused
  /\ UNCHANGED <<active, file, prompt, made, troubles, astray>>

\* the request to cancel forgotten
StopNoRequest(j, obeyed) ==
  /\ doing = j /\ task[j].step \in Working /\ j \in active /\ obeyed
  /\ report' = [report EXCEPT ![j] = "stopping"]
  /\ UNCHANGED <<doing, task, active, file, prompt, made, troubles, excused, astray>>

\* or it has: a request to cancel it reaches the server, which may refuse it (4xx is
\* taken for a no), while the task goes on ...
Stop(j, obeyed) ==
  /\ doing = j /\ task[j].step \in Working /\ j \in active
  /\ report[j] = "nothing"
  /\ prompt' = IF obeyed /\ prompt[j] \in Live
               THEN [prompt EXCEPT ![j] = "cancelled"] ELSE prompt
  /\ report' = [report EXCEPT ![j] = "stopping"]
  /\ excused' = IF obeyed THEN excused ELSE excused \cup {j}
  /\ UNCHANGED <<doing, task, active, file, made, troubles, astray>>

\* ... and is stopped when the answer is there, unless it has failed by then, of this
\* very cancellation perhaps: then the job is not given back but failed
Stopped(j) ==
  /\ doing = j /\ report[j] = "stopping"
  /\ task' = IF task[j].step \in Working THEN [task EXCEPT ![j].step = "stopped"] ELSE task
  /\ active' = active \ {j}
  /\ report' = [report EXCEPT ![j] = IF At(j, "failed") THEN "failed" ELSE "let go"]
  /\ doing' = Nobody
  /\ UNCHANGED <<file, prompt, made, troubles, excused, astray>>

\* the lease is found lost: the task is stopped, the prompt is not
LeaseLost(j) ==
  /\ doing = j /\ task[j].step \in Working /\ report[j] = "nothing" /\ Trouble
  /\ Step(j, "stopped") /\ active' = active \ {j}
  /\ doing' = Nobody
  /\ report' = [report EXCEPT ![j] = "let go"]
  /\ excused' = excused \cup {j}
  /\ UNCHANGED <<file, prompt, made, astray>>

\* the question after the lease, or the request to cancel (cancel() catches what
\* _request_json never raises), fails: the job is failed and nobody stops the task
LoopFails(j) ==
  /\ doing = j /\ task[j].step \in Working /\ Trouble
  /\ doing' = Nobody
  /\ report' = [report EXCEPT ![j] = "failed"]
  /\ astray' = astray \cup {j}
  /\ UNCHANGED <<task, active, file, prompt, made, excused>>

-----------------------------------------------------------------------------
(* The server *)

RunPrompt(j) ==
  /\ prompt[j] = "queued" /\ \A k \in Tasks : prompt[k] # "running"
  /\ prompt' = [prompt EXCEPT ![j] = "running"]
  /\ made' = [made EXCEPT ![j] = file]
  /\ UNCHANGED <<doing, task, active, report, file, troubles, excused, astray>>

PromptEnds(j, how) ==
  /\ prompt[j] = "running"
  /\ prompt' = [prompt EXCEPT ![j] = how]
  /\ UNCHANGED <<doing, task, active, report, file, made, troubles, excused, astray>>

RuntimeInit ==
  /\ doing = Nobody
  /\ task = [j \in Tasks |-> [step |-> "new", polls |-> 0]]
  /\ active = {} /\ report = [j \in Tasks |-> "nothing"]
  /\ file = Nobody
  /\ prompt = [j \in Tasks |-> "none"] /\ made = [j \in Tasks |-> Nobody]
  /\ troubles = 0 /\ excused = {} /\ astray = {}

Execute(j) ==
  \/ SendInputs(j) \/ Submit(j) \/ Submitted(j) \/ Malformed(j)
  \/ Poll(j) \/ Collect(j) \/ Version(j)

RuntimeNext ==
  \E j \in Tasks :
    \/ Claim(j) \/ Execute(j) \/ RequestFails(j)
    \/ Report(j) \/ StopEarly(j) \/ Stopped(j) \/ LeaseLost(j) \/ LoopFails(j)
    \/ \E obeyed \in BOOLEAN : Stop(j, obeyed)
    \/ RunPrompt(j) \/ \E how \in {"success", "error"} : PromptEnds(j, how)

\* every request is answered or times out, and the event loop schedules every task;
\* of the server nothing is expected
RuntimeFairness == \A j \in Tasks : WF_runtimeVars(Execute(j))

RuntimeSpec == RuntimeInit /\ [][RuntimeNext]_runtimeVars /\ RuntimeFairness

-----------------------------------------------------------------------------
(* Properties *)

\* The images that are reported for a job were made from its own inputs, whatever
\* other prompts are still on the server, as long as the loop has left no task running.
ResultIsOwn ==
  astray = {} => \A j \in Tasks : report[j] = "completed" => made[j] = j

\* A job that was stopped or has failed leaves no prompt behind that would hold up the
\* ones after it.  Excused are the ways of the code to leave one: a request without an
\* answer or with a no, a lost lease, the deadline, a job stopped while its prompt was
\* being submitted, and a job found malformed after that.
NoPromptLeft ==
  \A j \in Tasks \ (excused \cup astray) :
    task[j].step \in Over => prompt[j] \notin Live

\* Every execution ends, whatever the server does.
ExecutionEnds == \A j \in Tasks : task[j].step \in Working ~> task[j].step \in Over
=============================================================================
