----------------------- MODULE ExperienceDefinitions -----------------------
(***************************************************************************)
(* One experience that is edited while it runs: its definition and what    *)
(* users see of its runs (services/experience_service.py), and the steps   *)
(* of a run (services/experience_executor.py).  The module Experiences has *)
(* the scheduler, the queue and the failures of a run; here a run that was *)
(* scheduled waits until it is executed, and what matters is which scope,  *)
(* steps and user it is executed with.                                     *)
(***************************************************************************)
EXTENDS Integers, Sequences, SequencesExt

CONSTANTS Readers, Creator, \* the creator of the experience, an admin
          Denied,           \* users whom policies deny experience.read and .run
          Connected,        \* users with the credential that a plugin of mode "user" needs
          Runs, StepLists,  \* what an admin may ask for as the steps
          MaxEdits, Nobody

VARIABLES exp,             \* [scope, visibility, steps, model], or Nobody
          modelUsable,     \* the model configuration and its model and provider are active
          creatorActive,
          run,             \* id -> [user, used, status, states, result], or Nobody
          task,            \* id -> what its executor has loaded and has left to do, or Nobody
          edits

defVars == <<exp, modelUsable, creatorActive, run, task, edits>>

DefInit ==
  /\ exp = Nobody /\ modelUsable = TRUE /\ creatorActive = TRUE /\ edits = 0
  /\ run = [r \in Runs |-> Nobody] /\ task = [r \in Runs |-> Nobody]

Scopes == {"user", "shared"}
Keys(steps) == {steps[i].key : i \in DOMAIN steps}

-----------------------------------------------------------------------------
(* Definitions: only admins write them. *)

\* A plugin step is held to the modes that the manifest of its operation allows.
ValidOverride(step) == step.override # Nobody => step.override \in step.allowed

ValidSteps(steps) ==
  /\ \A i, j \in DOMAIN steps : steps[i].key = steps[j].key => i = j
  /\ \A i \in DOMAIN steps : steps[i].type = "plugin" => ValidOverride(steps[i])

\* _validate_model_configuration: one that cannot be used is refused.
ValidModel(model) == model = Nobody \/ modelUsable

CreateExperience(scope, steps, model) ==
  /\ exp = Nobody /\ edits < MaxEdits /\ edits' = edits + 1
  /\ ValidSteps(steps) /\ ValidModel(model)
  /\ exp' = [scope |-> scope, visibility |-> "published", steps |-> steps, model |-> model]
  /\ UNCHANGED <<modelUsable, creatorActive, run, task>>

Update(field, value) ==
  /\ exp # Nobody /\ edits < MaxEdits /\ edits' = edits + 1
  /\ exp' = [exp EXCEPT ![field] = value]
  /\ UNCHANGED <<modelUsable, creatorActive, run, task>>

\* The steps are deleted and written anew.
UpdateSteps(steps) == ValidSteps(steps) /\ Update("steps", steps)
UpdateModel(model) == ValidModel(model) /\ Update("model", model)

\* Runs go with their experience; who executes one finds out when it writes.
DeleteExperience ==
  /\ exp # Nobody /\ edits < MaxEdits /\ edits' = edits + 1
  /\ exp' = Nobody
  /\ run' = [r \in Runs |-> IF run[r] = Nobody THEN Nobody ELSE [run[r] EXCEPT !.status = "gone"]]
  /\ UNCHANGED <<modelUsable, creatorActive, task>>

Deactivate ==
  /\ edits < MaxEdits /\ edits' = edits + 1
  /\ \/ creatorActive' = ~creatorActive /\ UNCHANGED modelUsable
     \/ modelUsable' = ~modelUsable /\ UNCHANGED creatorActive
  /\ UNCHANGED <<exp, run, task>>

-----------------------------------------------------------------------------
(* What users see. *)

IsAdmin(u) == u = Creator
MayRead(u) == u \notin Denied /\ (IsAdmin(u) \/ exp.visibility = "published")
Rows == {r \in Runs : run[r] # Nobody /\ run[r].status # "gone"}

\* list_runs, get_run
ShownRuns(u) ==
  IF exp = Nobody \/ ~MayRead(u) THEN {}
  ELSE {r \in Rows : IsAdmin(u) \/ run[r].user \in {u, Nobody}}

\* get_user_results: the runs of the user come before the shared ones.
Results(u) ==
  LET own == {r \in Rows : run[r].user = u}
  IN IF exp = Nobody \/ u \in Denied \/ exp.visibility # "published" THEN {}
     ELSE IF own # {} THEN own ELSE {r \in Rows : run[r].user = Nobody}

\* _classify_auth_steps, _check_can_run: one step that needs no credential, or one
\* whose credential is there, is enough to offer the run.
NeedsUser(step) == step.type = "plugin" /\ step.mode = "user" /\ step.override = Nobody
CanRun(u) ==
  exp.steps = <<>> \/ \E i \in DOMAIN exp.steps : ~NeedsUser(exp.steps[i]) \/ u \in Connected

-----------------------------------------------------------------------------
(* Runs. *)

\* _load_and_resolve_identity: whose run it is, and whose identity it uses.
RunUser(u) == IF exp.scope = "shared" THEN Nobody ELSE u
RunIdentity(u) == IF exp.scope = "shared" THEN Creator ELSE u
CreatorGuard == exp.scope = "shared" => creatorActive

NewRun(user, status) ==
  [user |-> user, used |-> {}, status |-> status, states |-> <<>>, result |-> Nobody]
Loaded(u) ==
  [user |-> RunUser(u), as |-> RunIdentity(u), steps |-> exp.steps, model |-> exp.model,
   at |-> "resume"]

\* enqueue_due: the key of the run is that of the scope the scheduler saw.
Schedule(r, u) ==
  /\ exp # Nobody /\ run[r] = Nobody /\ u \notin Denied
  /\ run' = [run EXCEPT ![r] = NewRun(RunUser(u), "queued")]
  /\ UNCHANGED <<exp, modelUsable, creatorActive, task, edits>>

\* run: a run of its own, streamed to the user who asks.
RunNow(r, u) ==
  /\ exp # Nobody /\ run[r] = Nobody /\ u \notin Denied /\ CreatorGuard
  /\ run' = [run EXCEPT ![r] = NewRun(RunUser(u), "running")]
  /\ task' = [task EXCEPT ![r] = [Loaded(u) EXCEPT !.at = "steps"]]
  /\ UNCHANGED <<exp, modelUsable, creatorActive, edits>>

End(r, status) == run' = [run EXCEPT ![r].status = status]
Waits(r) == run[r] # Nobody /\ run[r].status = "queued" /\ task[r] = Nobody

\* A deleted experience, a personal one without a user, a creator who is inactive
\* or a user who may not run it: the job ends and so does the run.
Refused(r) ==
  \/ exp = Nobody
  \/ exp.scope = "user" /\ run[r].user = Nobody
  \/ ~CreatorGuard
RefuseRun(r) ==
  /\ Waits(r) /\ Refused(r)
  /\ End(r, "failed")
  /\ UNCHANGED <<exp, modelUsable, creatorActive, task, edits>>

\* execute: the experience is loaded with its steps, once.
Execute(r) ==
  /\ Waits(r) /\ ~Refused(r)
  /\ task' = [task EXCEPT ![r] = Loaded(run[r].user)]
  /\ UNCHANGED <<exp, modelUsable, creatorActive, run, edits>>

SameUnlessShared(r) == task[r].user = Nobody \/ run[r].user = task[r].user  \* Slip
\* _create_or_resume_run: only the run of the same user, or the shared run, is
\* resumed; the job of any other is tried again and then given up.
SameUser(r) == run[r].user = task[r].user
Resume(r) ==
  /\ task[r] # Nobody /\ task[r].at = "resume"
  /\ IF run[r].status = "queued" /\ SameUser(r)
     THEN /\ run' = [run EXCEPT ![r].status = "running"]
          /\ task' = [task EXCEPT ![r].at = "steps"]
     ELSE /\ run' = IF run[r].status = "queued" THEN [run EXCEPT ![r].status = "failed"] ELSE run
          /\ task' = [task EXCEPT ![r] = Nobody]
  /\ UNCHANGED <<exp, modelUsable, creatorActive, edits>>

\* A condition that is not true, or cannot be rendered, skips its step.
ShouldRun(r, step) ==
  step.after = Nobody \/ \E i \in DOMAIN run[r].states :
                         run[r].states[i] = [key |-> step.after, status |-> "succeeded"]

Working(r) == task[r] # Nobody /\ task[r].at = "steps" /\ run[r].status # "gone"
Record(r, step, status) ==
  run' = [run EXCEPT ![r].states = Append(@, [key |-> step.key, status |-> status])]
Left(r) == task' = [task EXCEPT ![r].steps = Tail(@)]

SkipStep(r) ==
  /\ Working(r) /\ task[r].steps # <<>> /\ ~ShouldRun(r, Head(task[r].steps))
  /\ Record(r, Head(task[r].steps), "skipped") /\ Left(r)
  /\ UNCHANGED <<exp, modelUsable, creatorActive, edits>>

\* The subject whose data a plugin reads: the user of the run, or a service account.
Subject(r, step) ==
  IF step.type = "plugin" /\ step.override = Nobody THEN {task[r].as}
  ELSE IF step.type = "kb" THEN {task[r].as} ELSE {}

\* _execute_step: a failing step ends itself only.
RunStep(r, status) ==
  LET step == Head(task[r].steps) IN
  /\ Working(r) /\ task[r].steps # <<>> /\ ShouldRun(r, step)
  /\ NeedsUser(step) /\ task[r].as \notin Connected => status = "failed"
  /\ run' = [run EXCEPT ![r].states = Append(@, [key |-> step.key, status |-> status]),
                        ![r].used = @ \cup (IF status = "failed" THEN {} ELSE Subject(r, step))]
  /\ Left(r)
  /\ UNCHANGED <<exp, modelUsable, creatorActive, edits>>

Succeeded(r) == {i \in DOMAIN run[r].states : run[r].states[i].status = "succeeded"}

\* _finalize_run
Finalize(r, status, result) ==
  /\ run' = [run EXCEPT ![r].status = status, ![r].result = result]
  /\ task' = [task EXCEPT ![r] = Nobody]
  /\ UNCHANGED <<exp, modelUsable, creatorActive, edits>>

\* Without a model, or when it fails, the data of the steps are the result.
Synthesize(r, answers) ==
  /\ Working(r) /\ task[r].steps = <<>>
  /\ run[r].states = <<>> \/ Succeeded(r) # {}
  /\ answers => task[r].model # Nobody
  /\ Finalize(r, "succeeded", IF answers THEN "answer" ELSE "data")

NoStepSucceeded(r) ==
  /\ Working(r) /\ task[r].steps = <<>> /\ run[r].states # <<>> /\ Succeeded(r) = {}
  /\ Finalize(r, "failed", Nobody)

\* max_run_seconds, or an error outside the steps; and a model configuration that
\* cannot be used when the run begins.
RunFails(r) ==
  /\ Working(r)
  /\ Finalize(r, "failed", Nobody)

\* The row is gone: nothing can be written any more.
RunIsGone(r) ==
  /\ task[r] # Nobody /\ task[r].at = "steps" /\ run[r].status = "gone"
  /\ task' = [task EXCEPT ![r] = Nobody]
  /\ UNCHANGED <<exp, modelUsable, creatorActive, run, edits>>

DefNext ==
  \/ \E scope \in Scopes, steps \in StepLists, model \in {Nobody, "model"} :
       CreateExperience(scope, steps, model)
  \/ \E scope \in Scopes : Update("scope", scope)
  \/ \E seen \in {"draft", "published"} : Update("visibility", seen)
  \/ \E steps \in StepLists : UpdateSteps(steps)
  \/ \E model \in {Nobody, "model"} : UpdateModel(model)
  \/ DeleteExperience \/ Deactivate
  \/ \E r \in Runs, u \in Readers : Schedule(r, u) \/ RunNow(r, u)
  \/ \E r \in Runs : \/ RefuseRun(r) \/ Execute(r) \/ Resume(r) \/ SkipStep(r)
                     \/ NoStepSucceeded(r) \/ RunFails(r) \/ RunIsGone(r)
  \/ \E r \in Runs, status \in {"succeeded", "failed"} : RunStep(r, status)
  \/ \E r \in Runs, answers \in BOOLEAN : Synthesize(r, answers)

DefSpec == DefInit /\ [][DefNext]_defVars
-----------------------------------------------------------------------------
\* However scope and steps were edited between the schedule, the execution and the
\* reading of a run: what users other than admins are shown was read with their
\* own identity, or with that of the creator for a shared run.
ShownIsTheirs ==
  \A u \in Readers : ~IsAdmin(u) =>
    \A r \in ShownRuns(u) \cup Results(u) :
      run[r].used \subseteq (IF run[r].user = Nobody THEN {Creator} ELSE {u})
=============================================================================
