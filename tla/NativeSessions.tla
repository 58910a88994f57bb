---------------------------- MODULE NativeSessions ----------------------------
(***************************************************************************)
(* One task worked on by native (Nano) Executor and Supervisor sessions    *)
(* that HQ starts, loses and restarts: src/src/nano/{managed,lifecycle,    *)
(* ferrus,resume,review}.rs, src/src/nano/review/session.rs, the session   *)
(* half of src/src/project/claims.rs and src/src/project/runs/recovery.rs. *)
(*                                                                         *)
(* HQ names its agents role:agent:task, so in one task's row the role is   *)
(* the agent.  A session is a row of "runs" and a process; its "stage" is  *)
(* what its journal last recorded, which is what the next session of the   *)
(* task finds when the process is gone.  Each lifecycle call is one SQLite *)
(* transaction that checks the run, the live lease and the status again,   *)
(* so the checks a caller makes before it are left out, except where the   *)
(* effect is outside the transaction (approve, respond_consult).  A call   *)
(* the code refuses ends in an error or the end of the process: Die.       *)
(*                                                                         *)
(* What HQ does with lists of tasks that are no longer true is covered by  *)
(* letting it start a session whatever the status is; the scheduler        *)
(* itself, with its limits, is HqSchedule.                                 *)
(***************************************************************************)
EXTENDS TaskTable, Sequences, FiniteSets

CONSTANTS MaxRuns,   \* bound on the sessions HQ starts
          MaxEdits,  \* bound on the versions of the Executor's worktree
          MaxAsks,   \* bound on the questions and consultations
          MaxLoad    \* bound on both together, a session counting for two

ASSUME SessionAssumption ==
  {MaxRuns, MaxEdits, MaxAsks, MaxLoad} \subseteq Nat

VARIABLES task,       \* the task's row
          runs,       \* its rows in "runs" and their processes and journals
          work,       \* version of the source in the task's worktree
          canonical,  \* the tree of this task merged in the canonical checkout, 0: none
          epoch,      \* submissions and consultation requests so far
          asks,       \* questions and consultations begun so far
          question, answer,    \* number of the question in QUESTION.md, ANSWER.md
          request, response,   \* and in CONSULT_REQUEST.md, CONSULT_RESPONSE.md
          typed,      \* an answer HQ has recorded and not yet written, 0: none
          resetting,  \* "listed": /reset waits for the human's yes; "cleared"
          delivered   \* <<how, question, answer>> last handed to a model

files == <<question, answer, request, response, typed>>
vars == <<task, runs, work, canonical, epoch, asks, files, resetting,
          delivered>>

(* Utc::now().  Lease times are relative to the clock: it stays at zero, a *)
(* tick brings the end of the lease nearer, and time needs no bound.       *)
now == 0

Roles == {"executor", "supervisor"}
Stages == {"starting", "claimed", "resuming", "working", "asking",
           "wait_human", "consulting", "wait_consult", "checking",
           "gate", "final_gate", "handoff", "submitted", "stopped", "sealed",
           "bound", "ready", "approving", "applied", "unknown", "rejecting",
           "responding", "decided"}

(* record_run_started_for_task_with_baseline: the run copies the view of   *)
(* the task; only a Supervisor's copy is ever read.                        *)
NewRun(role) ==
  [role |-> role, alive |-> TRUE, active |-> TRUE, owned |-> TRUE,
   stage |-> "starting", mode |-> "none", phase |-> 0, ask |-> 0,
   tree |-> IF role = "supervisor" THEN task.tree ELSE 0]

Init ==
  /\ task = PendingTask /\ runs = <<>> /\ work = 1
  /\ canonical = 0 /\ epoch = 0 /\ asks = 0 /\ delivered = {}
  /\ question = 0 /\ answer = 0 /\ request = 0 /\ response = 0
  /\ typed = 0 /\ resetting = "no"

(* The bound leaves room for so many more sessions and questions.          *)
Load(sessions, more) == 2 * (Len(runs) + sessions) + asks + more <= MaxLoad

Running(r) == runs[r].alive /\ runs[r].active

Earlier(r, role) == {i \in 1 .. r - 1 : runs[i].role = role}

(* with_role_session and require_executor_owner in one transaction.        *)
Fenced(r) == Running(r) /\ OwnedBy(task, runs[r].role, now)

At(r, role, stage) == runs[r].role = role /\ runs[r].stage = stage

Move(r, stage) == runs' = [runs EXCEPT ![r].stage = stage]

Stop(r, stage) == runs' = [runs EXCEPT ![r].stage = stage, ![r].alive = FALSE]

-----------------------------------------------------------------------------
(* Time, processes and recovery.                                           *)

Tick ==
  /\ task.until > now
  /\ task' = [task EXCEPT !.until = @ - 1]
  /\ UNCHANGED <<runs, work, canonical, epoch, asks, files, resetting,
                 delivered>>

(* HQ starts a session: its scheduler where no live run of the role exists *)
(* (and, for a consultant, no response is stored), the answer to a         *)
(* question where HQ itself holds no live session of the asker.            *)
Spawn(role) ==
  /\ Len(runs) < MaxRuns /\ Load(1, 0)
  /\ \/ /\ \A r \in DOMAIN runs : Running(r) => runs[r].role # role
        /\ role = "supervisor" /\ task.status = "consultation" => response = 0
     \/ /\ task.status = "awaiting_human" /\ task.awaitingBy = role /\ task.answered
        /\ \A r \in DOMAIN runs : Running(r) /\ runs[r].owned => runs[r].role # role
  /\ runs' = Append(runs, NewRun(role))
  /\ UNCHANGED <<task, work, canonical, epoch, asks, files, resetting,
                 delivered>>

(* A crash, a kill, or the exit after a refused call or a lost lease.      *)
Die(r) ==
  /\ runs[r].alive
  /\ runs' = [runs EXCEPT ![r].alive = FALSE]
  /\ UNCHANGED <<task, work, canonical, epoch, asks, files, resetting,
                 delivered>>

(* record_run_finished by HQ's exit thread, or recover_interrupted_runs.   *)
RunEnded(r) ==
  /\ ~runs[r].alive /\ runs[r].active
  /\ runs' = [runs EXCEPT ![r].active = FALSE, ![r].owned = FALSE]
  /\ UNCHANGED <<task, work, canonical, epoch, asks, files, resetting,
                 delivered>>

(* HQ goes away; the sessions it started live on without it.               *)
HqCrash ==
  /\ runs' = [r \in DOMAIN runs |-> [runs[r] EXCEPT !.owned = FALSE]]
  /\ typed' = 0 /\ resetting' = "no"
  /\ UNCHANGED <<task, work, canonical, epoch, asks, question, answer,
                 request, response, delivered>>

(* recover_expired_task_leases.                                            *)
RecoverLease ==
  /\ task.claimedBy # Null /\ ~LeaseActive(task, now)
  /\ \A r \in DOMAIN runs : ~Running(r)
  /\ task' = ClearTaskLease(task)
  /\ UNCHANGED <<runs, work, canonical, epoch, asks, files, resetting,
                 delivered>>

(* renew_executor_session_lease and renew_supervisor_session.              *)
Heartbeat(r) ==
  /\ Fenced(r) /\ runs[r].stage # "starting"
  /\ IF runs[r].role = "executor"
       THEN task.status \in IsExecutorWorking \cup {"consultation", "awaiting_human"}
       ELSE runs[r].mode = "reviewing" /\ task.status \in {"reviewing", "awaiting_human"}
  /\ task' = RenewLease(task, now)
  /\ UNCHANGED <<runs, work, canonical, epoch, asks, files, resetting,
                 delivered>>

-----------------------------------------------------------------------------
(* The human.                                                              *)

(* record_scoped_human_answer: first the flag, then ANSWER.md.             *)
AnswerRecord ==
  /\ task.status = "awaiting_human" /\ ~task.answered /\ typed = 0
  /\ task' = [task EXCEPT !.answered = TRUE]
  /\ typed' = question
  /\ UNCHANGED <<runs, work, canonical, epoch, asks, question, answer,
                 request, response, resetting, delivered>>

AnswerWrite ==
  /\ typed # 0
  /\ answer' = typed /\ typed' = 0
  /\ UNCHANGED <<task, runs, work, canonical, epoch, asks, question,
                 request, response, resetting, delivered>>

(* ANSWER.md could not be written: the flag is taken back.                 *)
AnswerFailed ==
  /\ typed # 0 /\ typed' = 0
  /\ task' = IF task.status = "awaiting_human"
               THEN [task EXCEPT !.answered = FALSE] ELSE task
  /\ UNCHANGED <<runs, work, canonical, epoch, asks, question, answer,
                 request, response, resetting, delivered>>

(* do_reset: the list of tasks is read before the human confirms ...       *)
ResetListed ==
  /\ resetting = "no" /\ task.status \in IsResettable
  /\ resetting' = "listed"
  /\ UNCHANGED <<task, runs, work, canonical, epoch, asks, files, delivered>>

(* ... then HQ stops its own sessions and removes the files ...            *)
ResetClear ==
  /\ resetting = "listed" /\ resetting' = "cleared"
  /\ runs' = [r \in DOMAIN runs |->
                [runs[r] EXCEPT !.alive = @ /\ ~runs[r].owned]]
  /\ question' = 0 /\ answer' = 0 /\ request' = 0 /\ response' = 0
  /\ UNCHANGED <<task, work, canonical, epoch, asks, typed, delivered>>

(* ... and records the status, whatever it has become.                     *)
ResetRecord ==
  /\ resetting = "cleared" /\ resetting' = "no"
  /\ task' = RecordTaskStatus(task, "reset")
  /\ UNCHANGED <<runs, work, canonical, epoch, asks, files, delivered>>

-----------------------------------------------------------------------------
(* The Executor.                                                           *)

(* claim_executor_session.                                                 *)
ExecutorClaim(r) ==
  /\ At(r, "executor", "starting") /\ Running(r)
  /\ task.status = "awaiting_human" =>
       task.awaitingBy = "executor" /\ task.awaitingStatus \in IsExecutorWorking
  /\ task.status = "consultation" => task.paused \in IsExecutorWorking
  /\ Claimable(task, "executor", now,
               IsExecutorReady \cup {"awaiting_human", "consultation"})
  /\ task' = ClaimReady(task, "executor", now, TRUE)
  /\ runs' = [runs EXCEPT ![r].stage = "claimed", ![r].mode = task.status]
  /\ UNCHANGED <<work, canonical, epoch, asks, files, resetting, delivered>>

(* Journals that hold no Started record are passed over.                   *)
Journals(r) == {i \in Earlier(r, "executor") :
                  runs[i].stage \notin {"starting", "claimed", "resuming"}}

IsLast(i, S) == i \in S /\ \A j \in S : j <= i

Paused(i) ==
  CASE runs[i].stage \in {"asking", "wait_human"} -> answer
    [] runs[i].stage \in {"consulting", "wait_consult"} -> response
    [] OTHER -> 0

Waits == {"asking", "wait_human", "consulting", "wait_consult"}

MutUnknownEffect(i) == runs[i].stage = "checking"

(* What the journal of run i leaves in doubt: an interrupted check, a      *)
(* submit without its event, a wait whose answer has vanished.             *)
UnknownEffect(i) ==
  \/ runs[i].stage \in {"checking", "gate", "final_gate", "handoff"}
  \/ /\ runs[i].stage \in Waits
     /\ task.status \in IsExecutorWorking /\ Paused(i) = 0

MutPriorSettled(r) == TRUE

(* previous_nano_runs: none of them may still be recorded as active.       *)
PriorSettled(r) == \A i \in Earlier(r, "executor") : ~runs[i].active

(* recover_previous: reconcile the last journal of this agent, seal it, or *)
(* fail the task.                                                          *)
ExecutorRecover(r) ==
  /\ At(r, "executor", "claimed") /\ Fenced(r)
  /\ PriorSettled(r)
  /\ LET next == IF runs[r].mode \in {"awaiting_human", "consultation"}
                   THEN "resuming" ELSE "working"
     IN  \/ /\ Journals(r) = {}
            /\ Move(r, next)
            /\ UNCHANGED <<task, delivered>>
         \/ \E i \in Journals(r) :
              /\ IsLast(i, Journals(r))
              /\ IF \/ UnknownEffect(i)
                    \/ runs[i].stage = "stopped" /\ task.status \in IsExecutorWorking
                   THEN /\ task' = FailTask(task)
                        /\ Stop(r, "claimed")
                        /\ UNCHANGED delivered
                   ELSE /\ UNCHANGED task
                        /\ runs' = [runs EXCEPT ![r].stage = next,
                             ![i].stage = IF @ \in Waits \cup {"working"}
                                            THEN "sealed" ELSE @]
                        /\ delivered' =
                             IF /\ runs[i].stage \in Waits
                                /\ task.status \in IsExecutorWorking
                               THEN {<<"recovered", runs[i].ask, Paused(i)>>}
                               ELSE delivered
  /\ UNCHANGED <<work, canonical, epoch, asks, files, resetting>>

(* apply_patch and commands: only a session that still owns the task.      *)
Edit(r) ==
  /\ At(r, "executor", "working") /\ Fenced(r)
  /\ task.status \in IsExecutorWorking
  /\ work < MaxEdits
  /\ work' = work + 1
  /\ UNCHANGED <<task, runs, canonical, epoch, asks, files, resetting,
                 delivered>>

(* The journal records the start of check or submit.                       *)
BeginChecks(r, stage) ==
  /\ At(r, "executor", "working") /\ Fenced(r)
  /\ task.status \in IsExecutorWorking
  /\ Move(r, stage)
  /\ UNCHANGED <<task, work, canonical, epoch, asks, files, resetting,
                 delivered>>

(* The journal records the start of ask_human or consult.                  *)
BeginAsk(r, stage) ==
  /\ At(r, "executor", "working") /\ Fenced(r)
  /\ task.status \in IsExecutorWorking
  /\ asks < MaxAsks /\ Load(0, 1)
  /\ asks' = asks + 1
  /\ runs' = [runs EXCEPT ![r].stage = stage, ![r].ask = asks + 1]
  /\ UNCHANGED <<task, work, canonical, epoch, files, resetting, delivered>>

(* run_check: the result is accounted for in one transaction; the final    *)
(* gate of submit leaves a passed check unrecorded.                        *)
CheckDone(r, passed) ==
  /\ runs[r].role = "executor" /\ Fenced(r)
  /\ runs[r].stage \in {"checking", "gate", "final_gate"}
  /\ task.status \in IsExecutorWorking
  /\ task' = IF ~passed THEN CheckFailed(task)
             ELSE IF runs[r].stage = "final_gate" THEN task ELSE CheckPassed(task)
  /\ Move(r, CASE ~passed -> "working"
               [] passed /\ runs[r].stage = "gate" -> "final_gate"
               [] passed /\ runs[r].stage = "final_gate" -> "handoff"
               [] OTHER -> "working")
  /\ UNCHANGED <<work, canonical, epoch, asks, files, resetting, delivered>>

(* The end of submit: artifacts, tree and status in one transaction.       *)
Submit(r, frozen) ==
  /\ At(r, "executor", "handoff") /\ Fenced(r)
  /\ task.status \in IsExecutorWorking
  /\ task' = TaskSubmitted(CheckPassed(task), IF frozen THEN work ELSE 0)
  /\ epoch' = epoch + 1
  /\ Move(r, "submitted")
  /\ UNCHANGED <<work, canonical, asks, files, resetting, delivered>>

MutAskHuman(r) ==
  /\ At(r, "executor", "asking") /\ Fenced(r)
  /\ task.status \in IsExecutorWorking
  /\ question' = runs[r].ask
  /\ task' = HumanQuestionRequested(task, task.status, task.status, "executor")
  /\ Move(r, "wait_human")
  /\ UNCHANGED <<work, canonical, epoch, asks, answer, request, response,
                 typed, resetting, delivered>>

(* lifecycle::ask for the human: ANSWER.md is cleared and QUESTION.md      *)
(* written inside the transaction.                                         *)
AskHuman(r) ==
  /\ At(r, "executor", "asking") /\ Fenced(r)
  /\ task.status \in IsExecutorWorking
  /\ answer' = 0 /\ question' = runs[r].ask
  /\ task' = HumanQuestionRequested(task, task.status, task.status, "executor")
  /\ Move(r, "wait_human")
  /\ UNCHANGED <<work, canonical, epoch, asks, request, response, typed,
                 resetting, delivered>>

(* lifecycle::ask for the Supervisor.                                      *)
Consult(r) ==
  /\ At(r, "executor", "consulting") /\ Fenced(r)
  /\ task.status \in IsExecutorWorking
  /\ response' = 0 /\ request' = runs[r].ask
  /\ epoch' = epoch + 1
  /\ task' = ConsultationRequested(task, task.status)
  /\ Move(r, "wait_consult")
  /\ UNCHANGED <<work, canonical, asks, question, answer, typed,
                 resetting, delivered>>

(* poll_answer_checked, human: the answer file is kept.                    *)
HumanAnswered(r) ==
  /\ runs[r].role = "executor" /\ Fenced(r)
  /\ \/ runs[r].stage = "wait_human"
     \/ runs[r].stage = "resuming" /\ runs[r].mode = "awaiting_human"
  /\ task.status = "awaiting_human" /\ task.awaitingBy = "executor"
  /\ answer # 0
  /\ task' = HumanRestored(task)
  /\ delivered' = {<<"polled", question, answer>>}
  /\ question' = 0
  /\ Move(r, "working")
  /\ UNCHANGED <<work, canonical, epoch, asks, answer, request, response,
                 typed, resetting>>

(* poll_answer_checked, consultation; while the consultant itself asks the *)
(* human the Executor keeps waiting.                                       *)
ConsultAnswered(r) ==
  /\ runs[r].role = "executor" /\ Fenced(r)
  /\ \/ runs[r].stage = "wait_consult"
     \/ runs[r].stage = "resuming" /\ runs[r].mode = "consultation"
  /\ task.status = "consultation" /\ response # 0
  /\ task' = ConsultationRestored(task)
  /\ delivered' = {<<"polled", request, response>>}
  /\ request' = 0
  /\ Move(r, "working")
  /\ UNCHANGED <<work, canonical, epoch, asks, question, answer, response,
                 typed, resetting>>

(* The engine seals its journal with a budget or provider stop ...         *)
ExecutorSeal(r) ==
  /\ At(r, "executor", "working") /\ Running(r)
  /\ Move(r, "stopped")
  /\ UNCHANGED <<task, work, canonical, epoch, asks, files, resetting,
                 delivered>>

(* ... and then fails the task: FerrusSession::fail_stopped.               *)
ExecutorFailStopped(r) ==
  /\ At(r, "executor", "stopped") /\ Fenced(r)
  /\ task.status \in IsExecutorWorking
  /\ task' = FailTask(task)
  /\ Stop(r, "stopped")
  /\ UNCHANGED <<work, canonical, epoch, asks, files, resetting, delivered>>

-----------------------------------------------------------------------------
(* The Supervisor: a reviewer of the frozen tree or a consultant.          *)

PhaseOf(r) == IF task.status = "awaiting_human" THEN task.awaitingStatus
                                                ELSE task.status

(* No other Supervisor run is recorded as active, dead or alive.           *)
Exclusive(r) ==
  \A i \in DOMAIN runs \ {r} : runs[i].role = "supervisor" => ~runs[i].active

MutSupervisorBind(r) ==
  /\ At(r, "supervisor", "starting") /\ Running(r) /\ Exclusive(r)
  /\ PhaseOf(r) \in {"reviewing", "consultation"}
  /\ task' = ClaimTask(task, "supervisor", now)
  /\ runs' = [runs EXCEPT ![r].stage = "bound", ![r].mode = PhaseOf(r),
                          ![r].phase = epoch, ![r].ask = request]
  /\ UNCHANGED <<work, canonical, epoch, asks, files, resetting, delivered>>

(* Session::bind and start_supervisor_session: only a reviewer claims.     *)
SupervisorBind(r) ==
  /\ At(r, "supervisor", "starting") /\ Running(r) /\ Exclusive(r)
  /\ PhaseOf(r) \in {"reviewing", "consultation"}
  /\ task.status = "awaiting_human" => task.awaitingBy = "supervisor"
  /\ IF PhaseOf(r) = "reviewing"
       THEN /\ runs[r].tree # 0
            /\ Claimable(task, "supervisor", now, {"reviewing", "awaiting_human"})
            /\ task' = ClaimTask(task, "supervisor", now)
       ELSE UNCHANGED task
  /\ runs' = [runs EXCEPT ![r].stage = "bound", ![r].mode = PhaseOf(r),
                          ![r].phase = epoch, ![r].ask = request]
  /\ UNCHANGED <<work, canonical, epoch, asks, files, resetting, delivered>>

(* Session::authorize.                                                     *)
Authorized(r) ==
  /\ runs[r].role = "supervisor" /\ Running(r) /\ Exclusive(r)
  /\ PhaseOf(r) = runs[r].mode
  /\ task.status = "awaiting_human" => task.awaitingBy = "supervisor"
  /\ runs[r].mode = "reviewing" => Fenced(r) /\ task.tree = runs[r].tree

(* require_supervisor_review inside with_supervisor_session.               *)
ReviewFence(r) ==
  /\ Fenced(r) /\ task.status = "reviewing"
  /\ runs[r].tree # 0 /\ task.tree = runs[r].tree

(* Session::fail_stopped.                                                  *)
SupervisorFailed(r) ==
  IF /\ task.status = runs[r].mode
     /\ IF runs[r].mode = "reviewing" THEN Fenced(r) ELSE Running(r) /\ response = 0
    THEN FailTask(task) ELSE task

(* bind: a frozen tree that exceeds the source limits can never be read.   *)
SupervisorSourceLimit(r) ==
  /\ At(r, "supervisor", "bound") /\ runs[r].mode = "reviewing"
  /\ ReviewFence(r)
  /\ task' = FailTask(task)
  /\ Stop(r, "starting")
  /\ UNCHANGED <<work, canonical, epoch, asks, files, resetting, delivered>>

MutUnfinished(r) == {}

(* reject_unfinished: earlier runs of this phase whose journal holds a     *)
(* decision without a result.                                              *)
Unfinished(r) ==
  {i \in Earlier(r, "supervisor") :
     /\ runs[i].mode = runs[r].mode /\ runs[i].phase = runs[r].phase
     /\ runs[i].stage \in {"approving", "applied", "unknown", "rejecting",
                           "responding"}}

SupervisorRecover(r) ==
  /\ At(r, "supervisor", "bound") /\ Authorized(r)
  /\ IF Unfinished(r) # {}
       THEN task' = SupervisorFailed(r) /\ Stop(r, "bound")
       ELSE /\ UNCHANGED task
            /\ Move(r, IF task.status = "awaiting_human" THEN "wait_human"
                                                         ELSE "ready")
  /\ UNCHANGED <<work, canonical, epoch, asks, files, resetting, delivered>>

(* operation: the journal records the start of a decision.                 *)
BeginDecision(r, stage) ==
  /\ At(r, "supervisor", "ready") /\ Authorized(r)
  /\ task.status # "awaiting_human"
  /\ stage \in (IF runs[r].mode = "reviewing" THEN {"approving", "rejecting"}
                                              ELSE {"responding"})
  /\ stage = "responding" => response = 0
  /\ Move(r, stage)
  /\ UNCHANGED <<task, work, canonical, epoch, asks, files, resetting,
                 delivered>>

(* The call returns an error before it changed anything.                   *)
DecisionRefused(r) ==
  /\ runs[r].alive /\ runs[r].stage \in {"approving", "rejecting"}
  /\ Move(r, "ready")
  /\ UNCHANGED <<task, work, canonical, epoch, asks, files, resetting,
                 delivered>>

(* approve::run_for_context under the approval lock: the patch goes into   *)
(* the canonical checkout ...                                              *)
ApproveApply(r) ==
  /\ At(r, "supervisor", "approving") /\ ReviewFence(r)
  /\ canonical' = runs[r].tree
  /\ Move(r, "applied")
  /\ UNCHANGED <<task, work, epoch, asks, files, resetting, delivered>>

MutApproveFirst(r) ==
  /\ At(r, "supervisor", "approving") /\ ReviewFence(r)
  /\ task' = RecordTaskStatus(task, "complete")
  /\ Move(r, "decided")
  /\ UNCHANGED <<work, canonical, epoch, asks, files, resetting, delivered>>

(* ... and the post-apply checks and the fence decide whether it stays.    *)
ApproveCommit(r) ==
  /\ At(r, "supervisor", "applied") /\ ReviewFence(r)
  /\ task' = RecordTaskStatus(task, "complete")
  /\ Move(r, "decided")
  /\ UNCHANGED <<work, canonical, epoch, asks, files, resetting, delivered>>

ApproveRollback(r) ==
  /\ At(r, "supervisor", "applied") /\ runs[r].alive
  /\ canonical' = 0
  /\ Move(r, "ready")
  /\ UNCHANGED <<task, work, epoch, asks, files, resetting, delivered>>

(* The rollback fails too: the effect is unknown and the session stops.    *)
ApproveUnknown(r) ==
  /\ At(r, "supervisor", "applied") /\ runs[r].alive
  /\ Move(r, "unknown")
  /\ UNCHANGED <<task, work, canonical, epoch, asks, files, resetting,
                 delivered>>

(* A durable stop of the Supervisor's engine.                              *)
SupervisorFailStopped(r) ==
  /\ runs[r].role = "supervisor" /\ runs[r].alive
  /\ runs[r].stage \in {"ready", "unknown"}
  /\ task' = SupervisorFailed(r)
  /\ runs' = [runs EXCEPT ![r].alive = FALSE]
  /\ UNCHANGED <<work, canonical, epoch, asks, files, resetting, delivered>>

(* reject_supervisor_session.                                              *)
Reject(r) ==
  /\ At(r, "supervisor", "rejecting") /\ ReviewFence(r)
  /\ task' = ReviewRejected(task)
  /\ Move(r, "decided")
  /\ UNCHANGED <<work, canonical, epoch, asks, files, resetting, delivered>>

(* respond_consult::run_for_context: a plain write, after authorize.       *)
RespondConsult(r) ==
  /\ At(r, "supervisor", "responding") /\ runs[r].alive
  /\ response' = runs[r].ask
  /\ Move(r, "decided")
  /\ UNCHANGED <<task, work, canonical, epoch, asks, question, answer,
                 request, typed, resetting, delivered>>

MutSupervisorAsk(r) ==
  /\ At(r, "supervisor", "ready") /\ Authorized(r)
  /\ task.status = runs[r].mode
  /\ asks < MaxAsks /\ Load(0, 1) /\ asks' = asks + 1
  /\ answer' = 0 /\ question' = asks + 1
  /\ task' = HumanQuestionRequested(task, task.status, task.status, "supervisor")
  /\ Move(r, "wait_human")
  /\ UNCHANGED <<work, canonical, epoch, request, response, typed,
                 resetting, delivered>>

(* review::ask: a consultant keeps what the consultation had paused.       *)
SupervisorAsk(r) ==
  /\ At(r, "supervisor", "ready") /\ Authorized(r)
  /\ task.status = runs[r].mode
  /\ asks < MaxAsks /\ Load(0, 1) /\ asks' = asks + 1
  /\ answer' = 0 /\ question' = asks + 1
  /\ task' = HumanQuestionRequested(task, task.status,
               IF runs[r].mode = "reviewing" THEN "reviewing" ELSE task.paused,
               "supervisor")
  /\ Move(r, "wait_human")
  /\ UNCHANGED <<work, canonical, epoch, request, response, typed,
                 resetting, delivered>>

(* wait_answer.                                                            *)
SupervisorAnswered(r) ==
  /\ At(r, "supervisor", "wait_human") /\ Authorized(r)
  /\ task.status = "awaiting_human" /\ answer # 0
  /\ task' = HumanRestored(task)
  /\ delivered' = {<<"polled", question, answer>>}
  /\ question' = 0
  /\ Move(r, "ready")
  /\ UNCHANGED <<work, canonical, epoch, asks, answer, request, response,
                 typed, resetting>>

-----------------------------------------------------------------------------

Executor(r) ==
  \/ ExecutorClaim(r) \/ ExecutorRecover(r) \/ Edit(r)
  \/ BeginChecks(r, "checking") \/ BeginChecks(r, "gate")
  \/ BeginAsk(r, "asking") \/ BeginAsk(r, "consulting")
  \/ CheckDone(r, TRUE) \/ CheckDone(r, FALSE)
  \/ Submit(r, TRUE) \/ Submit(r, FALSE)
  \/ AskHuman(r) \/ Consult(r) \/ HumanAnswered(r) \/ ConsultAnswered(r)
  \/ ExecutorSeal(r) \/ ExecutorFailStopped(r)

Supervisor(r) ==
  \/ SupervisorBind(r) \/ SupervisorSourceLimit(r) \/ SupervisorRecover(r)
  \/ BeginDecision(r, "approving") \/ BeginDecision(r, "rejecting")
  \/ BeginDecision(r, "responding") \/ DecisionRefused(r)
  \/ ApproveApply(r) \/ ApproveCommit(r) \/ ApproveRollback(r)
  \/ ApproveUnknown(r) \/ SupervisorFailStopped(r) \/ Reject(r)
  \/ RespondConsult(r) \/ SupervisorAsk(r) \/ SupervisorAnswered(r)

Next ==
  \/ Tick \/ RecoverLease \/ HqCrash
  \/ AnswerRecord \/ AnswerWrite \/ AnswerFailed \/ ResetListed
  \/ ResetClear \/ ResetRecord
  \/ \E role \in Roles : Spawn(role)
  \/ \E r \in DOMAIN runs : Executor(r) \/ Supervisor(r)
                            \/ Die(r) \/ RunEnded(r) \/ Heartbeat(r)

Spec == Init /\ [][Next]_vars

-----------------------------------------------------------------------------
(* Properties.                                                             *)

Trees == 0 .. (MaxEdits + 1)

TypeOK ==
  /\ task \in Row(Roles, Trees)
  /\ runs \in Seq([role: Roles, alive: BOOLEAN, active: BOOLEAN,
                   owned: BOOLEAN, stage: Stages, mode: TaskStatus \cup {"none"},
                   phase: Nat, ask: 0 .. MaxAsks, tree: Trees])
  /\ work \in Trees /\ canonical \in Trees /\ epoch \in Nat
  /\ asks \in 0 .. MaxAsks
  /\ \A f \in {question, answer, request, response, typed} : f \in 0 .. MaxAsks
  /\ resetting \in {"no", "listed", "cleared"}
  /\ delivered \subseteq {"polled", "recovered"} \X (0 .. MaxAsks) \X (0 .. MaxAsks)

(* Two sessions never edit the worktree at once: at most one Executor past *)
(* its recovery passes the lease and run checks every tool call makes      *)
(* (with_role_session, require_executor_owner, previous_nano_runs),        *)
(* however HQ crashes, spawns again or lets leases run out.                *)
CanWrite(r) ==
  /\ runs[r].role = "executor" /\ Fenced(r)
  /\ runs[r].stage \notin {"starting", "claimed"}

OneWriter ==
  \A i, j \in DOMAIN runs : CanWrite(i) /\ CanWrite(j) => i = j

(* A Complete task has exactly the tree its reviewer was shown in the      *)
(* canonical checkout (run_for_context and integrate_approved_task check   *)
(* the review fence before the patch and again before the status).         *)
CompleteMeansMerged ==
  task.status = "complete" =>
    /\ canonical # 0 /\ canonical = task.tree
    /\ \E r \in DOMAIN runs : runs[r].stage = "decided" /\ runs[r].tree = canonical

(* A merged patch is never forgotten: unless the task is over, a patch in  *)
(* the canonical checkout means a review in progress, and belongs to a run *)
(* of this very review phase whose journal shows the unfinished approve,   *)
(* which is what reject_unfinished looks for.                              *)
MergeIsAccountedFor ==
  canonical # 0 /\ task.status \notin IsTerminal =>
    /\ task.status = "reviewing"
    /\ \E r \in DOMAIN runs :
         /\ runs[r].stage \in {"applied", "unknown"} /\ runs[r].tree = canonical
         /\ runs[r].mode = "reviewing" /\ runs[r].phase = epoch

(* A check or a submission that a crash left in doubt is never repeated:   *)
(* once a journal ends inside one, no later Executor gets past its         *)
(* recovery (resume.rs pending, recover_previous, fail_unknown_effect).    *)
DoubtStopsWork ==
  \A i, j \in DOMAIN runs :
    /\ i < j /\ runs[i].role = "executor" /\ runs[j].role = "executor"
    /\ runs[i].stage \in {"checking", "gate", "final_gate", "handoff"}
    => runs[j].stage \in {"starting", "claimed"}

(* No effect of a session that died is lost, doubled or left half done:    *)
(* what was merged, checked or submitted is accounted for.                 *)
EffectsAccountedFor == CompleteMeansMerged /\ MergeIsAccountedFor /\ DoubtStopsWork

(* The columns of a paused task say how to resume it: a question knows its *)
(* asker and what to restore, a consultation what it paused, and a task    *)
(* that is being worked on or reviewed has no leftovers of either.         *)
WaitsCanResume ==
  /\ task.status = "awaiting_human" =>
       \/ /\ task.awaitingBy = "executor"
          /\ task.awaitingStatus \in IsExecutorWorking
       \/ /\ task.awaitingBy = "supervisor" /\ task.awaitingStatus = "reviewing"
       \/ /\ task.awaitingBy = "supervisor" /\ task.awaitingStatus = "consultation"
          /\ task.paused \in IsExecutorWorking
  /\ task.status = "consultation" => task.paused \in IsExecutorWorking
  /\ task.status \in IsExecutorReady \cup {"reviewing"} =>
       task.paused = Null /\ task.awaitingBy = Null

(* An answer or a consultation response that a waiting session takes from  *)
(* its file is the one given to the question it asked                      *)
(* (poll_answer_checked, wait_answer); 0 stands for a question whose file  *)
(* a reset has removed.                                                    *)
PolledAnswersMatch ==
  \A d \in delivered : d[1] = "polled" => d[2] \in {0, d[3]}

(* A paused task can be resumed, and by the answer to its question.        *)
WaitsAreAnswered == WaitsCanResume /\ PolledAnswersMatch

(* "Stored answers are carried forward only when the recovered journal     *)
(* contains the corresponding question"                                    *)
(* (docs/ferrus-nano/ferrus-nano-sessions.md): what recovery hands to the  *)
(* model as the answer to a question is the answer to that question.       *)
RecoveredAnswersMatch ==
  \A d \in delivered : d[1] = "recovered" => d[2] = d[3]

Lifecycle == INSTANCE TaskLifecycle WITH status <- task.status,
                                         paused <- PausedStack(task)

(* The sessions implement the task state machine: however they crash,      *)
(* overlap and recover, the task moves along its edges only, and every     *)
(* wait returns to the status it interrupted.                              *)
ImplementsLifecycle == Lifecycle!Spec

(* A consultant or reviewer never takes the lease from a live Executor: a  *)
(* lease that has not run out changes hands only through a transition that *)
(* gives it up (clears_lease).                                             *)
LeaseNeverStolen ==
  [][LeaseActive(task, now) /\ task'.claimedBy # task.claimedBy
       => task'.claimedBy = Null /\ task'.status \in ClearsLease]_vars
=============================================================================
