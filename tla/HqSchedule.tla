------------------------------ MODULE HqSchedule ------------------------------
(***************************************************************************)
(* HQ's scheduler over several tasks: src/src/hq/context.rs                *)
(* (reconcile_runtime_schedule and the spawn functions),                   *)
(* src/src/hq/context/scheduling.rs, the answer path of                    *)
(* src/src/hq/context/interaction.rs and the selections of                 *)
(* src/src/hq/mod.rs.                                                      *)
(*                                                                         *)
(* One HQ runs one command or one reconcile at a time, but a reconcile is  *)
(* many awaits: it lists the tasks, lists the answered questions, and then *)
(* for each kind of work reads the live runs, selects and starts sessions  *)
(* one by one, while the sessions it has started go on changing the rows.  *)
(* What a session does to its row is one step each, under the checks of    *)
(* NativeSessions; leases do not run out here (there they do).             *)
(***************************************************************************)
EXTENDS TaskTable, Integers, FiniteSets

CONSTANTS NTasks,        \* tasks, in the order list_tasks returns them
          MaxParallel,   \* [limits] max_parallel_tasks
          MaxWaits,      \* bound on questions and consultations, all tasks
          MaxCrashes     \* bound on crashes of HQ

ASSUME ScheduleAssumption ==
  /\ NTasks \in Nat \ {0} /\ MaxParallel \in Nat \ {0}
  /\ MaxWaits \in Nat /\ MaxCrashes \in Nat

Tasks == 1 .. NTasks
Roles == {"executor", "supervisor"}

VARIABLES tasks,     \* the rows
          response,  \* CONSULT_RESPONSE.md is there
          live,      \* how many live runs of a role a task has
          mine,      \* HQ holds the handle of a live one
          hq,        \* where HQ is, and what it has read on the way
          waits, crashes

vars == <<tasks, response, live, mine, hq, waits, crashes>>

Now == 0

Idle == [pc |-> "idle", list |-> [t \in Tasks |-> "unknown"],
         waiters |-> [t \in Tasks |-> Null], started |-> FALSE, batch |-> {},
         slots |-> [role \in Roles |-> 0], gated |-> FALSE]

Init ==
  /\ tasks = [t \in Tasks |-> PendingTask]
  /\ response = [t \in Tasks |-> FALSE]
  /\ live = [x \in Tasks \X Roles |-> 0]
  /\ mine = [x \in Tasks \X Roles |-> FALSE]
  /\ hq = Idle /\ waits = 0 /\ crashes = 0

-----------------------------------------------------------------------------
(* Sessions.                                                               *)

Session(t, role) == live[t, role] > 0

Update(t, row) == tasks' = [tasks EXCEPT ![t] = row]

Claim(t) ==
  /\ Session(t, "executor")
  /\ Claimable(tasks[t], "executor", Now, IsExecutorReady)
  /\ ~OwnedBy(tasks[t], "executor", Now)
  /\ Update(t, ClaimReady(tasks[t], "executor", Now, TRUE))
  /\ UNCHANGED <<response, live, mine, hq, waits, crashes>>

Works(t) == /\ Session(t, "executor") /\ OwnedBy(tasks[t], "executor", Now)
            /\ tasks[t].status \in IsExecutorWorking

Submit(t) ==
  /\ Works(t)
  /\ Update(t, TaskSubmitted(tasks[t], 1))
  /\ UNCHANGED <<response, live, mine, hq, waits, crashes>>

Consult(t) ==
  /\ Works(t) /\ waits < MaxWaits /\ waits' = waits + 1
  /\ Update(t, ConsultationRequested(tasks[t], tasks[t].status))
  /\ response' = [response EXCEPT ![t] = FALSE]
  /\ UNCHANGED <<live, mine, hq, crashes>>

Respond(t) ==
  /\ Session(t, "supervisor") /\ tasks[t].status = "consultation"
  /\ response' = [response EXCEPT ![t] = TRUE]
  /\ UNCHANGED <<tasks, live, mine, hq, waits, crashes>>

Advised(t) ==
  /\ Session(t, "executor") /\ tasks[t].status = "consultation" /\ response[t]
  /\ Update(t, ConsultationRestored(tasks[t]))
  /\ UNCHANGED <<response, live, mine, hq, waits, crashes>>

AskHuman(t, role) ==
  /\ \/ role = "executor" /\ Works(t)
     \/ role = "supervisor" /\ Session(t, role) /\ tasks[t].status = "reviewing"
  /\ waits < MaxWaits /\ waits' = waits + 1
  /\ Update(t, HumanQuestionRequested(tasks[t], tasks[t].status,
                                      tasks[t].status, role))
  /\ UNCHANGED <<response, live, mine, hq, crashes>>

Answered(t, role) ==
  /\ Session(t, role) /\ tasks[t].status = "awaiting_human"
  /\ tasks[t].awaitingBy = role /\ tasks[t].answered
  /\ Update(t, HumanRestored(tasks[t]))
  /\ UNCHANGED <<response, live, mine, hq, waits, crashes>>

Decide(t, approved) ==
  /\ Session(t, "supervisor") /\ tasks[t].status = "reviewing"
  /\ Update(t, IF approved THEN RecordTaskStatus(tasks[t], "complete")
                           ELSE ReviewRejected(tasks[t]))
  /\ UNCHANGED <<response, live, mine, hq, waits, crashes>>

(* A session ends, with or without having done anything.                   *)
Exit(t, role) ==
  /\ Session(t, role)
  /\ live' = [live EXCEPT ![t, role] = @ - 1]
  /\ mine' = [mine EXCEPT ![t, role] = @ /\ live[t, role] > 1]
  /\ UNCHANGED <<tasks, response, hq, waits, crashes>>

-----------------------------------------------------------------------------
(* What HQ reads.                                                          *)

LiveTasks == {t \in Tasks : \E role \in Roles : Session(t, role)}

(* occupied_executor_slots: live runs in the database and own handles.     *)
Occupied == {t \in Tasks : Session(t, "executor")}

ExecutorSlots ==
  IF Cardinality(Occupied) < MaxParallel
    THEN MaxParallel - Cardinality(Occupied) ELSE 0

(* running_supervisor_count: own handles only.                             *)
SupervisorSlots ==
  LET running == Cardinality({t \in Tasks : mine[t, "supervisor"]})
  IN  IF running < MaxParallel THEN MaxParallel - running ELSE 0

(* The functions reconcile_runtime_schedule calls, in order.               *)
Functions == {"human", "consultation", "advised", "reviewing", "queued"}

After(pc) == CASE pc = "human" -> "consultation" [] pc = "consultation" -> "advised"
               [] pc = "advised" -> "reviewing" [] pc = "reviewing" -> "queued"

RoleAt(pc, t) ==
  CASE pc = "human" -> hq.waiters[t]
    [] pc \in {"consultation", "reviewing"} -> "supervisor"
    [] pc \in {"advised", "queued"} -> "executor"

-----------------------------------------------------------------------------
(* Reconcile.                                                              *)

ListTasks ==
  /\ hq.pc = "idle"
  /\ hq' = [hq EXCEPT !.pc = "listed", !.list = [t \in Tasks |-> tasks[t].status]]
  /\ UNCHANGED <<tasks, response, live, mine, waits, crashes>>

(* list_answered_human_waiters; with nothing to do the reconcile ends.     *)
ListWaiters ==
  /\ hq.pc = "listed"
  /\ LET w == [t \in Tasks |->
                 IF tasks[t].status = "awaiting_human" /\ tasks[t].answered
                   THEN tasks[t].awaitingBy ELSE Null]
     IN  hq' = IF \/ \E t \in Tasks : w[t] # Null
                  \/ \E t \in Tasks :
                       hq.list[t] \in IsExecutorReady \cup {"reviewing", "consultation"}
                 THEN [hq EXCEPT !.pc = "human", !.waiters = w]
                 ELSE Idle
  /\ UNCHANGED <<tasks, response, live, mine, waits, crashes>>

MutCandidates(pc) ==
  CASE pc = "human" -> {t \in Tasks : hq.waiters[t] # Null}
    [] pc = "consultation" ->
         {t \in Tasks : hq.list[t] = "consultation" /\ ~response[t]}
    [] pc = "advised" ->
         {t \in Tasks : hq.list[t] = "consultation" /\ response[t]}
    [] pc = "reviewing" -> {t \in Tasks : hq.list[t] = "reviewing"}
    [] pc = "queued" -> {t \in Tasks : hq.list[t] \in IsExecutorReady}

(* What schedule_answered_human_tasks, schedule_consultation_tasks,        *)
(* schedule_answered_consultation_tasks, schedule_reviewing_tasks and      *)
(* schedule_queued_tasks_from look for: old statuses, fresh live runs.     *)
Candidates(pc) ==
  CASE pc = "human" ->
         {t \in Tasks : hq.waiters[t] # Null /\ ~Session(t, hq.waiters[t])}
    [] pc = "consultation" ->
         {t \in Tasks : /\ hq.list[t] = "consultation" /\ ~response[t]
                        /\ ~Session(t, "supervisor")}
    [] pc = "advised" ->
         {t \in Tasks \ LiveTasks : hq.list[t] = "consultation" /\ response[t]}
    [] pc = "reviewing" -> {t \in Tasks \ LiveTasks : hq.list[t] = "reviewing"}
    [] pc = "queued" -> {t \in Tasks \ LiveTasks : hq.list[t] \in IsExecutorReady}

(* One schedule function counts the slots and selects ...                  *)
Select(pc) ==
  /\ hq.pc = pc /\ ~hq.started
  /\ hq' = [hq EXCEPT !.started = TRUE, !.batch = Candidates(pc),
                      !.slots = [executor |-> ExecutorSlots,
                                 supervisor |-> SupervisorSlots]]
  /\ UNCHANGED <<tasks, response, live, mine, waits, crashes>>

(* ... and then starts what it selected, in the order of the list, as long *)
(* as there are slots.                                                     *)
InTurn(pc, t) ==
  LET startable == {u \in hq.batch : hq.slots[RoleAt(pc, u)] > 0}
  IN  /\ hq.pc = pc /\ hq.started
      /\ t \in startable /\ \A u \in startable : t <= u

Started(pc, t) == [hq EXCEPT !.batch = @ \ {t}, !.gated = FALSE,
                             !.slots[RoleAt(pc, t)] = @ - 1]


(* prepare_headless_slot and enforce_executor_dispatch_limit: a spent      *)
(* budget fails the task, whatever its status is by now.                   *)
Gate(pc, t) ==
  /\ InTurn(pc, t) /\ ~hq.gated /\ RoleAt(pc, t) = "executor"
  /\ IF DispatchLimitReached(tasks[t])
       THEN Update(t, FailTask(tasks[t])) /\ hq' = Started(pc, t)
       ELSE UNCHANGED tasks /\ hq' = [hq EXCEPT !.gated = TRUE]
  /\ UNCHANGED <<response, live, mine, waits, crashes>>

(* spawn_executor_for_task_mode after the gate, counting the dispatch, or  *)
(* spawn_headless_supervisor_for_task_with_workspace.                      *)
Launch(pc, t) ==
  LET role == RoleAt(pc, t)
  IN  /\ InTurn(pc, t) /\ (role = "executor" => hq.gated)
      /\ live' = [live EXCEPT ![t, role] = @ + 1]
      /\ mine' = [mine EXCEPT ![t, role] = TRUE]
      /\ tasks' = IF role = "executor"
                    THEN [tasks EXCEPT ![t] = DispatchRecorded(@)] ELSE tasks
      /\ hq' = Started(pc, t)
      /\ UNCHANGED <<response, waits, crashes>>

(* A start that fails costs no slot and ends the function, except for      *)
(* answered questions, where the next one gets its turn.                   *)
StartFails(pc, t) ==
  /\ InTurn(pc, t)
  /\ hq' = [hq EXCEPT !.gated = FALSE,
                      !.batch = IF pc = "human" THEN @ \ {t} ELSE {}]
  /\ UNCHANGED <<tasks, response, live, mine, waits, crashes>>

FunctionDone(pc) ==
  /\ hq.pc = pc /\ hq.started /\ \A t \in Tasks : ~InTurn(pc, t)
  /\ hq' = IF pc = "queued" THEN Idle
           ELSE [hq EXCEPT !.pc = After(pc), !.started = FALSE, !.batch = {}]
  /\ UNCHANGED <<tasks, response, live, mine, waits, crashes>>

Reconcile ==
  \/ ListTasks \/ ListWaiters
  \/ \E pc \in Functions :
       \/ Select(pc) \/ FunctionDone(pc)
       \/ \E t \in Tasks : Gate(pc, t) \/ Launch(pc, t)

-----------------------------------------------------------------------------
(* The human answers at HQ's prompt, between two reconciles: the answer is *)
(* recorded and the asker started again unless HQ holds a live session of  *)
(* it; neither slots nor the runs of an earlier HQ are looked at.          *)
AnswerAtHq(t) ==
  /\ hq.pc = "idle"
  /\ tasks[t].status = "awaiting_human" /\ ~tasks[t].answered
  /\ LET row  == [tasks[t] EXCEPT !.answered = TRUE]
         role == tasks[t].awaitingBy
     IN  IF mine[t, role]
           THEN Update(t, row) /\ UNCHANGED <<live, mine>>
         ELSE IF role = "executor" /\ DispatchLimitReached(row)
           THEN Update(t, FailTask(row)) /\ UNCHANGED <<live, mine>>
         ELSE /\ Update(t, IF role = "executor" THEN DispatchRecorded(row) ELSE row)
              /\ live' = [live EXCEPT ![t, role] = @ + 1]
              /\ mine' = [mine EXCEPT ![t, role] = TRUE]
  /\ UNCHANGED <<response, hq, waits, crashes>>

HqCrash ==
  /\ crashes < MaxCrashes /\ crashes' = crashes + 1
  /\ hq' = Idle
  /\ mine' = [x \in Tasks \X Roles |-> FALSE]
  /\ UNCHANGED <<tasks, response, live, waits>>

Progress(t) ==
  \/ Claim(t) \/ Submit(t) \/ Consult(t) \/ Respond(t) \/ Advised(t)
  \/ Decide(t, TRUE) \/ Decide(t, FALSE)
  \/ \E role \in Roles : AskHuman(t, role) \/ Answered(t, role)

Next ==
  \/ Reconcile \/ HqCrash
  \/ \E pc \in Functions, t \in Tasks : StartFails(pc, t)
  \/ \E t \in Tasks : Progress(t) \/ AnswerAtHq(t)
                      \/ \E role \in Roles : Exit(t, role)

Spec == Init /\ [][Next]_vars

(* HQ keeps reconciling, a start that is tried again and again succeeds    *)
(* once, and no session runs for ever.                                     *)
Fairness ==
  /\ WF_vars(Reconcile)
  /\ \A t \in Tasks : SF_vars(\E pc \in Functions : Launch(pc, t))
                      /\ SF_vars(\E pc \in Functions : Gate(pc, t))
  /\ \A t \in Tasks, role \in Roles : WF_vars(Exit(t, role))

LiveSpec == Spec /\ Fairness

-----------------------------------------------------------------------------
(* Properties.                                                             *)

(* The scheduler never starts a second session next to a live one of the   *)
(* same role and task, nor an Executor beyond max_parallel_tasks, although *)
(* it decided on older readings (occupied_executor_slots,                  *)
(* task_claim_blocks_spawn) and sessions of an earlier HQ may be alive.    *)
LaunchesAreSafe ==
  [][\A x \in Tasks \X Roles :
       hq.pc # "idle" /\ live'[x] > live[x] =>
         /\ live[x] = 0
         /\ x[2] = "executor" => Cardinality(Occupied') <= MaxParallel]_vars



(* "a task that never reaches review cannot churn forever" (task.rs) and   *)
(* the failure text "without reaching review": HQ itself fails a task only *)
(* while it has not reached review.                                        *)
ReviewSurvivesScheduling ==
  [][\A t \in Tasks :
       tasks[t].status = "reviewing" /\ tasks'[t].status = "failed"
         => tasks'[t].cycles > tasks[t].cycles]_vars

(* "max_parallel_tasks = 1   # max concurrent executor sessions"           *)
(* (.agents/skills/ferrus/SKILL.md).                                       *)
ExecutorLimit == Cardinality(Occupied) <= MaxParallel
=============================================================================
