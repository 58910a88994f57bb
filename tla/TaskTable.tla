------------------------------ MODULE TaskTable ------------------------------
(***************************************************************************)
(* One row of the table "tasks" in ferrus.db and what each statement the   *)
(* runtime issues does to it (src/src/project/database.rs, claims.rs,      *)
(* task.rs, task/waits.rs, src/src/runtime_status.rs).                     *)
(*                                                                         *)
(* These are the pure halves of the transactions.  Who may run them, and   *)
(* against which reading of the row, is said by the modules that use them: *)
(* NativeSessions, ToolCalls and HqSchedule.  last_heartbeat, failure      *)
(* texts, paths and events are left out; the frozen repository view is     *)
(* its source tree.                                                        *)
(***************************************************************************)
EXTENDS Naturals, Sequences

CONSTANTS LeaseTtl,              \* [lease] ttl_secs
          MaxCheckRetries,       \* [limits] max_check_retries
          MaxReviewCycles,       \* [limits] max_review_cycles
          MaxExecutorDispatches  \* [limits] max_executor_dispatches, 0: no limit

ASSUME TableAssumption ==
  /\ LeaseTtl \in Nat \ {0}
  /\ MaxCheckRetries \in Nat
  /\ MaxReviewCycles \in Nat
  /\ MaxExecutorDispatches \in Nat

(* A NULL column.                                                          *)
Null == "null"

TaskStatus == {"unknown", "pending", "executing", "addressing",
               "consultation", "awaiting_human", "reviewing",
               "complete", "failed", "reset"}

ClearsLease == {"reset", "reviewing", "addressing", "complete", "failed"}

IsExecutorReady == {"pending", "executing", "addressing"}

IsExecutorWorking == {"executing", "addressing"}

IsResettable == TaskStatus \ {"unknown", "reset", "complete"}

IsTerminal == {"reset", "complete", "failed"}

(* The row reserve_task_artifact and finalize leave behind.                *)
PendingTask ==
  [status |-> "pending", claimedBy |-> Null, until |-> 0, paused |-> Null,
   awaitingBy |-> Null, awaitingStatus |-> Null, answered |-> FALSE,
   retries |-> 0, cycles |-> 0, dispatches |-> 0, tree |-> 0]

Row(agents, trees) ==
  [status: TaskStatus, claimedBy: agents \cup {Null}, until: Nat,
   paused: TaskStatus \cup {Null}, awaitingBy: agents \cup {Null},
   awaitingStatus: TaskStatus \cup {Null}, answered: BOOLEAN,
   retries: Nat, cycles: Nat, dispatches: Nat, tree: trees]

-----------------------------------------------------------------------------
(* Leases.                                                                 *)

LeaseActive(t, now) == t.claimedBy # Null /\ now < t.until

(* require_executor_owner.                                                 *)
OwnedBy(t, a, now) == t.claimedBy = a /\ now < t.until

ClearTaskLease(t) == [t EXCEPT !.claimedBy = Null, !.until = 0]

ClaimTask(t, a, now) == [t EXCEPT !.claimedBy = a, !.until = now + LeaseTtl]

RenewLease(t, now) == [t EXCEPT !.until = now + LeaseTtl]

PromotePending(t) ==
  IF t.status = "pending" THEN [t EXCEPT !.status = "executing",
                                         !.paused = Null]
                          ELSE t

(* claim_ready_task_in_transaction does not answer NoAvailable.            *)
Claimable(t, a, now, allowed) ==
  /\ t.status \in allowed
  /\ LeaseActive(t, now) => t.claimedBy = a

(* ... and the row it leaves: the caller's own live lease is kept as it is *)
(* (AlreadyClaimed), any other is replaced.                                *)
ClaimReady(t, a, now, promote) ==
  LET p == IF promote THEN PromotePending(t) ELSE t
  IN  IF LeaseActive(t, now) THEN p ELSE ClaimTask(p, a, now)

-----------------------------------------------------------------------------
(* Transitions.                                                            *)

(* record_task_status_on_connection: nothing but the status and, for some  *)
(* statuses, the lease.                                                    *)
RecordTaskStatus(t, s) ==
  LET u == [t EXCEPT !.status = s]
  IN  IF s \in ClearsLease THEN ClearTaskLease(u) ELSE u

FailTask(t) == RecordTaskStatus(t, "failed")

CheckPassed(t) == [t EXCEPT !.retries = 0]

CheckFailed(t) ==
  LET u == [t EXCEPT !.retries = @ + 1]
  IN  IF u.retries >= MaxCheckRetries THEN FailTask(u) ELSE u

(* task_submitted_in_transaction; tree 0 stands for a view that could not  *)
(* be frozen, which leaves the recorded one alone.                         *)
TaskSubmitted(t, tree) ==
  [RecordTaskStatus(t, "reviewing")
     EXCEPT !.tree = IF tree = 0 THEN @ ELSE tree]

ReviewRejected(t) ==
  LET u == [t EXCEPT !.cycles = @ + 1]
  IN  IF u.cycles >= MaxReviewCycles THEN FailTask(u)
      ELSE [RecordTaskStatus(u, "addressing")
              EXCEPT !.retries = 0, !.dispatches = 0, !.tree = 0]

ConsultationRequested(t, paused) ==
  [t EXCEPT !.status = "consultation", !.paused = paused]

MutConsultationRestored(t) ==
  [t EXCEPT !.status = t.awaitingStatus, !.paused = Null]

ConsultationRestored(t) ==
  [t EXCEPT !.status = IF t.paused = Null THEN "executing" ELSE t.paused,
            !.paused = Null]

HumanQuestionRequested(t, resume, paused, by) ==
  [t EXCEPT !.status = "awaiting_human", !.paused = paused,
            !.awaitingBy = by, !.awaitingStatus = resume, !.answered = FALSE]

MutHumanRestored(t) ==
  [t EXCEPT !.status = t.paused, !.paused = Null, !.awaitingBy = Null,
            !.awaitingStatus = Null, !.answered = FALSE]

(* task_restore_human_in_transaction: only a return to a consultation      *)
(* keeps the status that consultation had paused.                          *)
HumanRestored(t) ==
  LET resumed == IF t.awaitingStatus # Null THEN t.awaitingStatus
                 ELSE IF t.paused # Null THEN t.paused ELSE "executing"
  IN  [t EXCEPT !.status = resumed,
                !.paused = IF resumed = "consultation" THEN @ ELSE Null,
                !.awaitingBy = Null, !.awaitingStatus = Null,
                !.answered = FALSE]

(* What the waits of a task have interrupted, innermost first, read from *)
(* paused_status and awaiting_human_status.                                *)
PausedStack(t) ==
  CASE t.status = "consultation" -> <<t.paused>>
    [] t.status = "awaiting_human" ->
         <<t.awaitingStatus>> \o (IF t.awaitingStatus = "consultation"
                                       THEN <<t.paused>> ELSE <<>>)
    [] OTHER -> <<>>

-----------------------------------------------------------------------------
(* The dispatch budget of a work phase.                                    *)

DispatchLimitReached(t) ==
  MaxExecutorDispatches # 0 /\ t.dispatches >= MaxExecutorDispatches


DispatchRecorded(t) == [t EXCEPT !.dispatches = @ + 1]
=============================================================================
