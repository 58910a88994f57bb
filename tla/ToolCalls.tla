------------------------------ MODULE ToolCalls ------------------------------
(***************************************************************************)
(* The MCP tools through which agents other than Nano work on a task       *)
(* (src/src/server/tools/).  A tool call reads the task's context, checks  *)
(* the status it saw, takes or renews the lease, does its work (checks,    *)
(* files, an integration) and at last writes the task row, without looking *)
(* at it again.  Between any two of these steps other calls, HQ and the    *)
(* clock may intervene, and the calling session may die.                   *)
(*                                                                         *)
(* One task, and one call at a time per agent.  Questions and              *)
(* consultations are numbered; a file holds the number of the question it  *)
(* asks or answers, 0 when it is empty or absent.                          *)
(***************************************************************************)
EXTENDS TaskTable, Sequences

CONSTANTS Executors,    \* agent ids of Executors; they may differ in agent type
          Supervisor,
          MaxTime, MaxAsks, MaxResets,
          SlowCalls     \* TRUE: a call may take longer than its lease

Agents == Executors \cup {Supervisor}

VARIABLES task, now,
          question, answer, request, response,  \* files of the run directory
          calls,      \* the call each agent is in
          joined,     \* agents with an active run on the task
          asked,      \* the question and the consultation an agent last dealt with
          asks,       \* how many were asked
          typed,      \* an answer HQ has flagged and not yet written
          merged,     \* the patch is in the canonical checkout
          delivered,  \* pairs of a question and the answer its asker got
          resets

files == <<question, answer, request, response>>
vars  == <<task, now, files, calls, joined, asked, asks, typed, merged, delivered, resets>>

NoCall == [tool |-> "none", pc |-> "none", status |-> Null, paused |-> Null,
           before |-> FALSE, got |-> 0]

Init ==
  /\ task = PendingTask /\ now = 0
  /\ question = 0 /\ answer = 0 /\ request = 0 /\ response = 0
  /\ calls = [a \in Agents |-> NoCall] /\ joined = {}
  /\ asked = [a \in Agents |-> [question |-> 0, request |-> 0, responded |-> 0]]
  /\ asks = 0 /\ typed = 0 /\ merged = FALSE /\ delivered = {} /\ resets = 0

-----------------------------------------------------------------------------
(* The common part of a call.                                              *)

(* The statuses the tool accepts.                                          *)
Allowed(tool) ==
  CASE tool \in {"check", "submit", "consult"} -> IsExecutorWorking
    [] tool = "ask_human" -> IsExecutorWorking \cup {"consultation", "reviewing"}
    [] tool = "wait_for_answer" -> {"awaiting_human"}
    [] tool \in {"wait_for_consult", "respond_consult"} -> {"consultation"}
    [] tool \in {"approve", "reject"} -> {"reviewing"}
    [] tool = "reset" -> {"failed"}

ToolsOf(a) ==
  IF a = Supervisor
    THEN {"approve", "reject", "respond_consult", "ask_human", "wait_for_answer", "reset"}
    ELSE {"check", "submit", "consult", "wait_for_consult", "ask_human", "wait_for_answer"}

(* Agents follow their prompts: an Executor asks about its own work and    *)
(* waits for the response once it has consulted, a consultant works on a   *)
(* request it has read and answers it once, an answer is awaited by whoever*)
(* asked.                                                                  *)
Prompted(a, tool) ==
  /\ tool \in {"ask_human", "consult"} => asks < MaxAsks
  /\ tool = "reset" => resets < MaxResets
  /\ tool = "wait_for_answer" => task.awaitingBy = a
  /\ tool = "ask_human" =>
       task.status \in IF a = Supervisor THEN {"reviewing", "consultation"}
                                         ELSE IsExecutorWorking
  /\ task.status = "consultation" =>
       IF a = Supervisor THEN asked[a].request # asked[a].responded
                         ELSE tool = "wait_for_consult"

(* require_runtime_task_context and the status check.                      *)
Begin(a, tool) ==
  /\ a \in joined /\ calls[a] = NoCall
  /\ tool \in ToolsOf(a) /\ Prompted(a, tool)
  /\ task.status \in Allowed(tool)
  /\ calls' = [calls EXCEPT ![a] = [NoCall EXCEPT
                 !.tool = tool, !.pc = "context",
                 !.status = task.status, !.paused = task.paused]]
  /\ UNCHANGED <<task, now, files, joined, asked, asks, typed, merged, delivered, resets>>

(* A consultant works next to the Executor's lease and needs none.         *)
NeedsNoLease(a) ==
  LET c == calls[a]
  IN  \/ c.tool \in {"respond_consult", "reset"}
      \/ a = Supervisor /\ c.tool = "ask_human" /\ c.status = "consultation"
      \/ /\ a = Supervisor /\ c.tool = "wait_for_answer"
         /\ task.awaitingStatus = "consultation"

NotTheAsker(a) == calls[a].tool = "wait_for_answer"
                  /\ task.awaitingBy \notin {a, Null}


(* ensure_lease_owner_or_reclaim: claim_task looks at the lease only.      *)
Lease(a) ==
  /\ calls[a].pc = "context"
  /\ IF NotTheAsker(a)
       THEN UNCHANGED task /\ calls' = [calls EXCEPT ![a] = NoCall]
     ELSE IF NeedsNoLease(a)
       THEN UNCHANGED task /\ calls' = [calls EXCEPT ![a].pc = "work"]
     ELSE IF LeaseActive(task, now) /\ task.claimedBy # a
       THEN UNCHANGED task /\ calls' = [calls EXCEPT ![a] = NoCall]
     ELSE /\ task' = ClaimTask(task, a, now)
          /\ calls' = [calls EXCEPT ![a].pc = "work"]
  /\ UNCHANGED <<now, files, joined, asked, asks, typed, merged, delivered, resets>>

At(a, tool, pc) == calls[a].tool = tool /\ calls[a].pc = pc

Then(a, pc) == calls' = [calls EXCEPT ![a].pc = pc]
Return(a)   == calls' = [calls EXCEPT ![a] = NoCall]

(* The call ends early: a wait times out, a file cannot be written, the    *)
(* session is killed.  Nothing is undone.                                  *)
Abandon(a) ==
  /\ calls[a] # NoCall /\ Return(a)
  /\ UNCHANGED <<task, now, files, joined, asked, asks, typed, merged, delivered, resets>>

-----------------------------------------------------------------------------
(* Claims, heartbeats.                                                     *)

Claim(a, allowed, promote) ==
  /\ calls[a] = NoCall
  /\ Claimable(task, a, now, allowed) /\ ~OwnedBy(task, a, now)
  /\ task' = ClaimReady(task, a, now, promote)
  /\ joined' = joined \cup {a}
  /\ UNCHANGED <<now, files, calls, asked, asks, typed, merged, delivered, resets>>

WaitForTask(a) == a \in Executors /\ Claim(a, IsExecutorReady, TRUE)

WaitForReview(a) == a = Supervisor /\ Claim(a, {"reviewing"}, FALSE)

(* attach_running_run_to_consultation, and the request is read.            *)
WaitForConsultation(a) ==
  /\ a = Supervisor /\ calls[a] = NoCall
  /\ task.status = "consultation" /\ asked[a].request # request
  /\ joined' = joined \cup {a}
  /\ asked' = [asked EXCEPT ![a].request = request]
  /\ UNCHANGED <<task, now, files, calls, asks, typed, merged, delivered, resets>>

Heartbeat(a) ==
  /\ OwnedBy(task, a, now) /\ task.until < now + LeaseTtl
  /\ task' = RenewLease(task, now)
  /\ UNCHANGED <<now, files, calls, joined, asked, asks, typed, merged, delivered, resets>>

-----------------------------------------------------------------------------
(* check and submit.                                                       *)

CheckPasses(a) ==
  /\ At(a, "check", "work") /\ Return(a)
  /\ task' = CheckPassed(task)
  /\ UNCHANGED <<now, files, joined, asked, asks, typed, merged, delivered, resets>>

ChecksFail(a) ==
  /\ At(a, "check", "work") \/ At(a, "submit", "work")
  /\ Return(a)
  /\ task' = CheckFailed(task)
  /\ UNCHANGED <<now, files, joined, asked, asks, typed, merged, delivered, resets>>

SubmitPasses(a) ==
  /\ At(a, "submit", "work") /\ Then(a, "persist")
  /\ task' = CheckPassed(task)
  /\ UNCHANGED <<now, files, joined, asked, asks, typed, merged, delivered, resets>>

SubmitRecord(a) ==
  /\ At(a, "submit", "persist") /\ Return(a)
  /\ task' = TaskSubmitted(task, 1)
  /\ UNCHANGED <<now, files, joined, asked, asks, typed, merged, delivered, resets>>

-----------------------------------------------------------------------------
(* consult, respond_consult, wait_for_consult.                             *)

ConsultWrite(a) ==
  /\ At(a, "consult", "work") /\ Then(a, "written")
  /\ asks < MaxAsks /\ asks' = asks + 1
  /\ request' = asks' /\ asked' = [asked EXCEPT ![a].request = asks']
  /\ UNCHANGED <<task, now, joined, question, answer, response, typed, merged, delivered, resets>>

ConsultClear(a) ==
  /\ At(a, "consult", "written") /\ Then(a, "cleared")
  /\ response' = 0
  /\ UNCHANGED <<task, now, question, answer, request, joined, asked, asks, typed, merged,
                 delivered, resets>>

ConsultRecord(a) ==
  /\ At(a, "consult", "cleared") /\ Return(a)
  /\ task' = ConsultationRequested(task, calls[a].status)
  /\ UNCHANGED <<now, files, joined, asked, asks, typed, merged, delivered, resets>>

RespondConsult(a) ==
  /\ At(a, "respond_consult", "work") /\ Return(a)
  /\ response' = asked[a].request
  /\ asked' = [asked EXCEPT ![a].responded = asked[a].request]
  /\ UNCHANGED <<task, now, joined, question, answer, request, asks, typed, merged,
                 delivered, resets>>

ConsultRead(a) ==
  /\ At(a, "wait_for_consult", "work") /\ response # 0
  /\ calls' = [calls EXCEPT ![a].pc = "read", ![a].got = response]
  /\ UNCHANGED <<task, now, files, joined, asked, asks, typed, merged, delivered, resets>>

ConsultRestore(a) ==
  /\ At(a, "wait_for_consult", "read") /\ Then(a, "restored")
  /\ task' = IF task.status = "consultation" THEN ConsultationRestored(task) ELSE task
  /\ UNCHANGED <<now, files, joined, asked, asks, typed, merged, delivered, resets>>

ConsultDone(a) ==
  /\ At(a, "wait_for_consult", "restored") /\ Return(a)
  /\ response' = 0 /\ request' = 0
  /\ delivered' = delivered \cup {<<asked[a].request, calls[a].got>>}
  /\ UNCHANGED <<task, now, question, answer, joined, asked, asks, typed, merged, resets>>

-----------------------------------------------------------------------------
(* ask_human, wait_for_answer, and the human.                              *)

AskWrite(a) ==
  /\ At(a, "ask_human", "work") /\ Then(a, "written")
  /\ asks < MaxAsks /\ asks' = asks + 1
  /\ question' = asks' /\ asked' = [asked EXCEPT ![a].question = asks']
  /\ UNCHANGED <<task, now, joined, answer, request, response, typed, merged, delivered, resets>>

MutAskClear(a) ==
  /\ At(a, "ask_human", "written") /\ Then(a, "cleared")
  /\ UNCHANGED <<task, now, files, joined, asked, asks, typed, merged, delivered, resets>>

AskClear(a) ==
  /\ At(a, "ask_human", "written") /\ Then(a, "cleared")
  /\ answer' = 0
  /\ UNCHANGED <<task, now, question, request, response, joined, asked, asks, typed, merged,
                 delivered, resets>>

MutAskRecord(a) ==
  /\ At(a, "ask_human", "cleared") /\ Return(a)
  /\ task' = HumanQuestionRequested(task, calls[a].status, calls[a].status, a)
  /\ UNCHANGED <<now, files, joined, asked, asks, typed, merged, delivered, resets>>

(* human_pause_context: a question during a consultation keeps the status  *)
(* the consultation had paused.                                            *)
AskRecord(a) ==
  /\ At(a, "ask_human", "cleared") /\ Return(a)
  /\ LET c == calls[a]
     IN  task' = HumanQuestionRequested(task, c.status,
                   IF c.status = "consultation" THEN c.paused ELSE c.status, a)
  /\ UNCHANGED <<now, files, joined, asked, asks, typed, merged, delivered, resets>>

(* record_scoped_human_answer, from HQ's prompt or the answer tool: the    *)
(* flag, then the file.                                                    *)
AnswerRecord ==
  /\ task.status = "awaiting_human" /\ ~task.answered /\ typed = 0
  /\ task' = [task EXCEPT !.answered = TRUE]
  /\ typed' = question
  /\ UNCHANGED <<now, files, calls, joined, asked, asks, merged, delivered, resets>>

AnswerWrite ==
  /\ typed # 0 /\ answer' = typed /\ typed' = 0
  /\ UNCHANGED <<task, now, question, request, response, calls, joined, asked, asks, merged,
                 delivered, resets>>

(* The file cannot be written: clear_task_human_answer_recorded.           *)
AnswerFails ==
  /\ typed # 0 /\ typed' = 0
  /\ task' = IF task.status = "awaiting_human"
               THEN [task EXCEPT !.answered = FALSE] ELSE task
  /\ UNCHANGED <<now, files, calls, joined, asked, asks, merged, delivered, resets>>

AnswerRead(a) ==
  /\ At(a, "wait_for_answer", "work") /\ answer # 0
  /\ calls' = [calls EXCEPT ![a].pc = "read", ![a].got = answer]
  /\ UNCHANGED <<task, now, files, joined, asked, asks, typed, merged, delivered, resets>>

AnswerRestore(a) ==
  /\ At(a, "wait_for_answer", "read") /\ Then(a, "restored")
  /\ task' = IF task.status = "awaiting_human" THEN HumanRestored(task) ELSE task
  /\ UNCHANGED <<now, files, joined, asked, asks, typed, merged, delivered, resets>>

AnswerDone(a) ==
  /\ At(a, "wait_for_answer", "restored") /\ Return(a)
  /\ answer' = 0 /\ question' = 0
  /\ delivered' = delivered \cup {<<asked[a].question, calls[a].got>>}
  /\ UNCHANGED <<task, now, joined, request, response, asked, asks, typed, merged, resets>>

-----------------------------------------------------------------------------
(* approve and reject.                                                     *)

(* The three-way merge of what is already there changes nothing.           *)
ApproveApply(a) ==
  /\ At(a, "approve", "work")
  /\ calls' = [calls EXCEPT ![a].pc = "applied", ![a].before = merged]
  /\ merged' = TRUE
  /\ UNCHANGED <<task, now, files, joined, asked, asks, typed, delivered, resets>>

(* A conflict, failed checks, or a status that cannot be written.          *)
ApproveRollback(a) ==
  /\ At(a, "approve", "applied") /\ Return(a)
  /\ merged' = calls[a].before
  /\ UNCHANGED <<task, now, files, joined, asked, asks, typed, delivered, resets>>

MutApproveRecord(a) ==
  /\ At(a, "approve", "work") /\ Return(a)
  /\ task' = RecordTaskStatus(task, "complete")
  /\ UNCHANGED <<now, files, joined, asked, asks, typed, merged, delivered, resets>>

ApproveRecord(a) ==
  /\ At(a, "approve", "applied") /\ Return(a)
  /\ task' = RecordTaskStatus(task, "complete")
  /\ UNCHANGED <<now, files, joined, asked, asks, typed, merged, delivered, resets>>

RejectRecord(a) ==
  /\ At(a, "reject", "work") /\ Return(a)
  /\ task' = ReviewRejected(task)
  /\ UNCHANGED <<now, files, joined, asked, asks, typed, merged, delivered, resets>>

(* The session ends, its run is recorded as finished, and a later session  *)
(* under the same agent id reads again what it has to answer.              *)
SessionEnds(a) ==
  /\ a \in joined /\ calls[a] = NoCall
  /\ joined' = joined \ {a}
  /\ asked' = IF a = Supervisor /\ asked[a].request # asked[a].responded
                THEN [asked EXCEPT ![a].request = asked[a].responded] ELSE asked
  /\ UNCHANGED <<task, now, files, calls, asks, typed, merged, delivered, resets>>

(* The tool reset, and HQ's /reset for a session HQ has no handle of.      *)
ResetRecord(a) ==
  /\ At(a, "reset", "work") /\ Return(a)
  /\ resets < MaxResets /\ resets' = resets + 1
  /\ task' = RecordTaskStatus(task, "reset")
  /\ UNCHANGED <<now, files, joined, asked, asks, typed, merged, delivered>>

HqReset ==
  /\ resets < MaxResets /\ resets' = resets + 1
  /\ task.status \in IsResettable
  /\ task' = RecordTaskStatus(task, "reset")
  /\ question' = 0 /\ answer' = 0 /\ request' = 0 /\ response' = 0
  /\ UNCHANGED <<now, calls, joined, asked, asks, typed, merged, delivered>>

(* Time.  Without SlowCalls a call that took the lease ends before it.     *)
Tick ==
  /\ now < MaxTime /\ now' = now + 1
  /\ \/ SlowCalls
     \/ \A a \in Agents : calls[a] # NoCall /\ OwnedBy(task, a, now)
                            => OwnedBy(task, a, now')
  /\ UNCHANGED <<task, files, calls, joined, asked, asks, typed, merged, delivered, resets>>

Step(a) ==
  \/ \E tool \in ToolsOf(a) : Begin(a, tool)
  \/ Lease(a) \/ Abandon(a) \/ Heartbeat(a) \/ SessionEnds(a)
  \/ WaitForTask(a) \/ WaitForReview(a) \/ WaitForConsultation(a)
  \/ CheckPasses(a) \/ ChecksFail(a) \/ SubmitPasses(a) \/ SubmitRecord(a)
  \/ ConsultWrite(a) \/ ConsultClear(a) \/ ConsultRecord(a)
  \/ RespondConsult(a) \/ ConsultRead(a) \/ ConsultRestore(a) \/ ConsultDone(a)
  \/ AskWrite(a) \/ AskClear(a) \/ AskRecord(a)
  \/ AnswerRead(a) \/ AnswerRestore(a) \/ AnswerDone(a)
  \/ ApproveApply(a) \/ ApproveRollback(a) \/ ApproveRecord(a)
  \/ RejectRecord(a) \/ ResetRecord(a)

Next == AnswerRecord \/ AnswerWrite \/ AnswerFails \/ HqReset \/ Tick \/ \E a \in Agents : Step(a)

Spec == Init /\ [][Next]_vars

-----------------------------------------------------------------------------
(* Properties.                                                             *)

Lifecycle == INSTANCE TaskLifecycle WITH status <- task.status,
                                         paused <- PausedStack(task)


(* An agent that waits gets the answer to the question it asked last,      *)
(* never one left over (ask_human and consult clear the old answer before  *)
(* the status changes).                                                    *)
AnswersMatch == \A d \in delivered : d[1] = d[2]

(* A task is Complete only with its patch in the canonical checkout        *)
(* (integrate_approved_task).                                              *)
CompleteMeansIntegrated == task.status = "complete" => merged

(* "Cannot modify task: lease is held by {claimed_by}, not {agent_id}"     *)
(* (server/tools/mod.rs): no call writes the row while another agent holds *)
(* the lease; a consultant's own questions excepted.  A call that a reset   *)
(* overtakes has lost its lease and is not held to it.                     *)
WriteHoldsLease ==
  \A a \in Agents :
    /\ resets = 0
    /\ calls[a].pc \in {"work", "persist", "cleared", "read", "applied"}
    /\ calls[a].tool \notin {"respond_consult", "reset"}
    /\ a = Supervisor => calls[a].tool \in {"approve", "reject"}
    /\ calls[a]' # calls[a] /\ task'.status # task.status
    => ~LeaseActive(task, now) \/ task.claimedBy = a

WritesHoldLease == [][WriteHoldsLease]_vars
=============================================================================
