---------------------------- MODULE NanoSession -----------------------------
(* Managed Nano Executor sessions of one task: the turn loop of the engine, *)
(* its journal, crashes at any point, and the recovery that precedes the    *)
(* next session of the task.                                                *)
(*                                                                          *)
(* eng is the process (stage: where its control is); disk what the journal  *)
(* of the latest run with records replays to; world how far the tool call   *)
(* in progress has got.  A call stands for a name with its arguments.       *)
(* Estimates are exact (see NanoReplay), byte limits are never met.         *)
EXTENDS NanoReplay

CONSTANTS
    Scenarios     \* what the environment may do: the number of runs, faults, inputs
                  \* and rejections, the calls of a response (menu) and how it ends
                  \* (finish), by how much usage may exceed a reservation (over), and
                  \* whether the provider reports errors

VARIABLES
    eng, disk, world,
    phase,        \* the task: status, and the first/inferences of its work phase
    env           \* what is left of the bounds, and the repertoire of the model

vars == <<eng, disk, world, phase, env>>

NoEngine ==
    [stage |-> "none", halt |-> "none", msgs |-> <<>>, bud |-> NoBudget,
     cut |-> 0, steer |-> 0, inter |-> FALSE,
     proj |-> FALSE, in |-> 0, out |-> 0, plan |-> NoPlan, within |-> TRUE,
     calls |-> <<>>, prev |-> "none", outcome |-> "none", stop |-> "none",
     terminal |-> "none", retry |-> FALSE, reason |-> "none"]

Init ==
    /\ eng = NoEngine /\ disk = NoJournal /\ world = "none"
    /\ phase = [status |-> "working", first |-> TRUE, inferences |-> 0]
    /\ env \in Scenarios

Running == eng.stage \notin {"none", "exited"}

(***************************************************************************)
(* Control of the engine.                                                  *)
(***************************************************************************)
To(stage) == [eng EXCEPT !.stage = stage]

Timed(b) == [b EXCEPT !.late = IF eng.halt = "elapsed" THEN 1 ELSE @]

(* The main loop is left with a reason; clean-up follows.                  *)
End(e, reason) ==
    [NoEngine EXCEPT !.stage = "ending", !.reason = reason, !.msgs = e.msgs, !.bud = Timed(e.bud),
                     !.cut = e.cut, !.steer = e.steer, !.inter = e.inter, !.retry = e.retry,
                     !.terminal = e.terminal]

Exit(reason) == [NoEngine EXCEPT !.stage = "exited", !.reason = reason]

(* The cancellation or deadline in force; an await prefers it to a result. *)
Interrupted == eng.halt

StopReason(b) ==
    IF Interrupted /= "none" THEN Interrupted
    ELSE IF Tokens(b) >= MaxTokens THEN "tokens"
    ELSE IF b.idle >= MaxIdle THEN "no_progress" ELSE "none"

(* Go on with e unless the session has to stop.                            *)
Unless(reason, e) == IF reason /= "none" THEN End(e, reason) ELSE e

Quiet == UNCHANGED <<world, phase>>
Silent == Quiet /\ UNCHANGED <<disk, env>>

(* Append a record and continue as e.  A failed write may or may not have  *)
(* left the record in the file; the writer refuses everything after it.    *)
Write(r, e, left) ==
    IF ~r.ok THEN eng' = Exit("rejected") /\ UNCHANGED <<disk, env>>
    ELSE \/ disk' = r.next /\ eng' = e /\ env' = left
         \/ /\ env.faults > 0 /\ env' = [left EXCEPT !.faults = @ - 1]
            /\ disk' \in {disk, r.next} /\ eng' = Exit("journal_failed")

Commit(r, e) == Write(r, e, env)

(* An append followed by the checkpoint that ends a group.                 *)
Grouped(r) == [r EXCEPT !.ok = @ /\ CheckpointReady(r.next)]

(***************************************************************************)
(* Recovery of the previous run.                                           *)
(***************************************************************************)
Launch ==
    /\ ~Running /\ env.runs > 0 /\ phase.status = "working"
    /\ eng' = [NoEngine EXCEPT !.stage = "recover"]
    /\ env' = [env EXCEPT !.runs = @ - 1]
    /\ UNCHANGED <<disk, world, phase>>

(* The submitted event of the previous run is in SQLite.                   *)
SubmitCommitted == disk.name = "submit" /\ world = "done"

(* Mutant: a patch that is not complete is taken for one that never ran.   *)
MutPendingOutcome ==
    CASE ~disk.started \/ disk.name = "read" -> "failed"
      [] disk.name = "patch" -> IF world = "done" THEN "success" ELSE "failed"
      [] disk.name = "submit" /\ SubmitCommitted -> "success"
      [] OTHER -> "unknown"

(* Outcome of a call without a result, from what can be observed now.      *)
PendingOutcome ==
    CASE ~disk.started -> "failed"
      [] disk.name = "read" -> "failed"
      [] disk.name = "patch" ->
            (CASE world = "done" -> "success" [] world = "none" -> "failed" [] OTHER -> "unknown")
      [] disk.name = "submit" /\ SubmitCommitted -> "success"
      [] OTHER -> "unknown"

ReconcilePending ==
    /\ eng.stage = "recover"
    /\ \/ ~disk.begun /\ eng' = To("start") /\ UNCHANGED <<disk, env>>
       \/ disk.begun /\ disk.pending = 0 /\ eng' = To("seal") /\ UNCHANGED <<disk, env>>
       \/ /\ disk.pending /= 0
          /\ Commit(ToolResult(disk, disk.bud, disk.pending, PendingOutcome),
                    [To("seal") EXCEPT
                        !.outcome = IF disk.name = "submit" THEN PendingOutcome ELSE "none"])
    /\ Quiet

SealReason == IF eng.outcome = "success" THEN "submitted" ELSE "elapsed"

Seal ==
    /\ eng.stage = "seal"
    /\ \/ disk.end /= "none" /\ eng' = To("verify") /\ UNCHANGED <<disk, env>>
       \/ /\ disk.end = "none"
          /\ Commit(Ended(disk, [disk.bud EXCEPT !.late = 1], SealReason), To("verify"))
    /\ Quiet

(* Mutant: only the end reason of the previous run is looked at.           *)
MutVerify ==
    /\ eng.stage = "verify"
    /\ LET fails == disk.end = "effect_unknown" \/ ManagedFailure(disk.end, disk.retry)
           first == [NoEngine EXCEPT !.stage = "start"]
       IN  /\ phase' = IF fails THEN [phase EXCEPT !.status = "failed"] ELSE phase
           /\ eng' = IF fails THEN Exit("failed")
                     ELSE [first EXCEPT !.bud = IF disk.end = "submitted" THEN NoBudget
                                                ELSE Inherited(disk.bud)]
    /\ UNCHANGED <<disk, world, env>>

(* What fails the task; else what the new run inherits.                    *)
Verify ==
    /\ eng.stage = "verify"
    /\ LET fails == \/ disk.unknown \/ disk.end = "effect_unknown"
                    \/ ManagedFailure(disk.end, disk.retry)
           fresh == disk.end = "submitted"
           first == [NoEngine EXCEPT !.stage = "start"]
       IN  /\ phase' = IF fails THEN [phase EXCEPT !.status = "failed"] ELSE phase
           /\ eng' = IF fails THEN Exit("failed")
                     ELSE IF ~fresh THEN [first EXCEPT !.bud = Inherited(disk.bud)]
                     ELSE IF SubmitCommitted THEN first ELSE Exit("no_handoff")
    /\ UNCHANGED <<disk, world, env>>

(***************************************************************************)
(* Start and turn boundary.                                                *)
(***************************************************************************)
Start ==
    /\ eng.stage = "start"
    /\ LET r == Started(eng.bud)
       IN  /\ Commit(r, [To("top") EXCEPT !.msgs = r.next.msgs])
           /\ world' = IF disk' = r.next THEN "none" ELSE world
           /\ phase' = IF disk' = r.next THEN [phase EXCEPT !.first = FALSE] ELSE phase

Turn ==
    /\ eng.stage = "top"
    /\ eng' = Unless(StopReason(eng.bud), Unless(NextTurnLimit(eng.bud), To("drain")))
    /\ Silent

(* Commands are taken at a turn boundary, after a final response and while *)
(* waiting.  Steering opens the interaction if need be.                    *)
AcceptsInput == eng.stage \in {"drain", "final", "waiting"}
Listening == eng.stage = "waiting" => Interrupted = "none"

(* Mutant: the process forgets that the session is interactive now.        *)
MutInteract ==
    /\ AcceptsInput /\ Listening /\ env.inputs > 0 /\ ~eng.inter
    /\ Commit(InteractionOpened(disk, Timed(eng.bud)), [eng EXCEPT !.bud = Timed(@)])
    /\ Quiet

Interact ==
    /\ AcceptsInput /\ Listening /\ env.inputs > 0 /\ ~eng.inter
    /\ LET b == Timed(eng.bud)
       IN  Commit(InteractionOpened(disk, b), [eng EXCEPT !.bud = b, !.inter = TRUE])
    /\ Quiet

Steer ==
    /\ AcceptsInput /\ Listening /\ env.inputs > 0 /\ eng.inter
    /\ LET limit == InputCapacity(eng.msgs, eng.cut, eng.bud)
           b == [Timed(eng.bud) EXCEPT !.idle = 0]
           left == [env EXCEPT !.inputs = @ - 1]
           next == IF eng.stage = "waiting" THEN "top" ELSE eng.stage
       IN  \/ limit /= "none" /\ eng' = End(eng, limit) /\ disk' = disk /\ env' = left
           \/ /\ limit = "none"
              /\ Write(Grouped(UserInput(disk, b)),
                       [To(next) EXCEPT !.bud = b, !.prev = "none",
                                        !.steer = Len(eng.msgs), !.msgs = Append(@, User)],
                       left)
    /\ Quiet

(* A command to cancel, a closed channel while waiting, or a steering text *)
(* that is not acceptable.                                                 *)
RefuseInput ==
    /\ AcceptsInput /\ Listening
    /\ \/ eng' = End(eng, "cancelled")
       \/ env.inputs > 0 /\ eng.inter /\ eng' = End(eng, "provider_protocol")
    /\ Silent

Drained == eng.stage = "drain" /\ eng' = To("prepare") /\ Silent

(* The tools may rewrite observations, which is journalled before use.     *)
Prepare ==
    /\ eng.stage = "prepare" /\ Quiet
    /\ IF Interrupted /= "none" THEN eng' = End(eng, Interrupted) /\ UNCHANGED <<disk, env>>
       ELSE IF OutputReservation(Remaining(eng.bud)) = 0
            THEN eng' = End(eng, "tokens") /\ UNCHANGED <<disk, env>>
            ELSE \/ eng' = To("admit") /\ UNCHANGED <<disk, env>>
                 \/ Commit(ContextPrepared(disk, eng.bud, eng.cut), To("admit"))

PrepareFails ==
    /\ eng.stage = "prepare" /\ Interrupted = "none"
    /\ \E reason \in {"authority_lost", "context"} : eng' = End(eng, reason)
    /\ Silent

(***************************************************************************)
(* Admission and compaction.                                               *)
(***************************************************************************)
(* The whole conversation, then without large outputs, then a summary.     *)
AdmitRequest ==
    /\ eng.stage = "admit"
    /\ \E out \in {OutputReservation(Remaining(eng.bud))},
          whole \in {Projected(eng.msgs, eng.cut, {})}, lean \in {AfterCut(eng.msgs, eng.cut)} :
         LET granted(in) == Admit(in, out, Remaining(eng.bud))
             fits(in, projected) ==
                 Unless(StopReason(eng.bud), [To("compose") EXCEPT
                     !.in = in, !.out = granted(in), !.proj = projected])
         IN  IF granted(whole) > 0 THEN eng' = fits(whole, eng.cut > 0)
             ELSE IF granted(lean) > 0 THEN eng' = fits(lean, TRUE)
             ELSE \E plan \in {Plan(eng.msgs, eng.cut, eng.steer, eng.bud, out)} :
                     eng' = Unless(plan.limit, [To("compact") EXCEPT !.plan = plan, !.out = out])
    /\ Silent

ComposeSummary ==
    /\ eng.stage = "compact"
    /\ LET b == Timed(eng.bud)
       IN  Commit(ContextComposed(disk, b, Len(eng.msgs), eng.plan.in, eng.plan.out),
                  [To("summarize") EXCEPT !.bud = b])
    /\ Quiet

Reserve(in, out) == [Timed(eng.bud) EXCEPT !.turns = @ + 1, !.rin = in, !.rout = out]

(* The request reaches the provider once its record is durable.            *)
Inference(stage) ==
    phase' = IF eng'.stage = stage THEN [phase EXCEPT !.inferences = @ + 1] ELSE phase

StartSummary ==
    /\ eng.stage = "summarize"
    /\ LET b == Reserve(eng.plan.in, eng.plan.out)
       IN  Commit(CompactionStarted(disk, b, eng.plan.cut), [To("summary") EXCEPT !.bud = b])
    /\ Inference("summary")
    /\ UNCHANGED <<world>>

(* A failed request is charged with its reservation.                       *)
Fail(retryable, retries, e) ==
    LET use == eng.bud.rin + eng.bud.rout
        b == [Charge(Timed(eng.bud), use) EXCEPT !.retries = @ + retries]
    IN  Commit(ModelFailed(disk, b, use, retryable), [e EXCEPT !.bud = b, !.retry = retryable])

Awaiting(stages) == eng.stage \in stages /\ Interrupted = "none"

(* Mutant: the deadline does not reach a provider that hangs.              *)
MutInterruptInference ==
    /\ eng.stage \in {"summary", "model"} /\ Interrupted = "cancelled"
    /\ Fail(FALSE, 0, End(eng, Interrupted))
    /\ Quiet

InterruptInference ==
    /\ eng.stage \in {"summary", "model"} /\ Interrupted /= "none"
    /\ Fail(FALSE, 0, End(eng, Interrupted))
    /\ Quiet

(* Reported usage, or an estimate from the size of the response.           *)
Usage == {eng.bud.rin + eng.bud.rout + over : over \in env.over}

SummaryArrives ==
    /\ Awaiting({"summary"})
    /\ \E use \in Usage :
         LET b == Charge(eng.bud, use)
         IN  Commit(Grouped(CompactionCompleted(disk, b, use, eng.plan.cut)),
                    [To("readmit") EXCEPT !.bud = b, !.cut = eng.plan.cut, !.retry = FALSE,
                                          !.within = use <= eng.plan.in + eng.plan.out])
    /\ Quiet

(* No retry here: errors, and responses other than a short text.           *)
SummaryFails ==
    /\ Awaiting({"summary"}) /\ env.errors
    /\ \/ \E retryable \in BOOLEAN : Fail(retryable, 0, End(eng, "provider_failed"))
       \/ \E reason \in {"provider_protocol", "context"} : Fail(FALSE, 0, End(eng, reason))
    /\ Quiet

Readmission ==
    LET remaining == Remaining(eng.bud)
    IN  Admit(AfterCut(eng.msgs, eng.cut), Min({eng.out, remaining \div 2}), remaining)

Readmit ==
    /\ eng.stage = "readmit"
    /\ LET in == AfterCut(eng.msgs, eng.cut)
           done == [eng EXCEPT !.plan = NoPlan, !.within = TRUE]
       IN  eng' = IF Readmission = 0
                  THEN End(done, IF Remaining(eng.bud) < 2 THEN "tokens"
                                 ELSE Refusal(in, Remaining(eng.bud)))
                  ELSE Unless(StopReason(eng.bud),
                              [done EXCEPT !.stage = "compose", !.in = in, !.out = Readmission,
                                           !.proj = TRUE])
    /\ Silent

(***************************************************************************)
(* Inference.                                                              *)
(***************************************************************************)
Compose ==
    /\ eng.stage \in {"compose", "composed"}
    /\ LET b == Timed(eng.bud)
       IN  IF eng.stage = "compose" /\ eng.proj
           THEN Commit(ContextPrepared(disk, b, eng.cut),
                       [To("composed") EXCEPT !.bud = b, !.proj = FALSE])
           ELSE Commit(ContextComposed(disk, b, Len(eng.msgs), eng.in, eng.out),
                       [To("infer") EXCEPT !.bud = b])
    /\ Quiet

StartModel ==
    /\ eng.stage = "infer"
    /\ LET b == Reserve(eng.in, eng.out)
       IN  Commit(ModelStarted(disk, b), [To("model") EXCEPT !.bud = b, !.in = 0, !.out = 0])
    /\ Inference("model")
    /\ UNCHANGED <<world>>

ModelFails ==
    /\ Awaiting({"model"}) /\ env.errors
    /\ \/ /\ eng.bud.retries < MaxRetries
          /\ Fail(TRUE, 1, To("backoff"))
       \/ eng.bud.retries >= MaxRetries /\ Fail(TRUE, 0, End(eng, "retries"))
       \/ \E reason \in {"provider_failed", "provider_protocol", "context"} :
             Fail(FALSE, 0, End(eng, reason))
    /\ Quiet

Backoff ==
    /\ eng.stage = "backoff"
    /\ eng' = Unless(Interrupted, To("top"))
    /\ Silent

(* finish: "final" is a text, "empty" neither text nor calls, "mismatch" a *)
(* response whose finish reason contradicts its calls.                     *)
ModelReplies(finish, calls, use) ==
    /\ Awaiting({"model"})
    /\ LET b == [Charge(eng.bud, use) EXCEPT
                    !.idle = IF finish \in {"length", "empty"} THEN @ + 1 ELSE @]
           r == ModelCompleted(disk, b, use, finish, calls)
           got == [eng EXCEPT !.bud = b, !.retry = FALSE, !.msgs = r.next.msgs]
           then(stage) == [got EXCEPT !.stage = stage]
       IN  CASE finish = "length" -> Commit(Grouped(r), then("top"))
             [] finish = "mismatch" -> Commit(r, End([got EXCEPT !.msgs = eng.msgs], "provider_protocol"))
             [] finish = "final" /\ StopReason(b) = "none" -> Commit(Grouped(r), then("final"))
             [] OTHER -> Commit(r, Unless(StopReason(b), [then("calls") EXCEPT !.calls = calls]))
    /\ Quiet

ModelArrives ==
    \E use \in Usage, finish \in env.finish :
        \E calls \in IF finish \in {"final", "empty"} THEN {<<>>} ELSE env.menu :
            ModelReplies(finish, calls, use)

(* Nothing more was queued: input taken here starts a turn, an interactive *)
(* session waits, any other is finished.                                   *)
Finished ==
    /\ eng.stage = "final"
    /\ \E limit \in {InputCapacity(eng.msgs, eng.cut, eng.bud)} :
         LET b == Timed(eng.bud)
         IN  IF eng.inter /\ eng.msgs[Len(eng.msgs)] /= User /\ limit = "none"
             THEN Commit(InputRequested(disk, b), [To("waiting") EXCEPT !.bud = b])
             ELSE /\ eng' = IF eng.msgs[Len(eng.msgs)] = User THEN To("top")
                            ELSE End(eng, IF eng.inter THEN limit ELSE "model_finished")
                  /\ UNCHANGED <<disk, env>>
    /\ Quiet

StopWaiting ==
    /\ eng.stage = "waiting" /\ Interrupted /= "none"
    /\ eng' = End(eng, Interrupted)
    /\ Silent

(***************************************************************************)
(* Tool calls.  read has no effect; patch may be applied in part; exec     *)
(* starts a command; submit commits a transaction; bogus does not validate.*)
(***************************************************************************)
NextCall ==
    /\ eng.stage = "calls"
    /\ LET b == [Timed(eng.bud) EXCEPT !.calls = @ + 1]
           name == Head(eng.calls)
       IN  CASE eng.calls = <<>> ->
                    /\ eng' = IF CheckpointReady(disk) THEN To("top") ELSE Exit("rejected")
                    /\ UNCHANGED <<disk, world, env>>
             [] eng.calls /= <<>> /\ StopReason(eng.bud) /= "none" ->
                    eng' = End(eng, StopReason(eng.bud)) /\ UNCHANGED <<disk, world, env>>
             [] eng.calls /= <<>> /\ StopReason(eng.bud) = "none" /\ eng.bud.calls >= MaxCalls ->
                    eng' = End(eng, "calls") /\ UNCHANGED <<disk, world, env>>
             [] OTHER ->
                    /\ Commit(ToolIntent(disk, b, name),
                              IF name = "bogus"
                              THEN [To("result") EXCEPT !.bud = b, !.outcome = "failed"]
                              ELSE [To("authorize") EXCEPT !.bud = b])
                    /\ world' = IF disk' /= disk THEN "none" ELSE world
    /\ UNCHANGED <<phase>>

Authorize ==
    /\ eng.stage = "authorize"
    /\ IF Interrupted /= "none"
       THEN /\ eng' = [To("result") EXCEPT !.outcome = "failed", !.stop = Interrupted]
            /\ UNCHANGED <<disk, env>>
       ELSE \/ eng' = [To("result") EXCEPT !.outcome = "failed"] /\ UNCHANGED <<disk, env>>
            \/ Commit(ToolStarted(disk, eng.bud, eng.bud.calls), To("execute"))
    /\ Quiet

(* The effect of the call.  A submission that fails its checks too often   *)
(* fails the task.                                                         *)
Effect ==
    /\ eng.stage = "execute" /\ eng.terminal = "none"
    /\ \/ /\ disk.name = "patch" /\ world \in {"none", "partial"}
          /\ world' \in {"partial", "done"} \ {world} /\ UNCHANGED <<eng, phase>>
       \/ /\ disk.name = "exec" /\ world = "none" /\ world' = "done" /\ UNCHANGED <<eng, phase>>
       \/ /\ disk.name = "submit" /\ world = "none" /\ Interrupted /= "cancelled"
          /\ \/ /\ world' = "done" /\ phase' = [phase EXCEPT !.status = "reviewing"]
                /\ eng' = [eng EXCEPT !.terminal = "submitted"]
             \/ /\ world' = "none" /\ phase' = [phase EXCEPT !.status = "failed"]
                /\ eng' = [eng EXCEPT !.terminal = "task_failed"]
    /\ UNCHANGED <<disk, env>>

(* What the tool answers, given how far it got.  "unpassed" is a regular   *)
(* answer of submit: the checks did not pass.                              *)
Answers ==
    CASE disk.name = "read" -> {"success", "failed"}
      [] disk.name = "submit" /\ world = "none" ->
            IF eng.terminal = "none" THEN {"unpassed", "failed", "unknown"} ELSE {"unpassed"}
      [] world = "done" -> {"success"}
      [] world = "partial" -> {"unknown"}
      [] OTHER -> {"failed"}

Answer ==
    /\ Awaiting({"execute"})
    /\ \E outcome \in Answers : eng' = [To("result") EXCEPT !.outcome = outcome]
    /\ Silent

(* A lifecycle call is joined; any other is dropped where it is.           *)
InterruptCall ==
    /\ eng.stage = "execute" /\ Interrupted /= "none"
    /\ LET joined == disk.name = "submit" /\ eng.terminal /= "none"
           outcome == IF ~joined THEN "unknown"
                      ELSE IF world = "done" THEN "success" ELSE "unpassed"
       IN  eng' = [To("result") EXCEPT !.outcome = outcome, !.stop = Interrupted]
    /\ Silent

RecordResult ==
    /\ eng.stage = "result"
    /\ LET name == Head(eng.calls)
           progress == eng.outcome \in {"success", "unpassed"} /\ name /= eng.prev
           b == [Timed(eng.bud) EXCEPT !.idle = IF progress THEN 0 ELSE @ + 1]
           got == [To("calls") EXCEPT
                     !.bud = b, !.prev = IF name = "bogus" THEN "none" ELSE name,
                     !.msgs = Append(@, Result(name, eng.outcome)), !.calls = Tail(@),
                     !.outcome = "none", !.stop = "none"]
           reason == IF eng.terminal /= "none" THEN eng.terminal
                     ELSE IF eng.stop /= "none" THEN eng.stop
                     ELSE IF eng.outcome = "unknown" THEN "effect_unknown" ELSE "none"
       IN  Commit(ToolResult(disk, b, b.calls, eng.outcome), Unless(reason, got))
    /\ Quiet

(***************************************************************************)
(* End of a session.                                                       *)
(***************************************************************************)
(* Stop owned effects; what the tools know of the task replaces the reason.*)
Shutdown ==
    /\ eng.stage = "ending"
    /\ \E reason \in {"effect_unknown"} \cup
            (IF eng.terminal /= "none" THEN {eng.terminal} ELSE {eng.reason, "authority_lost"}) :
         eng' = [To("end") EXCEPT !.reason = reason]
    /\ Silent

EndSession ==
    /\ eng.stage = "end"
    /\ LET b == Timed(eng.bud)
       IN  Commit(Ended(disk, b, eng.reason), [To("settle") EXCEPT !.bud = b])
    /\ Quiet

Settle ==
    /\ eng.stage = "settle"
    /\ phase' = IF ManagedFailure(eng.reason, eng.retry) /\ phase.status = "working"
                THEN [phase EXCEPT !.status = "failed"] ELSE phase
    /\ eng' = Exit(eng.reason)
    /\ UNCHANGED <<disk, world, env>>

(***************************************************************************)
(* Environment.                                                            *)
(***************************************************************************)
(* The process dies, perhaps in the middle of a write: recovery drops an   *)
(* unterminated last record.                                               *)
Crash ==
    /\ Running /\ env.faults > 0
    /\ eng' = Exit("crashed") /\ env' = [env EXCEPT !.faults = @ - 1]
    /\ UNCHANGED <<disk, world, phase>>

(* Cancellation or the deadline.  It is set where the engine next looks;   *)
(* nothing else depends on when it came.                                   *)
Observes ==
    eng.stage \in {"top", "prepare", "admit", "readmit", "summary", "model", "backoff",
                   "calls", "authorize", "execute", "waiting"}

Halt(why) ==
    /\ Observes /\ eng.halt = "none" /\ eng' = [eng EXCEPT !.halt = why]
    /\ UNCHANGED <<disk, world, phase, env>>

Cancel == Halt("cancelled")
Deadline == Halt("elapsed")

(* The Supervisor rejects the submission: Addressing, a new work phase.    *)
Reject ==
    /\ ~Running /\ phase.status = "reviewing" /\ env.rejects > 0
    /\ phase' = [status |-> "working", first |-> TRUE, inferences |-> 0]
    /\ env' = [env EXCEPT !.rejects = @ - 1]
    /\ UNCHANGED <<eng, disk, world>>

Engine ==
    \/ ReconcilePending \/ Seal \/ Verify \/ Start \/ Turn \/ Drained \/ Prepare \/ AdmitRequest
    \/ ComposeSummary \/ StartSummary \/ Readmit \/ Compose \/ StartModel \/ InterruptInference
    \/ Backoff \/ Finished \/ StopWaiting \/ NextCall \/ Authorize \/ InterruptCall
    \/ RecordResult \/ Shutdown \/ EndSession \/ Settle

Next ==
    \/ Launch \/ Engine \/ Interact \/ Steer \/ RefuseInput \/ PrepareFails
    \/ SummaryArrives \/ SummaryFails \/ ModelArrives \/ ModelFails \/ Effect \/ Answer
    \/ Crash \/ Cancel \/ Deadline \/ Reject

Spec == Init /\ [][Next]_vars

(* The runtime polls the engine and its timers; a provider, a tool or a    *)
(* user need never answer.                                                 *)
FairSpec == Spec /\ WF_vars(Engine) /\ WF_vars(Deadline)

-----------------------------------------------------------------------------
(* No record that the engine or a recovery appends is refused by the       *)
(* journal, and every checkpoint falls between groups: Replay::apply is a   *)
(* check of the engine, never a reason for it to stop.                     *)
JournalAccepts == eng.reason /= "rejected"

(* Between groups the conversation, summary, steering, mode and budget of  *)
(* the process are what its journal replays to, so nothing is lost or      *)
(* invented when the process is replaced.                                  *)
EngineMatchesJournal ==
    eng.stage \in {"top", "drain", "prepare", "admit", "compact", "readmit", "compose", "infer",
                   "model", "backoff", "final", "waiting"} =>
        /\ eng.msgs = disk.msgs /\ eng.cut = disk.cut /\ eng.bud = disk.bud
        /\ eng.steer = disk.steer /\ eng.inter = disk.inter

(* A recorded outcome is true of the workspace and of SQLite: success only *)
(* after the whole effect, failure only without any, whether the engine or *)
(* a later recovery wrote it.                                              *)
OutcomesTrue ==
    LET last == disk.msgs[Len(disk.msgs)]
    IN  (disk.begun /\ disk.pending = 0 /\ last.role = "tool") =>
            /\ last.out = "success" /\ disk.name /= "read" => world = "done"
            /\ last.out \in {"failed", "unpassed"} => world = "none"

(* The inferences of a work phase never exceed the turn limit, however     *)
(* often its session crashes and is started again.                         *)
PhaseBudget == phase.inferences <= MaxTurns

(* A summary that stays within its reservation is worth its cost: there is *)
(* a turn and room for the request it was made for.                        *)
CompactionPaysOff ==
    (eng.stage = "readmit" /\ eng.within) => Readmission > 0 /\ eng.bud.turns < MaxTurns

(* A new run starts only after one whose effects are settled and whose     *)
(* stop another process can get past.                                      *)
RunStarts ==
    (disk.begun /\ eng.stage = "start" /\ disk' /= disk) =>
        /\ disk.pending = 0 /\ ~disk.unknown /\ world /= "partial"
        /\ ~ManagedFailure(disk.end, disk.retry)

StopIsFinal == [][RunStarts]_vars

(* "A rejected submission starts a new work phase. ... do not carry its     *)
(* context or budget into Addressing" (recover_previous): the first run    *)
(* after a rejection starts from an empty budget.                          *)
FreshPhase == (eng.stage = "start" /\ phase.first) => eng.bud = NoBudget

(* A session ends although the model, a tool and the user may stay silent: *)
(* every wait is under the deadline.                                       *)
SessionEnds == []<>~Running
=============================================================================
