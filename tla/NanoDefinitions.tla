---------------------------- MODULE NanoDefinitions ----------------------------
(***************************************************************************)
(* Taskless Supervisor sessions of Ferrus Nano: the model proposes a task, *)
(* a specification or an archive, a person confirms the proposal in the    *)
(* terminal, and the host runs it (src/src/nano: supervisor.rs,            *)
(* frontend.rs, and the tool calls of engine.rs).                          *)
(*                                                                         *)
(* Four processes share the session: the engine, which waits inside a call *)
(* of the host or of the tools; the spawned operation; the frontend, whose *)
(* keys may have been typed long before it reads them; and whoever else    *)
(* works in the project.  A proposal is identified by its place in the     *)
(* program; its arguments never change.  What an operation does to the     *)
(* project is modelled in ProjectFiles: here it takes effect or not, and   *)
(* may report an error either way.                                         *)
(***************************************************************************)
EXTENDS Integers, Sequences, FiniteSets

CONSTANTS Programs,     \* mode, goal, selected spec, what the model proposes, which
                        \* keys are typed how often, and what else may happen
          TypeAhead,    \* keys that may be typed before they are read
          None

VARIABLES program,      \* the program that was chosen
          project,      \* the run binding, the selection, the milestone, the lock
          engine,       \* where the session is, and why it ends
          op,           \* the spawned operation
          link,         \* the approval channel, its reply, and the commands
          snap,         \* what the display journal last published
          ui,           \* the frontend
          keys,         \* typed and not yet read, and how many may still be
          stop,         \* the cancellation and the deadline
          ghost         \* effects, confirmations and results, for the properties

vars == <<program, project, engine, op, link, snap, ui, keys, stop, ghost>>

Planned == DOMAIN program.calls

(* Operation::parse: the size, the fields of the operation, the title and   *)
(* the milestones of a specification.                                      *)
WellFormed(call) == call.valid

(* Scope::operation: the operation of this profile and, in an archive      *)
(* session, for the specification that was selected at launch.             *)
Permitted(c) ==
  LET call == program.calls[c]
  IN /\ WellFormed(call)
     /\ call.op = [task |-> "enqueue", spec |-> "create", archive |-> "archive",
                   plan |-> None][program.mode]
     /\ call.op = "archive" => call.spec = program.selected

(* Scope::check: the run is still bound and, for an archive, the selection *)
(* is still the one pinned at launch.                                      *)
Check == project.bound /\ (program.mode = "archive" => project.selected = program.selected)

(* Operation::preflight: the milestone of the task is open.                *)
Preflight(c) == program.calls[c].op = "enqueue" /\ program.calls[c].origin => ~project.taken

(* SupervisorTools::end_reason.                                            *)
GoalReached(saved) == program.goal > 0 /\ saved >= program.goal

Halted == stop.cancelled \/ stop.expired

(* interrupt: the cancellation is looked at before the deadline.           *)
StopReason == IF stop.cancelled THEN "Cancelled" ELSE "Limit"

-----------------------------------------------------------------------------
(* The engine.                                                             *)

Turn(at) == engine' = [engine EXCEPT !.at = at]

End(reason) == engine' = [engine EXCEPT !.at = "shutdown", !.reason = reason]

Settle(outcome, reason) ==
  engine' = [engine EXCEPT !.at = "record", !.outcome = outcome, !.reason = reason]

(* accept_input, for a command that waits: durable before it is displayed. *)
AcceptInput ==
  /\ engine.at \in {"input", "model"} /\ ~Halted /\ link.commands # << >>
  /\ Turn("model")
  /\ link' = [link EXCEPT !.commands = Tail(@)]
  /\ snap' = [snap EXCEPT !.accepted = @ \cup {Head(link.commands).id}, !.waiting = FALSE]
  /\ UNCHANGED <<program, project, op, ui, keys, stop, ghost>>

(* InputRequested: the model has answered without a call.                  *)
RequestInput ==
  /\ engine.at = "model" /\ ~Halted
  /\ Turn("input")
  /\ snap' = [snap EXCEPT !.waiting = TRUE]
  /\ UNCHANGED <<program, project, op, link, ui, keys, stop, ghost>>

(* The model calls the tool, and validate refuses the call or not.         *)
Propose ==
  /\ engine.at = "model" /\ ~Halted /\ engine.call < Len(program.calls)
  /\ \E c \in {engine.call + 1} :
       engine' = [engine EXCEPT !.call = c, !.outcome = "failed",
                                !.at = IF Permitted(c) THEN "authorize" ELSE "record"]
  /\ UNCHANGED <<program, project, op, link, snap, ui, keys, stop, ghost>>

(* authorize up to the approval: nothing is sent when a check fails or the *)
(* frontend has gone.                                                      *)
Authorize ==
  /\ engine.at = "authorize" /\ ~Halted
  /\ IF Check /\ Preflight(engine.call) /\ ui.at # "gone"
     THEN /\ Turn("reply")
          /\ link' = [link EXCEPT !.approvals = Append(@, engine.call), !.reply = "none"]
     ELSE Settle("failed", None) /\ UNCHANGED link
  /\ UNCHANGED <<program, project, op, snap, ui, keys, stop, ghost>>

(* authorize from the answer on: a reply that was dropped declines.        *)
Authorized ==
  /\ engine.at = "reply" /\ ~Halted /\ link.reply # "none"
  /\ IF link.reply = "yes" /\ Check THEN Turn("start") ELSE Settle("failed", None)
  /\ UNCHANGED <<program, project, op, link, snap, ui, keys, stop, ghost>>

(* ToolStarted is committed and execute spawns the operation.              *)
Start ==
  /\ engine.at = "start" /\ ~Halted
  /\ IF Preflight(engine.call)
     THEN Turn("execute") /\ op' = [at |-> "spawned", call |-> engine.call, ok |-> FALSE]
     ELSE Settle("failed", None) /\ UNCHANGED op
  /\ UNCHANGED <<program, project, link, snap, ui, keys, stop, ghost>>

MutInterruptCall ==
  /\ Halted
  /\ \/ engine.at \in {"authorize", "reply", "start"} /\ Settle("failed", StopReason)
     \/ engine.at = "execute" /\ Settle("unknown", StopReason)
     \/ engine.at \in {"input", "model"} /\ End(StopReason)
  /\ UNCHANGED <<program, project, op, link, snap, ui, keys, stop, ghost>>

(* A stop while the engine waits: before the operation has started the     *)
(* call has failed, afterwards interrupted() waits for it.                 *)
InterruptCall ==
  /\ Halted
  /\ \/ engine.at \in {"authorize", "reply", "start"} /\ Settle("failed", StopReason)
     \/ /\ engine.at = "execute"
        /\ engine' = [engine EXCEPT !.at = "interrupted", !.reason = StopReason]
     \/ engine.at \in {"input", "model"} /\ End(StopReason)
  /\ UNCHANGED <<program, project, op, link, snap, ui, keys, stop, ghost>>

(* finish_operation.                                                       *)
FinishOperation ==
  /\ op.at = "done"
  /\ engine.at = "interrupted" \/ (engine.at = "execute" /\ ~Halted)
  /\ engine' = [engine EXCEPT !.at = "record", !.saved = IF op.ok THEN @ + 1 ELSE @,
                              !.outcome = IF op.ok THEN "success" ELSE "unknown"]
  /\ op' = [op EXCEPT !.at = "none"]
  /\ UNCHANGED <<program, project, link, snap, ui, keys, stop, ghost>>

(* ToolResult is committed, and the session goes on unless its goal is     *)
(* reached, it was stopped, or the effect is in doubt.                     *)
Record ==
  /\ engine.at = "record"
  /\ LET reason == IF GoalReached(engine.saved) THEN "DefinitionCompleted"
                   ELSE IF engine.reason # None THEN engine.reason
                   ELSE IF engine.outcome = "unknown" THEN "EffectUnknown" ELSE None
     IN engine' = [engine EXCEPT !.reason = reason,
                                 !.at = IF reason = None THEN "model" ELSE "shutdown"]
  /\ ghost' = [ghost EXCEPT !.results[engine.call] = engine.outcome]
  /\ UNCHANGED <<program, project, op, link, snap, ui, keys, stop>>

(* A commit fails: the session ends without another record.                *)
JournalFails ==
  /\ engine.at \in {"input", "model", "start", "record"}
  /\ End("JournalFailed")
  /\ UNCHANGED <<program, project, op, link, snap, ui, keys, stop, ghost>>

(* shutdown, the Ended record unless the journal has failed, and done.     *)
Shutdown ==
  /\ engine.at = "shutdown"
  /\ Turn("ended")
  /\ snap' = IF engine.reason = "JournalFailed" THEN snap
             ELSE [snap EXCEPT !.ended = TRUE, !.reason = engine.reason, !.waiting = FALSE]
  /\ link' = [link EXCEPT !.commands = << >>]
  /\ UNCHANGED <<program, project, op, ui, keys, stop, ghost>>

-----------------------------------------------------------------------------
(* The spawned operation.                                                  *)

Quit(p) == op' = [op EXCEPT !.at = "done"] /\ project' = p

(* The check before the canonical approval lock.                           *)
OperationChecks ==
  /\ op.at = "spawned"
  /\ IF Check THEN op' = [op EXCEPT !.at = "locking"] /\ UNCHANGED project ELSE Quit(project)
  /\ UNCHANGED <<program, engine, link, snap, ui, keys, stop, ghost>>

(* The lock, or an error on the way to it, and the check that follows it.  *)
OperationLocks ==
  /\ op.at = "locking"
  /\ \/ /\ project.lock = None /\ Check
        /\ project' = [project EXCEPT !.lock = "session"]
        /\ op' = [op EXCEPT !.at = "running"]
     \/ project.lock = None /\ ~Check /\ Quit(project)
     \/ project.lock # None /\ Quit(project)
  /\ UNCHANGED <<program, engine, link, snap, ui, keys, stop, ghost>>

(* run, and the release of the lock.  An error may follow the effect.      *)
OperationRuns ==
  /\ op.at = "running"
  /\ \E effect, ok \in BOOLEAN :
       /\ ok => effect
       /\ op' = [op EXCEPT !.at = "done", !.ok = ok]
       /\ ghost' = [ghost EXCEPT !.effects = IF effect THEN Append(@, op.call) ELSE @]
  /\ project' = [project EXCEPT !.lock = None]
  /\ UNCHANGED <<program, engine, link, snap, ui, keys, stop>>

-----------------------------------------------------------------------------
(* The frontend: each operator takes the frontend and gives it back.       *)

(* Conversation::poll and the receipt of the pending input.                *)
Poll(u) ==
  LET seen == [u EXCEPT !.ended = @ \/ snap.ended, !.reason = snap.reason]
      accepted == u.pending # None /\ u.pending.id \in snap.accepted
  IN IF u.pending = None THEN seen
     ELSE IF accepted
     THEN [seen EXCEPT !.pending = None, !.text = IF @ = u.pending.text THEN << >> ELSE @]
     ELSE IF seen.ended
     THEN [seen EXCEPT !.pending = None, !.text = u.pending.text,
                       !.history = IF u.text \in {u.pending.text, << >>} THEN @
                                   ELSE @ \cup {u.text}]
     ELSE seen

(* receive_approval.                                                       *)
Receives(u) == u.approval = None /\ link.approvals # << >>

ReceiveApproval(u) ==
  IF ~Receives(u) THEN u
  ELSE [u EXCEPT !.approval = Head(link.approvals), !.answer = << >>, !.shown = FALSE]

Queue == IF Receives(ui) THEN Tail(link.approvals) ELSE link.approvals

(* The requests that go when the frontend does: their replies are dropped. *)
Dropped(l, u) ==
  [l EXCEPT !.approvals = << >>,
            !.reply = IF @ = "none" /\ (u.approval # None \/ l.approvals # << >>)
                      THEN "no" ELSE @]

Sendable(u) == u.pending = None /\ u.text # << >> /\ ~u.ended /\ engine.at # "ended"

(* submit: one input at a time, kept in the editor until it is accepted.   *)
Submit(u, l) ==
  IF ~Sendable(u) THEN [ui |-> u, link |-> l]
  ELSE LET input == [id |-> u.sent + 1, text |-> u.text]
       IN [ui |-> [u EXCEPT !.pending = input, !.sent = input.id],
           link |-> [l EXCEPT !.commands = Append(@, input)]]

MutShouldExit(u) == engine.at = "ended" /\ u.reason \in {"DefinitionCompleted", "Cancelled"}

(* should_exit.                                                            *)
ShouldExit(u) ==
  engine.at = "ended" /\ (u.quitting \/ u.reason \in {"DefinitionCompleted", "Cancelled"})

(* One round of run up to the wait for an event: the receipt, the next     *)
(* approval, the initial request, the end, and what is drawn.              *)
Refresh ==
  /\ ui.at = "loop"
  /\ LET received == ReceiveApproval(Poll(ui))
         started == received.initial /\ snap.waiting
         sent == IF started
                 THEN Submit([received EXCEPT !.initial = FALSE], [link EXCEPT !.approvals = Queue])
                 ELSE [ui |-> received, link |-> [link EXCEPT !.approvals = Queue]]
         ended == [sent.ui EXCEPT !.ended = @ \/ engine.at = "ended"]
     IN IF ShouldExit(ended)
        THEN /\ ui' = [ended EXCEPT !.at = "gone", !.approval = None]
             /\ link' = Dropped(sent.link, ended)
             /\ stop' = [stop EXCEPT !.cancelled = TRUE]
        ELSE /\ ui' = [ended EXCEPT !.at = "select", !.shown = ended.approval # None]
             /\ link' = sent.link
             /\ UNCHANGED stop
  /\ UNCHANGED <<program, project, engine, op, snap, keys, ghost>>

Cancelled(u) == [u EXCEPT !.quitting = TRUE]

Answer(u, value) ==
  [ui |-> [u EXCEPT !.approval = None, !.answer = << >>], reply |-> value, stop |-> FALSE]

Only(u) == [ui |-> u, reply |-> "none", stop |-> FALSE]

(* approval_event: nothing typed, or yes, approves; no declines; anything  *)
(* else is refused.                                                        *)
ApprovalEvent(u, key) ==
  CASE key = "ctrl-c" -> [ui |-> Cancelled(u), reply |-> "none", stop |-> TRUE]
    [] key = "esc" -> Answer(u, "no")
    [] key = "enter" /\ u.answer \in {<< >>, <<"y">>} -> Answer(u, "yes")
    [] key = "enter" /\ u.answer = <<"n">> -> Answer(u, "no")
    [] key \in {"y", "n"} /\ Len(u.answer) < 2 -> Only([u EXCEPT !.answer = Append(@, key)])
    [] OTHER -> Only(u)

MutEvent(u, key, new) ==
  IF u.approval # None THEN ApprovalEvent(u, key)
  ELSE IF key = "ctrl-c" \/ (key = "esc" /\ u.ended)
  THEN [ui |-> Cancelled(u), reply |-> "none", stop |-> TRUE]
  ELSE IF key \in {"y", "n"} THEN Only([u EXCEPT !.text = Append(@, key)])
  ELSE Only(u)

(* event, but for an Enter that sends the draft: an Enter that arrives     *)
(* together with a request is not for that request.                        *)
Event(u, key, new) ==
  IF u.approval # None
  THEN IF new /\ key = "enter" THEN Only(u) ELSE ApprovalEvent(u, key)
  ELSE IF key = "ctrl-c" \/ (key = "esc" /\ u.ended)
  THEN [ui |-> Cancelled(u), reply |-> "none", stop |-> TRUE]
  ELSE IF key \in {"y", "n"} THEN Only([u EXCEPT !.text = Append(@, key)])
  ELSE Only(u)

(* A key is read: the receipt and the next request come before it.  The     *)
(* answer to a request that nobody waits for any more goes nowhere.        *)
ReadKey ==
  /\ ui.at = "select" /\ keys.typed # << >>
  /\ LET key == Head(keys.typed)
         received == ReceiveApproval(Poll(ui))
         event == Event(received, key, Receives(ui))
         queued == [link EXCEPT !.approvals = Queue,
                                !.reply = IF @ = "none" THEN event.reply ELSE @]
         sent == IF received.approval = None /\ key = "enter" THEN Submit(event.ui, queued)
                 ELSE [ui |-> event.ui, link |-> queued]
     IN /\ ui' = [sent.ui EXCEPT !.at = "loop"]
        /\ link' = sent.link
        /\ stop' = [stop EXCEPT !.cancelled = @ \/ event.stop]
        /\ ghost' = [ghost EXCEPT !.confirmed =
                       IF event.reply = "yes" /\ received.shown
                       THEN @ \cup {received.approval} ELSE @]
  /\ keys' = [keys EXCEPT !.typed = Tail(@)]
  /\ UNCHANGED <<program, project, engine, op, snap>>

(* The tick, or the end of the session.                                    *)
Tick ==
  /\ ui.at = "select"
  /\ link.approvals # << >> \/ snap # ui.drawn \/ (engine.at = "ended" /\ ~ui.ended)
  /\ ui' = [ui EXCEPT !.at = "loop", !.drawn = snap]
  /\ UNCHANGED <<program, project, engine, op, link, snap, keys, stop, ghost>>

(* Drawing or reading the terminal fails: CancelOnDrop.                    *)
TerminalFails ==
  /\ ui.at \in {"loop", "select"} /\ program.fragile
  /\ ui' = [ui EXCEPT !.at = "gone", !.approval = None]
  /\ link' = Dropped(link, ui)
  /\ stop' = [stop EXCEPT !.cancelled = TRUE]
  /\ UNCHANGED <<program, project, engine, op, snap, keys, ghost>>

-----------------------------------------------------------------------------
(* Whoever else there is.                                                  *)

Type ==
  /\ ui.at # "gone" /\ keys.left > 0 /\ Len(keys.typed) < TypeAhead
  /\ \E key \in program.keys : keys' = [typed |-> Append(keys.typed, key), left |-> keys.left - 1]
  /\ UNCHANGED <<program, project, engine, op, link, snap, ui, stop, ghost>>

(* The run is recovered, the selection moves, the milestone gets a task.   *)
ProjectChanges ==
  /\ \/ "run" \in program.others /\ project.bound /\ project' = [project EXCEPT !.bound = FALSE]
     \/ /\ "selection" \in program.others /\ project.selected # None
        /\ project' = [project EXCEPT !.selected = None]
     \/ /\ "milestone" \in program.others /\ ~project.taken
        /\ project' = [project EXCEPT !.taken = TRUE]
     \/ /\ "lock" \in program.others /\ project.lock = None /\ ~project.locked
        /\ project' = [project EXCEPT !.lock = "other", !.locked = TRUE]
  /\ UNCHANGED <<program, engine, op, link, snap, ui, keys, stop, ghost>>

Unlock ==
  /\ project.lock = "other" /\ project' = [project EXCEPT !.lock = None]
  /\ UNCHANGED <<program, engine, op, link, snap, ui, keys, stop, ghost>>

Expire ==
  /\ program.timed /\ ~stop.expired /\ engine.at # "ended"
  /\ stop' = [stop EXCEPT !.expired = TRUE]
  /\ UNCHANGED <<program, project, engine, op, link, snap, ui, keys, ghost>>

(* run_bound: the session waits for its first input.                       *)
Init ==
  /\ program \in Programs
  /\ project = [bound |-> TRUE, selected |-> program.selected, taken |-> FALSE,
                lock |-> None, locked |-> FALSE]
  /\ engine = [at |-> "input", call |-> 0, outcome |-> None, reason |-> None, saved |-> 0]
  /\ op = [at |-> "none", call |-> 0, ok |-> FALSE]
  /\ link = [approvals |-> << >>, reply |-> "none", commands |-> << >>]
  /\ snap = [accepted |-> {}, waiting |-> TRUE, ended |-> FALSE, reason |-> None]
  /\ ui = [at |-> "loop", approval |-> None, answer |-> << >>, shown |-> FALSE,
           text |-> program.text, pending |-> None, history |-> {}, sent |-> 0,
           initial |-> program.text # << >>, ended |-> FALSE, reason |-> None,
           quitting |-> FALSE, drawn |-> None]
  /\ keys = [typed |-> << >>, left |-> program.typing]
  /\ stop = [cancelled |-> FALSE, expired |-> FALSE]
  /\ ghost = [effects |-> << >>, confirmed |-> {}, results |-> [c \in Planned |-> None]]

Session ==
  \/ AcceptInput \/ Propose \/ Authorize \/ Authorized \/ Start \/ InterruptCall
  \/ FinishOperation \/ Record \/ Shutdown
  \/ OperationChecks \/ OperationLocks \/ OperationRuns

Next ==
  \/ Session \/ RequestInput \/ (program.fragile /\ JournalFails)
  \/ Refresh \/ ReadKey \/ Tick \/ TerminalFails
  \/ Type \/ ProjectChanges \/ Unlock \/ Expire

Spec == Init /\ [][Next]_vars /\ WF_vars(Session) /\ WF_vars(Refresh) /\ WF_vars(ReadKey)
             /\ WF_vars(Tick) /\ WF_vars(Unlock)

-----------------------------------------------------------------------------
(* Whatever takes effect was confirmed: its request was on the screen      *)
(* before the key that approved it was read, and no confirmation, however  *)
(* the keys, the stop and the other sessions interleave, is used twice     *)
(* (Approval and event in frontend.rs, authorize in supervisor.rs).        *)
ConfirmedEffects ==
  /\ \A i \in DOMAIN ghost.effects : ghost.effects[i] \in ghost.confirmed
  /\ \A i, j \in DOMAIN ghost.effects : ghost.effects[i] = ghost.effects[j] => i = j

Succeeded == {c \in Planned : ghost.results[c] = "success"}

(* What the journal says of a proposal is what happened to it: a success   *)
(* took effect, a failure did not, and when the session is over, stopped   *)
(* in the middle of an operation or not, nothing still runs and the        *)
(* definition is complete exactly when the goal of operations succeeded    *)
(* (finish_operation, interrupted, shutdown and end_reason).               *)
ResultsTrue ==
  /\ \A c \in Planned :
       LET effect == \E i \in DOMAIN ghost.effects : ghost.effects[i] = c
       IN /\ ghost.results[c] = "success" => effect
          /\ ghost.results[c] = "failed" => ~effect
  /\ engine.at = "ended" =>
       /\ op.at = "none" /\ project.lock # "session"
       /\ engine.reason = "DefinitionCompleted" => Cardinality(Succeeded) >= program.goal
       /\ engine.reason \in {"Cancelled", "Limit", "EffectUnknown"} =>
            ~GoalReached(Cardinality(Succeeded))

(* A stopped session ends and gives the terminal back, also when it waits  *)
(* for an answer, for the approval lock or for a running operation (quit,  *)
(* CancelOnDrop, interrupted and should_exit).                             *)
StoppedSessionsEnd == [](stop.cancelled => <>(engine.at = "ended" /\ ui.at = "gone"))

=============================================================================
