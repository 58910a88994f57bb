--------------------------- MODULE NanoConversation ---------------------------
(***************************************************************************)
(* A conversation of HQ with a native agent: the editor of HQ and its       *)
(* receipts (src/src/hq/tui/app.rs), the dispatcher (hq/mod.rs), the input  *)
(* writer and the view (nano/conversation.rs), the protocol and its output  *)
(* mailbox (nano/wire.rs), the command loop of the agent (nano/cli.rs) and  *)
(* the safe points of its engine (nano/engine.rs).  The session is one that *)
(* was opened for interaction.                                             *)
(*                                                                         *)
(* An input is known by the identity it is sent under; a second try of the *)
(* same text is another input.  What a snapshot shows is a function of the *)
(* records it was made from, so it is their number and whether it has      *)
(* ended.                                                                  *)
(***************************************************************************)
EXTENDS Integers, Sequences, SequencesExt, FiniteSets, FiniteSetsExt

CONSTANTS Inputs,       \* identities, 1 .. n, in the order they are used
          QueueSize,    \* of the channels of the input writer and of the agent
          Programs,     \* what may happen: [inputs, turns, deltas, detach, attach,
                        \* cancel, kills, refusals, journalFailures]
          None

VARIABLES
  budget,   \* what is left of the program
  ui,       \* the editor and the conversation it shows
  toHq, toUi,
  view,     \* the View of HQ and its reader thread, or None
  control,  \* the InputWriter: [queue, cancel, broken]
  pipe,     \* commands on their way to the agent
  agent,    \* [alive, reader, channel, stop, at, turn, preview]
  journal,
  mailbox,  \* Output: [latest, notice, rejection, closed]
  observed, \* ObservedEvents: [latest, rejected]
  run       \* the status of the run

vars == <<budget, ui, toHq, toUi, view, control, pipe, agent, journal, mailbox, observed, run>>

Waiting == [records |-> 0, ended |-> FALSE]

NewView == [records |-> 0, at |-> "poll", sent |-> None]

Init ==
  /\ budget \in Programs
  /\ ui = [draft |-> FALSE, aimed |-> FALSE, open |-> TRUE, pending |-> None, sent |-> 0,
           told |-> [i \in Inputs |-> None], snapshot |-> Waiting, seen |-> None, preview |-> None,
           rejected |-> None, fresh |-> FALSE]
  /\ toHq = << >> /\ toUi = << >>
  /\ view = NewView
  /\ control = [queue |-> << >>, cancel |-> FALSE, broken |-> FALSE]
  /\ pipe = << >>
  /\ agent = [alive |-> TRUE, reader |-> TRUE, channel |-> << >>, stop |-> FALSE,
              at |-> "turn", turn |-> 0, preview |-> FALSE]
  /\ journal = << >>
  /\ mailbox = [latest |-> None, notice |-> None, rejection |-> None, closed |-> FALSE]
  /\ observed = [latest |-> None, rejected |-> None]
  /\ run = "running"

-----------------------------------------------------------------------------
(* What a reader makes of the first records of the journal.                *)

Record(kind, of) == [kind |-> kind, of |-> of]

Of(kind, n) == {i \in 1 .. n : journal[i].kind = kind}

(* Snapshot::apply.                                                        *)
AcceptedInputs(n) == {journal[i].of : i \in Of("input", n)}

TurnShown(n) == Max({0} \cup {journal[i].of : i \in Of("model", n)})

Generating(n) ==
  \E i \in Of("model", n) :
    \A j \in i + 1 .. n : journal[j].kind \notin {"completed", "requested", "ended"}

Snapshot(n) == [records |-> n, ended |-> Of("ended", n) # {}]

-----------------------------------------------------------------------------
(* The editor.                                                             *)

Type ==
  /\ ~ui.draft /\ ui.pending = None /\ ui.open /\ ui.sent < budget.inputs
  /\ ui' = [ui EXCEPT !.draft = TRUE, !.aimed = TRUE]
  /\ UNCHANGED <<budget, toHq, toUi, view, control, pipe, agent, journal, mailbox, observed, run>>

(* submit_input: one input at a time; the draft stays until it is accepted.*)
SubmitInput ==
  /\ ui.draft /\ (ui.open \/ ui.aimed) /\ ui.pending = None /\ ui.sent < budget.inputs
  /\ ui' = [ui EXCEPT !.sent = @ + 1, !.pending = ui.sent + 1]
  /\ toHq' = Append(toHq, Record("steer", ui.sent + 1))
  /\ UNCHANGED <<budget, toUi, view, control, pipe, agent, journal, mailbox, observed, run>>

(* release_nano_input, and what the person is told.                        *)
Released(u, verdict) ==
  [u EXCEPT !.pending = None, !.told[u.pending] = verdict,
            !.draft = verdict # "accepted", !.aimed = verdict # "accepted"]

MutVerdict(u) ==
  IF u.pending \in AcceptedInputs(u.snapshot.records) THEN "accepted"
  ELSE IF u.rejected # None THEN "rejected"
  ELSE IF u.snapshot.ended THEN "ended" ELSE None

(* What poll_nano_input finds out about the pending input.                 *)
Verdict(u) ==
  IF u.pending \in AcceptedInputs(u.snapshot.records) THEN "accepted"
  ELSE IF u.rejected = u.pending THEN "rejected"
  ELSE IF u.snapshot.ended THEN "ended" ELSE None

PollNanoInput(u) ==
  IF ~u.open \/ u.pending = None \/ Verdict(u) = None THEN u ELSE Released(u, Verdict(u))

(* Conversation::poll: the durable records first, then the last event.     *)
PollSnapshot(u) ==
  IF view = None \/ view.sent = u.seen THEN u
  ELSE [u EXCEPT !.snapshot = view.sent, !.seen = view.sent,
                 !.preview = IF Generating(view.sent.records) THEN @ ELSE None]

PollEvents(u) ==
  LET n == u.snapshot.records
      text == /\ observed.latest # None /\ observed.latest.kind = "text"
              /\ observed.latest.of = TurnShown(n) /\ Generating(n)
      ended == observed.latest # None /\ observed.latest.kind = "ended"
  IN IF ~u.fresh THEN u
     ELSE [u EXCEPT !.fresh = FALSE, !.rejected = observed.rejected,
                    !.preview = IF text THEN observed.latest.of ELSE @,
                    !.snapshot = IF ended THEN [@ EXCEPT !.ended = TRUE] ELSE @]

Conversation(u) == IF u.open THEN PollNanoInput(PollEvents(PollSnapshot(u))) ELSE u

Poll ==
  /\ Conversation(ui) # ui
  /\ ui' = Conversation(ui)
  /\ UNCHANGED <<budget, toHq, toUi, view, control, pipe, agent, journal, mailbox, observed, run>>

(* handle_message.                                                         *)
Opened(u, fresh) ==
  Conversation([u EXCEPT !.open = TRUE, !.preview = None, !.rejected = None, !.fresh = fresh,
                         !.snapshot = Waiting, !.seen = None])

Closed(u) ==
  [(IF u.pending # None THEN Released(u, "unconfirmed") ELSE u)
     EXCEPT !.open = FALSE, !.fresh = FALSE, !.preview = None, !.rejected = None,
            !.snapshot = Waiting, !.seen = None]

Rejected(u, i) == IF u.pending = i THEN Released(u, "rejected") ELSE u

HandleMessage ==
  /\ toUi # << >>
  /\ toUi' = Tail(toUi)
  /\ LET message == Head(toUi)
     IN ui' = CASE message.kind = "open" -> Opened(ui, message.of)
                [] message.kind = "close" -> Closed(ui)
                [] message.kind = "rejected" -> Rejected(ui, message.of)
  /\ UNCHANGED <<budget, toHq, view, control, pipe, agent, journal, mailbox, observed, run>>

(* The commands a person may give.  Attaching to the conversation that is   *)
(* shown already is left out.                                              *)
Order(kind) ==
  /\ budget[kind] > 0 /\ (kind = "attach" => ~ui.open)
  /\ budget' = [budget EXCEPT ![kind] = @ - 1]
  /\ toHq' = Append(toHq, Record(kind, None))
  /\ UNCHANGED <<ui, toUi, view, control, pipe, agent, journal, mailbox, observed, run>>

-----------------------------------------------------------------------------
(* HQ.                                                                     *)

(* HeadlessHandle::is_alive, by the exit task.                             *)
IsAlive == run = "running"

Room == Len(control.queue) < QueueSize /\ ~control.broken

(* steer and open of InputWriter.                                          *)
Enqueue(command) == control' = [control EXCEPT !.queue = Append(@, command)]

(* A steering input is queued, or refused and the editor told so.          *)
DispatchSteer(i) ==
  IF view # None /\ IsAlive /\ Room
  THEN Enqueue(Record("steer", i)) /\ UNCHANGED <<toUi, view, ui>>
  ELSE toUi' = Append(toUi, Record("rejected", i)) /\ UNCHANGED <<control, view, ui>>

(* /detach: the view is dropped, its thread stops, the agent goes on.      *)
DispatchDetach ==
  IF view = None THEN UNCHANGED <<toUi, view, control, ui>>
  ELSE view' = None /\ toUi' = Append(toUi, Record("close", None)) /\ UNCHANGED <<control, ui>>

(* /attach: an agent that is alive is told; the last event counts as new    *)
(* if the copy that HQ keeps has not seen it.                              *)
DispatchAttach ==
  \/ /\ IsAlive => Room
     /\ IF IsAlive THEN Enqueue(Record("interact", None)) ELSE UNCHANGED control
     /\ view' = NewView
     /\ \E fresh \in BOOLEAN : toUi' = Append(toUi, Record("open", fresh))
     /\ UNCHANGED ui
  \/ IsAlive /\ ~Room /\ UNCHANGED <<toUi, view, control, ui>>

DispatchCancel ==
  /\ control' = [control EXCEPT !.cancel = @ \/ view # None]
  /\ UNCHANGED <<toUi, view, ui>>

Dispatch ==
  /\ toHq # << >>
  /\ toHq' = Tail(toHq)
  /\ LET command == Head(toHq)
     IN \/ command.kind = "steer" /\ DispatchSteer(command.of)
        \/ command.kind = "detach" /\ DispatchDetach
        \/ command.kind = "attach" /\ DispatchAttach
        \/ command.kind = "cancel" /\ DispatchCancel
  /\ UNCHANGED <<budget, pipe, agent, journal, mailbox, observed, run>>

(* write_command: one frame.  Its bound is checked before it is queued, so  *)
(* that what is written can be read at the other end.                      *)
Framed(command) == Append(pipe, command)

(* The thread of InputWriter: a cancellation goes before what is queued,   *)
(* and is the last thing it writes.                                        *)
WriteCommand ==
  /\ ~control.broken
  /\ control.cancel \/ control.queue # << >>
  /\ IF control.cancel \/ ~agent.alive
     THEN control' = [control EXCEPT !.broken = TRUE, !.queue = << >>]
     ELSE control' = [control EXCEPT !.queue = Tail(@)]
  /\ pipe' = IF ~agent.alive THEN pipe
             ELSE Framed(IF control.cancel THEN Record("cancel", None) ELSE Head(control.queue))
  /\ UNCHANGED <<budget, ui, toHq, toUi, view, agent, journal, mailbox, observed, run>>

(* The thread of View: poll, and, when there is nothing new, a look at the *)
(* run.                                                                    *)
PollJournal ==
  /\ view # None /\ view.at = "poll"
  /\ view' = IF Len(journal) > view.records
             THEN [records |-> Len(journal), sent |-> Snapshot(Len(journal)),
                   at |-> IF Snapshot(Len(journal)).ended THEN "done" ELSE "poll"]
             ELSE [view EXCEPT !.at = "check"]
  /\ UNCHANGED <<budget, ui, toHq, toUi, control, pipe, agent, journal, mailbox, observed, run>>

CheckRun ==
  /\ view # None /\ view.at = "check"
  /\ view' = IF run = "running" THEN [view EXCEPT !.at = "poll"]
             ELSE [view EXCEPT !.at = "done", !.sent = [records |-> view.records, ended |-> TRUE]]
  /\ UNCHANGED <<budget, ui, toHq, toUi, control, pipe, agent, journal, mailbox, observed, run>>

-----------------------------------------------------------------------------
(* The output of the agent.                                                *)

MutPublished(box, event) ==
  IF box.closed THEN box ELSE [box EXCEPT !.latest = event]

(* Output::publish: a rejection and a notice each have a place of their    *)
(* own, everything else replaces what was not written yet.                 *)
Published(box, event) ==
  IF box.closed THEN box
  ELSE IF event.kind = "rejection" THEN [box EXCEPT !.rejection = event]
  ELSE IF event.kind = "notice" THEN [box EXCEPT !.notice = event]
  ELSE [box EXCEPT !.latest = event]

Publish(event) == mailbox' = Published(mailbox, event)

Places == <<"rejection", "notice", "latest">>

(* ObservedEvents::observe.                                                *)
Observe(event) ==
  /\ observed' = [latest |-> event,
                  rejected |-> IF event.kind = "rejection" THEN event.of ELSE observed.rejected]
  /\ ui' = [ui EXCEPT !.fresh = ui.open]
  /\ toUi' = [i \in 1 .. Len(toUi) |->
                IF toUi[i].kind = "open" THEN Record("open", TRUE) ELSE toUi[i]]

(* The output thread writes one event, and HQ's log reader takes it; only  *)
(* what may be shown is observed.                                          *)
WriteEvent ==
  /\ agent.alive
  /\ \E k \in 1 .. 3 :
       /\ mailbox[Places[k]] # None
       /\ \A j \in 1 .. k - 1 : mailbox[Places[j]] = None
       /\ mailbox' = [mailbox EXCEPT ![Places[k]] = None]
       /\ IF mailbox[Places[k]].kind = "progress" THEN UNCHANGED <<observed, ui, toUi>>
          ELSE Observe(mailbox[Places[k]])
  /\ UNCHANGED <<budget, toHq, view, control, pipe, agent, journal, run>>

-----------------------------------------------------------------------------
(* The agent.                                                              *)

(* read_command: the next whole frame.                                     *)
NextFrame == Head(pipe)

(* The command loop: a full channel, or one whose engine has gone, rejects.*)
ReadCommand ==
  /\ agent.alive /\ agent.reader /\ pipe # << >>
  /\ pipe' = Tail(pipe)
  /\ LET command == NextFrame
         taken == agent.at # "over" /\ Len(agent.channel) < QueueSize
     IN IF command.kind = "cancel"
        THEN /\ agent' = [agent EXCEPT !.reader = FALSE, !.stop = TRUE]
             /\ UNCHANGED mailbox
        ELSE /\ agent' = [agent EXCEPT !.preview = TRUE,
                            !.channel = IF taken THEN Append(@, command) ELSE @]
             /\ IF taken THEN UNCHANGED mailbox
                ELSE Publish(Record(IF command.kind = "steer" THEN "rejection" ELSE "notice",
                                    command.of))
  /\ UNCHANGED <<budget, ui, toHq, toUi, view, control, journal, observed, run>>

(* ObservedJournal::append: the record, then its progress.                 *)
Commit(record, at) ==
  /\ journal' = Append(journal, record)
  /\ agent' = [agent EXCEPT !.at = at, !.turn = IF record.kind = "model" THEN record.of ELSE @]
  /\ IF record.kind \in {"model", "requested"} THEN Publish(Record("progress", record.of))
     ELSE UNCHANGED mailbox
  /\ UNCHANGED <<budget, ui, toHq, toUi, view, control, pipe, observed, run>>

Engine(at) == agent.alive /\ agent.at = at

(* drain_input and wait_for_input: an input is taken between turns only,   *)
(* and recorded before anything is made of it.                             *)
AcceptInput ==
  /\ agent.alive /\ agent.channel # << >> /\ ~agent.stop
  /\ agent.at = "waiting" \/ (agent.at = "turn" /\ agent.turn < budget.turns)
  /\ LET command == Head(agent.channel)
         rest == [agent EXCEPT !.channel = Tail(@)]
     IN IF command.kind = "steer"
        THEN /\ journal' = Append(journal, Record("input", command.of))
             /\ agent' = [rest EXCEPT !.at = "turn"]
        ELSE agent' = rest /\ UNCHANGED journal
  /\ UNCHANGED <<budget, ui, toHq, toUi, view, control, pipe, mailbox, observed, run>>

StartModel ==
  /\ Engine("turn") /\ agent.channel = << >> /\ ~agent.stop /\ agent.turn < budget.turns
  /\ Commit(Record("model", agent.turn + 1), "model")

(* Preview::update: the text of the turn so far, which starts anew with the *)
(* turn; an update that comes too soon is left to the next.                *)
Preview == Record("text", agent.turn)

(* model_delta.                                                            *)
ModelDelta ==
  /\ Engine("model") /\ agent.preview /\ budget.deltas > 0
  /\ mailbox.latest # Preview
  /\ Publish(Preview)
  /\ UNCHANGED <<budget, ui, toHq, toUi, view, control, pipe, agent, journal, observed, run>>

CompleteModel ==
  /\ Engine("model")
  /\ \E at \in {"turn", "request"} : Commit(Record("completed", agent.turn), at)

RequestInput == Engine("request") /\ Commit(Record("requested", None), "waiting")

(* input_capacity: an input for which there is no room ends the session.    *)
RefuseInput ==
  /\ agent.at \in {"turn", "waiting"} /\ budget.refusals > 0
  /\ agent.channel # << >> /\ Head(agent.channel).kind = "steer"

(* The session is stopped or has used up its turns.                        *)
EndSession ==
  /\ agent.alive
  /\ \/ agent.stop /\ agent.at \in {"turn", "model", "request", "waiting"}
     \/ agent.at = "turn" /\ agent.turn = budget.turns
     \/ RefuseInput
  /\ Commit(Record("ended", None), "returned")

(* A record cannot be written: the session is over and says so.            *)
JournalFails ==
  /\ agent.alive /\ agent.at \in {"turn", "model", "request", "waiting"}
  /\ budget.journalFailures > 0
  /\ budget' = [budget EXCEPT !.journalFailures = @ - 1]
  /\ agent' = [agent EXCEPT !.at = "returned"]
  /\ UNCHANGED <<ui, toHq, toUi, view, control, pipe, journal, mailbox, observed, run>>

(* The engine and its channel are gone, then the end is published and the  *)
(* output closed.                                                          *)
DropEngine ==
  /\ Engine("returned")
  /\ agent' = [agent EXCEPT !.at = "over", !.channel = << >>]
  /\ UNCHANGED <<budget, ui, toHq, toUi, view, control, pipe, journal, mailbox, observed, run>>

CloseOutput ==
  /\ Engine("over") /\ ~mailbox.closed
  /\ mailbox' = [Published(mailbox, Record("ended", None)) EXCEPT !.closed = TRUE]
  /\ UNCHANGED <<budget, ui, toHq, toUi, view, control, pipe, agent, journal, observed, run>>

(* The process exits when the output is written, or stalled for too long.  *)
Exit ==
  /\ Engine("over") /\ mailbox.closed
  /\ agent' = [agent EXCEPT !.alive = FALSE]
  /\ UNCHANGED <<budget, ui, toHq, toUi, view, control, pipe, journal, mailbox, observed, run>>

Killed ==
  /\ agent.alive /\ budget.kills > 0
  /\ budget' = [budget EXCEPT !.kills = @ - 1]
  /\ agent' = [agent EXCEPT !.alive = FALSE]
  /\ UNCHANGED <<ui, toHq, toUi, view, control, pipe, journal, mailbox, observed, run>>

(* The exit task of the launch.                                            *)
RunSettles ==
  /\ ~agent.alive /\ run = "running"
  /\ run' = "settled"
  /\ UNCHANGED <<budget, ui, toHq, toUi, view, control, pipe, agent, journal, mailbox, observed>>

EngineStep ==
  AcceptInput \/ StartModel \/ CompleteModel \/ RequestInput \/ EndSession \/ DropEngine
    \/ CloseOutput \/ Exit \/ RunSettles

Next ==
  \/ Type \/ SubmitInput \/ Poll \/ HandleMessage
  \/ \E kind \in {"detach", "attach", "cancel"} : Order(kind)
  \/ Dispatch \/ WriteCommand \/ PollJournal \/ CheckRun
  \/ WriteEvent \/ ReadCommand \/ ModelDelta \/ JournalFails \/ Killed
  \/ EngineStep

Spec == Init /\ [][Next]_vars

-----------------------------------------------------------------------------

InFlight ==
  {c.of : c \in UNION {Range(toHq), Range(control.queue), Range(pipe), Range(agent.channel)}}

(* What the person is told of an input is true and stays true: accepted     *)
(* means that it is in the journal, rejected that it is not and that no     *)
(* copy of it is on its way there, so that a second try cannot make the     *)
(* agent act twice; and the editor keeps what was not accepted.            *)
ReceiptsTrue ==
  LET inputs == AcceptedInputs(Len(journal))
  IN /\ \A i \in Inputs : ui.told[i] = "accepted" => i \in inputs
     /\ \A i \in Inputs : ui.told[i] = "rejected" => i \notin inputs \cup InFlight
     /\ (ui.sent > 0 /\ ~ui.draft) => \E i \in Inputs : ui.told[i] = "accepted"

Expected(messages, i) ==
  \E m \in Range(messages) : m.kind = "close" \/ m = Record("rejected", i) \/ m = Record("open", TRUE)

(* The editor, which sends nothing while an input is pending, never waits    *)
(* for nothing: the input is on its way, or it is recorded, or its rejection *)
(* is on its way back and cannot be overtaken by what the agent streams, or  *)
(* the session is over or being stopped.                                   *)
PendingIsAccountedFor ==
  LET i == ui.pending
  IN i # None =>
       \/ i \in InFlight \cup AcceptedInputs(Len(journal))
       \/ mailbox.rejection = Record("rejection", i)
       \/ observed.rejected = i /\ ui.open /\ ui.fresh
       \/ Expected(toUi, i)
       \/ control.cancel \/ agent.stop \/ ~agent.alive \/ agent.at \in {"returned", "over"}
=============================================================================
