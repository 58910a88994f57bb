------------------------------ MODULE HqDashboard ------------------------------
(***************************************************************************)
(* What the HQ screen shows and where a typed answer goes                  *)
(* (src/src/hq/state_watcher.rs, tui.rs, tui/app.rs, mod.rs).              *)
(*                                                                         *)
(* The watcher polls the selected specification behind a cache keyed by    *)
(* its file's time and length; every write of a file gives it a time of    *)
(* its own.  The screen shows the oldest open question, the editor         *)
(* remembers the question a draft was started under, and HQ takes typed    *)
(* lines from a channel.  Meanwhile agents ask and sessions edit.          *)
(***************************************************************************)
EXTENDS Naturals, Sequences, FiniteSets, FiniteSetsExt, SequencesExt

CONSTANTS Specs,      \* paths of specifications
          Tasks,
          Bounds,     \* bounds of a behaviour: edits of files and selections,
                      \* questions asked, lines typed
          None

VARIABLES bound,      \* the bounds of this behaviour
          selection,  \* project_runtime_state.selected_spec
          files,      \* path |-> the write that made the file, or None
          edits,      \* the number of the next write
          watcher,    \* the polling task with its SelectedDisplayCache
          sent,       \* the watch channel: its value, and whether it was seen
          tasks,      \* the questions: number, order and answer flag
          app,        \* App: the shown status, question and conversation, the draft
          inputs,     \* the channel of HqInput
          hq,         \* the question HQ has selected for an input
          answers     \* every answer recorded, with what was on the screen

watching == <<selection, files, edits, watcher, sent>>
answering == <<tasks, inputs, hq, answers>>
vars == <<bound, watching, answering, app>>

Nothing == [name |-> None, milestones |-> None]
NoDraft == [text |-> None, target |-> None, shown |-> None, saved |-> None]
Unasked == [question |-> None, order |-> None, answered |-> FALSE]

Init ==
  /\ bound \in Bounds
  /\ selection = None /\ edits = 1
  /\ files = [p \in Specs |-> None]
  /\ watcher = [pc |-> "sleep", selection |-> None, read |-> None, key |-> None, value |-> Nothing]
  /\ sent = [value |-> Nothing, seen |-> TRUE]
  /\ tasks = [t \in Tasks |-> Unasked]
  /\ app = [status |-> Nothing, question |-> None, view |-> None, draft |-> NoDraft]
  /\ inputs = << >> /\ hq = None /\ answers = << >>

-----------------------------------------------------------------------------
(* Specifications and the watcher.                                         *)

(* write_project_selection, by /spec, /milestones and /reset-spec.         *)
Select(p) ==
  /\ edits <= bound.edits /\ p # selection
  /\ selection' = p /\ edits' = edits + 1
  /\ UNCHANGED <<files, watcher, sent, answering, app>>

(* A session, an approval or a person writes or removes a specification.   *)
EditSpec(p) ==
  /\ edits <= bound.edits
  /\ \E written \in {edits, None} : files' = [files EXCEPT ![p] = written]
  /\ edits' = edits + 1
  /\ UNCHANGED <<selection, watcher, sent, answering, app>>

(* selected_spec_fingerprint: the time and length of the file, if there.   *)
Fingerprint(p) == IF p = None THEN None ELSE files[p]


Key(p) == [spec |-> p, fingerprint |-> Fingerprint(p)]

(* read_project_selection, which gives none when the read fails.           *)
ReadSelection ==
  /\ watcher.pc = "sleep"
  /\ \E p \in {selection, None} : watcher' = [watcher EXCEPT !.pc = "stale", !.selection = p]
  /\ UNCHANGED <<selection, files, edits, sent, answering, app>>

(* is_stale.                                                               *)
IsStale ==
  /\ watcher.pc = "stale"
  /\ watcher' = [watcher EXCEPT !.pc = IF watcher.key # Key(watcher.selection) THEN "get" ELSE "sleep"]
  /\ UNCHANGED <<selection, files, edits, sent, answering, app>>

(* selected_spec_display: a specification that cannot be loaded has no      *)
(* milestones.                                                             *)
Display(p, loaded) ==
  [name |-> p, milestones |-> IF p # None /\ loaded THEN files[p] ELSE None]

Sent(value) == sent' = [value |-> value, seen |-> FALSE]

(* get, first half: the key, taken again.  The same key once more sends     *)
(* the value that is there.                                                *)
GetKey ==
  /\ watcher.pc = "get"
  /\ IF Key(watcher.selection) = watcher.key
     THEN watcher' = [watcher EXCEPT !.pc = "sleep"] /\ Sent(watcher.value)
     ELSE watcher' = [watcher EXCEPT !.pc = "load", !.read = Key(watcher.selection)]
          /\ UNCHANGED sent
  /\ UNCHANGED <<selection, files, edits, answering, app>>

(* get, second half: the value is loaded and kept under the earlier key.   *)
GetValue ==
  /\ watcher.pc = "load"
  /\ \E loaded \in BOOLEAN : \E value \in {Display(watcher.selection, loaded)} :
       /\ watcher' = [watcher EXCEPT !.pc = "sleep", !.key = watcher.read, !.read = None, !.value = value]
       /\ Sent(value)
  /\ UNCHANGED <<selection, files, edits, answering, app>>

-----------------------------------------------------------------------------
(* Questions and the screen.                                               *)

Open(t) == tasks[t].question # None /\ ~tasks[t].answered

(* list_human_questions, oldest first.                                     *)
Questions ==
  SetToSortSeq({t \in Tasks : Open(t)}, LAMBDA s, t : tasks[s].order < tasks[t].order)

Asked == Max({0} \cup {answers[i].question : i \in DOMAIN answers}
                 \cup {tasks[t].question : t \in {s \in Tasks : tasks[s].question # None}})

(* An agent asks: task_human_question_in_transaction.                      *)
Ask(t) ==
  /\ tasks[t].question = None /\ Asked < bound.asked
  /\ tasks' = [tasks EXCEPT ![t] = [question |-> Asked + 1, order |-> Asked + 1, answered |-> FALSE]]
  /\ UNCHANGED <<watching, inputs, hq, answers, app>>

(* The agent receives its answer: task_restore_human_in_transaction.       *)
Restore(t) ==
  /\ tasks[t].question # None /\ tasks[t].answered
  /\ tasks' = [tasks EXCEPT ![t] = Unasked]
  /\ UNCHANGED <<watching, inputs, hq, answers, app>>

(* refresh_dashboard_snapshot: the first question, or the first of the task *)
(* whose conversation is open.                                             *)
Refreshed(a) ==
  LET wanted == SelectSeq(Questions, LAMBDA t : a.view \in {None, t})
  IN [a EXCEPT !.question =
        IF wanted = << >> THEN None
        ELSE [task |-> Head(wanted), question |-> tasks[Head(wanted)].question]]

(* The tick of the screen.                                                 *)
Tick ==
  /\ app' = Refreshed(app)
  /\ UNCHANGED <<watching, answering>>

(* state_rx.changed: the watched state is taken over, and the rest is read *)
(* again when the status changed (status_dashboard_changed), or a second   *)
(* after the last time.                                                    *)
Changed ==
  /\ ~sent.seen
  /\ sent' = [sent EXCEPT !.seen = TRUE]
  /\ \E shown \in {[app EXCEPT !.status = sent.value]} :
       app' \in {Refreshed(shown)} \cup (IF shown = app THEN {app} ELSE {})
  /\ UNCHANGED <<selection, files, edits, watcher, answering>>

(* NanoOpen and NanoClose: the conversation of a task is shown, or closed. *)
ShowView(t) ==
  /\ app' = [app EXCEPT !.view = IF @ = None THEN t ELSE None]
  /\ UNCHANGED <<watching, answering>>

-----------------------------------------------------------------------------
(* The editor.  What a draft answers is settled by its first character.    *)

(* Lines sent that HQ has not dropped.                                     *)
Typed == Len(inputs) + Len(answers) + (IF hq = None THEN 0 ELSE 1)

Draft(d) == app' = [app EXCEPT !.draft = d] /\ UNCHANGED <<watching, answering>>

(* answering_question_task_id.                                             *)
Started(text) ==
  [NoDraft EXCEPT !.text = text, !.shown = app.question,
                  !.target = IF app.question = None THEN None ELSE app.question.task]

(* insert_char and insert_newline into an empty editor; a slash begins a    *)
(* command.                                                                *)
InsertChar ==
  /\ app.draft.text = None /\ Typed < bound.typed
  /\ Draft(Started("text")) \/ Draft([NoDraft EXCEPT !.text = "command"])

(* delete_before_cursor and delete_after_cursor, the last character.       *)
DeleteAll == app.draft.text # None /\ Draft(NoDraft)

(* history_up: a recalled line replaces the draft, which keeps its target. *)
HistoryUp(text) ==
  /\ app.draft.saved = None /\ Typed < bound.typed
  /\ IF app.draft.text = None THEN Draft([Started(text) EXCEPT !.saved = "empty"])
     ELSE Draft([app.draft EXCEPT !.text = text, !.saved = app.draft.text])

(* history_down past the newest line.                                      *)
HistoryDown ==
  /\ app.draft.saved # None
  /\ IF app.draft.saved = "empty" THEN Draft(NoDraft)
     ELSE Draft([app.draft EXCEPT !.text = app.draft.saved, !.saved = None])

MutTarget(draft) == IF app.question = None THEN None ELSE app.question.task

(* The target an input is sent with: none for a command.                   *)
Target(draft) == IF draft.text = "command" THEN None ELSE draft.target

(* submit_input.                                                           *)
SubmitInput ==
  /\ app.draft.text # None
  /\ inputs' = Append(inputs, [target |-> Target(app.draft), shown |-> app.draft.shown])
  /\ app' = [app EXCEPT !.draft = NoDraft]
  /\ UNCHANGED <<watching, tasks, hq, answers>>

-----------------------------------------------------------------------------
(* HQ takes an input (dispatch_with_human_question_target).                *)

(* A line without a target is a command or goes to the conversation; with  *)
(* one, select_human_question looks for the question of that task.         *)
Dispatch ==
  /\ hq = None /\ inputs # << >>
  /\ LET input == Head(inputs)
     IN hq' = IF input.target # None /\ Open(input.target) THEN input ELSE None
  /\ inputs' = Tail(inputs)
  /\ UNCHANGED <<watching, tasks, answers, app>>

(* record_scoped_human_answer: refused when the task no longer waits, and  *)
(* taken back when the answer cannot be written.                           *)
RecordAnswer ==
  /\ hq # None /\ hq' = None
  /\ LET t == hq.target
     IN IF tasks[t].question = None THEN UNCHANGED <<tasks, answers>>
        ELSE \/ /\ tasks' = [tasks EXCEPT ![t] = [@ EXCEPT !.answered = TRUE]]
                /\ answers' = Append(answers, [task |-> t, question |-> tasks[t].question,
                                               shown |-> hq.shown])
             \/ UNCHANGED <<tasks, answers>>
  /\ UNCHANGED <<watching, inputs, app>>

-----------------------------------------------------------------------------
Watch == ReadSelection \/ IsStale \/ GetKey \/ GetValue

Next ==
  \/ Watch \/ \E p \in Specs \cup {None} : Select(p)
  \/ \E p \in Specs : EditSpec(p)
  \/ Tick \/ Changed \/ \E t \in Tasks : ShowView(t)
  \/ \E t \in Tasks : Ask(t) \/ Restore(t)
  \/ InsertChar \/ DeleteAll \/ HistoryDown \/ \E text \in {"text", "command"} : HistoryUp(text)
  \/ SubmitInput \/ Dispatch \/ RecordAnswer

Spec == Init /\ [][Next /\ UNCHANGED bound]_vars

-----------------------------------------------------------------------------
(* The cache of the watcher never hides an edit: while its key is that of   *)
(* the selected file as it now is, its value was loaded from that file as  *)
(* it now is, or could not be loaded, and the screen shows the last value  *)
(* the watcher sent once it has taken it (SelectedDisplayCache::get, the   *)
(* changed branch of the screen).                                          *)
CacheIsCurrent ==
  /\ watcher.key = Key(selection) /\ Fingerprint(selection) # None =>
       /\ watcher.value.name = selection
       /\ watcher.value.milestones \in {files[selection], None}
  /\ sent.seen /\ watcher.pc = "sleep" => app.status = watcher.value

(* An answer is recorded for the task whose question was on the screen      *)
(* when it was begun, and for that very question unless it was answered    *)
(* before, however the screen, the conversation and the questions change   *)
(* while it is typed and sent (answering_question_task_id,                 *)
(* select_human_question).                                                 *)
AnswersReachTheirQuestion ==
  \A i \in DOMAIN answers :
    LET a == answers[i]
    IN /\ a.shown # None /\ a.shown.task = a.task
       /\ \/ a.question = a.shown.question
          \/ \E j \in 1 .. i - 1 : answers[j].task = a.task /\ answers[j].question = a.shown.question
=============================================================================
