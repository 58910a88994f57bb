----------------------------- MODULE ProjectFiles ------------------------------
(***************************************************************************)
(* The files of a project and the rows that name them: task artifacts,      *)
(* specifications, archives and what is left of the layout before SQLite    *)
(* (src/src/project.rs, project/registry.rs, project/registry/artifacts.rs, *)
(* project/archive.rs, project/database.rs, hq/context.rs,                  *)
(* hq/context/specs.rs, server/tools/create_spec.rs, enqueue_task.rs,       *)
(* archive_spec.rs).                                                       *)
(*                                                                         *)
(* Every process makes one call, in the steps between which others run: a  *)
(* transaction, or one file.  A process may stop for good at any step, and  *)
(* a file operation or a commit may fail.  A task file holds the text of   *)
(* the call that wrote it.  The path of a row is Checkout, or the archive   *)
(* directory the file was copied to.                                       *)
(***************************************************************************)
EXTENDS SpecDocs

CONSTANTS Procs,
          Ids,          \* task numbers, 1 .. n
          SpecPaths,    \* 1 .. n: the names create_unique_spec_file tries in order
          ArchiveDirs,  \* 1 .. n: the names unique_spec_archive_dir tries in order
          Programs,     \* what there is at first, and what every process calls
          Checkout,     \* the path of a task that is not archived
          Original, Template, \* texts: of the tasks there are, of a cleared TASK.md
          None

VARIABLES calls,        \* what every process calls
          pc, local,    \* where it is, and its local variables
          db,           \* tasks, spec_archives and project_runtime_state
          fs,           \* task files, run directories, specifications, archives
          old,          \* STATE.json, TASK.md, runtime_metadata; active: a task was
          troubles,     \* how many more crashes and failures there may be
          chosen        \* history: the archive directories chosen

vars == <<calls, pc, local, db, fs, old, troubles, chosen>>

Terminal == {"Reset", "Complete", "Failed"}
Resettable == {"Pending", "Failed"}
Final == {"refused", "failed", "done", "crashed", "stopped"}

Row(status, path, spec, milestone) ==
  [status |-> status, path |-> path, spec |-> spec, milestone |-> milestone]

Init ==
  \E program \in Programs :
    /\ calls = program.calls
    /\ pc = [p \in Procs |-> program.calls[p].op]
    /\ local = [p \in Procs |-> None]
    /\ db = [tasks |-> program.tasks, archived |-> << >>,
             selected |-> program.selected, lastSpec |-> None, lastArchive |-> None]
    /\ fs = [taskFiles |-> [i \in Ids |-> IF program.tasks[i] = None THEN None ELSE Original],
             runDirs |-> {i \in Ids : program.tasks[i] # None},
             specs |-> program.specs,
             archives |-> [d \in ArchiveDirs |-> None]]
    /\ old = program.old
    /\ troubles = program.troubles
    /\ chosen = << >>

At(p, label) == pc[p] = label
Go(p, label) == pc' = [pc EXCEPT ![p] = label]
Set(p, value) == local' = [local EXCEPT ![p] = value]
Trouble == troubles > 0 /\ troubles' = troubles - 1

-----------------------------------------------------------------------------
(* The tables.  Opening the database brings in the metadata of the older    *)
(* table where project_runtime_state has none (initialize_schema,           *)
(* migrate_legacy_runtime_metadata), whoever opens it and as often.         *)
Opened ==
  [db EXCEPT !.selected = IF @ = None THEN old.selected ELSE @,
             !.lastSpec = IF @ = None THEN old.lastSpec ELSE @]

Rows == {i \in Ids : db.tasks[i] # None}

(* list_tasks_for_spec.                                                    *)
TasksOf(s) == {i \in Rows : db.tasks[i].spec = s}

(* find_non_terminal_task_by_origin, and the query of finalize.            *)
Duplicate(s, m, except) ==
  {i \in TasksOf(s) \ except : db.tasks[i].milestone = m /\ db.tasks[i].status \notin Terminal}

(* upsert_task, by record_task_status_on_connection: the status and the    *)
(* path are those given, an origin that is not given stays.                *)
UpsertTask(tables, i, status, path, s, m) ==
  [tables EXCEPT !.tasks[i] =
     IF @ = None THEN Row(status, path, s, m)
     ELSE Row(status, path, IF s = None THEN @.spec ELSE s, IF m = None THEN @.milestone ELSE m)]

-----------------------------------------------------------------------------
(* enqueue_task and create_pending_task_artifact.                          *)

(* run: the origin has no live task.                                       *)
CheckOrigin(p) ==
  /\ At(p, "enqueue")
  /\ Go(p, IF calls[p].spec # None /\ Duplicate(calls[p].spec, calls[p].milestone, {}) # {}
           THEN "refused" ELSE "count")
  /\ db' = Opened
  /\ UNCHANGED <<calls, local, fs, old, troubles, chosen>>

(* reserve_task_artifact: the files are counted before the transaction.    *)
CountFiles(p) ==
  /\ At(p, "count")
  /\ Set(p, Max({0} \cup {i \in Ids : fs.taskFiles[i] # None}))
  /\ Go(p, "reserve")
  /\ UNCHANGED <<calls, db, fs, old, troubles, chosen>>

(* The transaction of reserve_task_artifact.                               *)
Reserve(p) ==
  /\ At(p, "reserve")
  /\ \E i \in {1 + Max({local[p]} \cup Rows)} :
       /\ db' = [Opened EXCEPT !.tasks[i] = Row("Unknown", Checkout, None, None)]
       /\ Set(p, i)
  /\ Go(p, "write")
  /\ UNCHANGED <<calls, fs, old, troubles, chosen>>

(* A file operation of create_pending_task_artifact: done, or failed and   *)
(* the reservation discarded.                                              *)
Creating(p, label, done, next) ==
  /\ At(p, label)
  /\ \/ /\ fs' = done
        /\ Go(p, next)
        /\ UNCHANGED troubles
     \/ /\ Trouble
        /\ Go(p, "discard")
        /\ UNCHANGED fs
  /\ UNCHANGED <<calls, local, db, old, chosen>>

WriteTask(p) == Creating(p, "write", [fs EXCEPT !.taskFiles[local[p]] = p], "mkdir")
CreateRunDir(p) == Creating(p, "mkdir", [fs EXCEPT !.runDirs = @ \cup {local[p]}], "finalize")

MutCanFinalize(p) == db.tasks[local[p]].status = "Unknown"

(* finalize_task_artifact_reservation: nobody else has enqueued the        *)
(* milestone meanwhile, and the reservation is still there.                *)
CanFinalize(p) ==
  /\ calls[p].spec # None => Duplicate(calls[p].spec, calls[p].milestone, {local[p]}) = {}
  /\ db.tasks[local[p]].status = "Unknown"

Finalize(p) ==
  /\ At(p, "finalize")
  /\ IF CanFinalize(p)
     THEN /\ db' = [Opened EXCEPT !.tasks[local[p]] =
                      Row("Pending", @.path, calls[p].spec, calls[p].milestone)]
          /\ Go(p, "done")
     ELSE db' = Opened /\ Go(p, "discard")
  /\ UNCHANGED <<calls, local, fs, old, troubles, chosen>>

MutDiscardFile(p) ==
  /\ At(p, "discard")
  /\ db' = [db EXCEPT !.tasks[local[p]] = None]
  /\ Go(p, "discardDir")
  /\ UNCHANGED <<calls, local, fs, old, troubles, chosen>>

(* discard_task_artifact_reservation: the row goes last.                   *)
DiscardFile(p) ==
  /\ At(p, "discard")
  /\ fs' = [fs EXCEPT !.taskFiles[local[p]] = None]
  /\ Go(p, "discardDir")
  /\ UNCHANGED <<calls, local, db, old, troubles, chosen>>

DiscardRunDir(p) ==
  /\ At(p, "discardDir")
  /\ fs' = [fs EXCEPT !.runDirs = @ \ {local[p]}]
  /\ Go(p, "discardRow")
  /\ UNCHANGED <<calls, local, db, old, troubles, chosen>>

DiscardRow(p) ==
  /\ At(p, "discardRow")
  /\ db' = [Opened EXCEPT !.tasks[local[p]] =
               IF local[p] \in Rows /\ db.tasks[local[p]].status = "Unknown" THEN None ELSE @]
  /\ Go(p, "failed")
  /\ UNCHANGED <<calls, local, fs, old, troubles, chosen>>

-----------------------------------------------------------------------------
(* The end of a task, as far as it is about the files.                     *)

MutReadMilestones(p) ==
  /\ At(p, "approve")
  /\ \E i \in {j \in Rows : db.tasks[j].status = "Pending"} :
       Set(p, [id |-> i, row |-> db.tasks[i],
               doc |-> IF db.tasks[i].spec = None THEN None ELSE fs.specs[db.tasks[i].spec]])
  /\ Go(p, "mark")
  /\ UNCHANGED <<calls, db, fs, old, troubles, chosen>>

(* approve: the milestone is marked as done in the specification, read and *)
(* written under the approval lock, and then the task is complete.         *)
ReadMilestones(p) ==
  /\ At(p, "approve")
  /\ \A q \in Procs : pc[q] \notin {"mark", "complete"}
  /\ \E i \in {j \in Rows : db.tasks[j].status = "Pending"} :
       Set(p, [id |-> i, row |-> db.tasks[i],
               doc |-> IF db.tasks[i].spec = None THEN None ELSE fs.specs[db.tasks[i].spec]])
  /\ Go(p, "mark")
  /\ UNCHANGED <<calls, db, fs, old, troubles, chosen>>

WriteMilestone(p) ==
  /\ At(p, "mark")
  /\ LET row == local[p].row
         marked == CompleteMilestone(local[p].doc, row.milestone)
     IN fs' = IF local[p].doc = None \/ marked = local[p].doc THEN fs
              ELSE [fs EXCEPT !.specs[row.spec] = marked]
  /\ Go(p, "complete")
  /\ UNCHANGED <<calls, local, db, old, troubles, chosen>>

RecordComplete(p) ==
  /\ At(p, "complete")
  /\ db' = UpsertTask(Opened, local[p].id, "Complete", local[p].row.path, None, None)
  /\ Go(p, "done")
  /\ UNCHANGED <<calls, local, fs, old, troubles, chosen>>

(* A task that has used up its retries.                                    *)
RecordFailed(p) ==
  /\ At(p, "fail")
  /\ \E i \in {j \in Rows : db.tasks[j].status = "Pending"} :
       db' = UpsertTask(Opened, i, "Failed", db.tasks[i].path, None, None)
  /\ Go(p, "done")
  /\ UNCHANGED <<calls, local, fs, old, troubles, chosen>>

-----------------------------------------------------------------------------
(* create_spec.                                                            *)

ClearLastSpec(p) ==
  /\ At(p, "createSpec")
  /\ db' = [Opened EXCEPT !.lastSpec = None]
  /\ Go(p, "newFile")
  /\ UNCHANGED <<calls, local, fs, old, troubles, chosen>>

MutCreateSpecFile(p) ==
  /\ At(p, "newFile")
  /\ \E s \in {Min({t \in SpecPaths : fs.specs[t] = None})} :
       /\ fs' = [fs EXCEPT !.specs[s] = << >>]
       /\ db' = [Opened EXCEPT !.lastSpec = s]
       /\ Set(p, s)
  /\ Go(p, "writeSpec")
  /\ UNCHANGED <<calls, old, troubles, chosen>>

(* create_unique_spec_file: the first name that is free, then the text.    *)
CreateSpecFile(p) ==
  /\ At(p, "newFile")
  /\ \E s \in {Min({t \in SpecPaths : fs.specs[t] = None})} :
       /\ fs' = [fs EXCEPT !.specs[s] = << >>]
       /\ Set(p, s)
  /\ Go(p, "writeSpec")
  /\ UNCHANGED <<calls, db, old, troubles, chosen>>

WriteSpecFile(p) ==
  /\ At(p, "writeSpec")
  /\ fs' = [fs EXCEPT !.specs[local[p]] = calls[p].doc]
  /\ Go(p, "announce")
  /\ UNCHANGED <<calls, local, db, old, troubles, chosen>>

WriteLastSpec(p) ==
  /\ At(p, "announce")
  /\ db' = [Opened EXCEPT !.lastSpec = local[p]]
  /\ Go(p, "selectSpec")
  /\ UNCHANGED <<calls, local, fs, old, troubles, chosen>>

SelectSpec(p) ==
  /\ At(p, "selectSpec")
  /\ db' = [Opened EXCEPT !.selected = local[p]]
  /\ Go(p, "done")
  /\ UNCHANGED <<calls, local, fs, old, troubles, chosen>>

(* reset_spec_selection, and the choice made by milestones.                *)
ResetSelection(p) ==
  /\ At(p, "resetSpec")
  /\ db' = IF Opened.selected = None THEN Opened ELSE [Opened EXCEPT !.selected = None]
  /\ Go(p, "done")
  /\ UNCHANGED <<calls, local, fs, old, troubles, chosen>>

ChooseSpec(p) ==
  /\ At(p, "milestones")
  /\ \E s \in {t \in SpecPaths : fs.specs[t] # None} :
       IF MilestoneLines(fs.specs[s]) = {} THEN db' = db /\ Go(p, "refused")
       ELSE db' = [Opened EXCEPT !.selected = s] /\ Go(p, "done")
  /\ UNCHANGED <<calls, local, fs, old, troubles, chosen>>

(* task: the first milestone that is ready in the selected specification    *)
(* is what the supervisor enqueues, or a task of its own where none is      *)
(* selected (selected_milestone_for_task).                                 *)
PlanTask(p) ==
  /\ At(p, "task")
  /\ LET s == Opened.selected
         live == {db.tasks[i].milestone :
                    i \in {j \in TasksOf(s) : db.tasks[j].status \notin Terminal}}
         ready == Eligible(fs.specs[s], live)
     IN IF s # None /\ (IF fs.specs[s] = None THEN TRUE ELSE ready = << >>)
        THEN Go(p, "refused") /\ UNCHANGED calls
        ELSE /\ calls' = [calls EXCEPT ![p] = [@ EXCEPT !.spec = s,
                              !.milestone = IF s = None THEN None ELSE Head(ready).id]]
             /\ Go(p, "enqueue")
  /\ db' = Opened
  /\ UNCHANGED <<local, fs, old, troubles, chosen>>

-----------------------------------------------------------------------------
(* archive_completed_spec.                                                 *)

Missing(s) == fs.specs[s] = None

(* The specification is there and all its milestones are done.             *)
LoadSpec(p) ==
  /\ At(p, "archive")
  /\ Go(p, IF Missing(calls[p].spec) THEN "refused"
           ELSE IF Complete(fs.specs[calls[p].spec]) THEN "list" ELSE "refused")
  /\ UNCHANGED <<calls, local, db, fs, old, troubles, chosen>>

AllTerminal(ids) == ids # {} /\ \A i \in ids : db.tasks[i].status \in Terminal

(* It has tasks and they are terminal.  These rows are what is archived.   *)
ListTasks(p) ==
  /\ At(p, "list")
  /\ IF AllTerminal(TasksOf(calls[p].spec))
     THEN /\ Set(p, [rows |-> [i \in TasksOf(calls[p].spec) |-> db.tasks[i]],
                     doc |-> None, dir |-> None, todo |-> {}])
          /\ Go(p, "artifacts")
     ELSE Go(p, "refused") /\ UNCHANGED local
  /\ db' = Opened
  /\ UNCHANGED <<calls, fs, old, troubles, chosen>>

(* The tasks of the archive whose artifacts are looked for in the checkout. *)
InCheckout(p) == {i \in DOMAIN local[p].rows : local[p].rows[i].path = Checkout}

(* task_has_checkout_archive_artifacts, and the text of the specification  *)
(* is read for the outcome.                                                *)
CheckArtifacts(p) ==
  /\ At(p, "artifacts")
  /\ IF ~Missing(calls[p].spec) /\ \E i \in InCheckout(p) : fs.taskFiles[i] # None \/ i \in fs.runDirs
     THEN Set(p, [local[p] EXCEPT !.doc = fs.specs[calls[p].spec]]) /\ Go(p, "outcome")
     ELSE Go(p, "refused") /\ UNCHANGED local
  /\ UNCHANGED <<calls, db, fs, old, troubles, chosen>>

WriteOutcome(p) ==
  /\ At(p, "outcome")
  /\ fs' = [fs EXCEPT !.specs[calls[p].spec] = UpsertOutcome(local[p].doc, calls[p].outcome)]
  /\ Go(p, "name")
  /\ UNCHANGED <<calls, local, db, old, troubles, chosen>>

(* touch_current_project and unique_spec_archive_dir: a name that is free.  *)
(* It is made of the specification and the second; no two calls are taken  *)
(* to fall into one second.                                                *)
NameArchive(p) ==
  /\ At(p, "name")
  /\ \E d \in {Min({e \in ArchiveDirs \ Range(chosen) : fs.archives[e] = None})} :
       /\ Set(p, [local[p] EXCEPT !.dir = d, !.todo = DOMAIN local[p].rows])
       /\ chosen' = Append(chosen, d)
  /\ db' = Opened
  /\ Go(p, "stage")
  /\ UNCHANGED <<calls, fs, old, troubles>>

EmptyArchive == [spec |-> None, tasks |-> [i \in Ids |-> None], runs |-> {}]

(* stage_spec_archive_files: the specification and the manifest, then the  *)
(* file and the run directory of one task after another, where they are.   *)
StageSpec(p) ==
  /\ At(p, "stage")
  /\ fs' = [fs EXCEPT !.archives[local[p].dir] =
               [(IF @ = None THEN EmptyArchive ELSE @) EXCEPT !.spec = fs.specs[calls[p].spec]]]
  /\ Go(p, "stageTask")
  /\ UNCHANGED <<calls, local, db, old, troubles, chosen>>

FirstTask(p) == Min(local[p].todo)
Present(p) == local[p].rows[FirstTask(p)].path = Checkout

StageTask(p) ==
  /\ At(p, "stageTask")
  /\ IF local[p].todo = {} THEN Go(p, "commit") /\ UNCHANGED <<fs, troubles>>
     ELSE \/ /\ fs' = IF Present(p) /\ fs.taskFiles[FirstTask(p)] # None
                      THEN [fs EXCEPT !.archives[local[p].dir].tasks[FirstTask(p)] =
                                        fs.taskFiles[FirstTask(p)]]
                      ELSE fs
             /\ Go(p, "stageRun")
             /\ UNCHANGED troubles
          \/ Trouble /\ Go(p, "failed") /\ UNCHANGED fs
  /\ UNCHANGED <<calls, local, db, old, chosen>>

StageRun(p) ==
  /\ At(p, "stageRun")
  /\ fs' = IF Present(p) /\ FirstTask(p) \in fs.runDirs
           THEN [fs EXCEPT !.archives[local[p].dir].runs = @ \cup {FirstTask(p)}] ELSE fs
  /\ Set(p, [local[p] EXCEPT !.todo = @ \ {FirstTask(p)}])
  /\ Go(p, "stageTask")
  /\ UNCHANGED <<calls, db, old, troubles, chosen>>

(* The transaction: the rows whose file was copied point to the copy.      *)
RecordArchive(tables, rows, d) ==
  [tables EXCEPT
     !.tasks = [i \in Ids |-> IF i \in rows /\ fs.archives[d].tasks[i] # None
                              THEN [tables.tasks[i] EXCEPT !.path = d] ELSE tables.tasks[i]],
     !.archived = Append(@, [dir |-> d, tasks |-> rows])]

CommitArchive(p) ==
  /\ At(p, "commit")
  /\ \/ /\ fs.archives[local[p].dir] # None
        /\ db' = RecordArchive(Opened, DOMAIN local[p].rows, local[p].dir)
        /\ Set(p, [local[p] EXCEPT !.todo = DOMAIN local[p].rows])
        /\ Go(p, "cleanTask")
        /\ UNCHANGED troubles
     \/ Trouble /\ Go(p, "drop") /\ UNCHANGED <<db, local>>
  /\ UNCHANGED <<calls, fs, old, chosen>>

DropArchive(p) ==
  /\ At(p, "drop")
  /\ fs' = [fs EXCEPT !.archives[local[p].dir] = None]
  /\ Go(p, "failed")
  /\ UNCHANGED <<calls, local, db, old, troubles, chosen>>

(* cleanup_checkout_archive_artifacts.                                     *)
CleanTask(p) ==
  /\ At(p, "cleanTask")
  /\ IF local[p].todo = {} THEN Go(p, "handoff") /\ UNCHANGED fs
     ELSE /\ fs' = IF Present(p) THEN [fs EXCEPT !.taskFiles[FirstTask(p)] = None] ELSE fs
          /\ Go(p, "cleanRun")
  /\ UNCHANGED <<calls, local, db, old, troubles, chosen>>

CleanRun(p) ==
  /\ At(p, "cleanRun")
  /\ fs' = IF Present(p) THEN [fs EXCEPT !.runDirs = @ \ {FirstTask(p)}] ELSE fs
  /\ Set(p, [local[p] EXCEPT !.todo = @ \ {FirstTask(p)}])
  /\ Go(p, "cleanTask")
  /\ UNCHANGED <<calls, db, old, troubles, chosen>>

HandOffArchive(p) ==
  /\ At(p, "handoff")
  /\ db' = [Opened EXCEPT !.lastArchive = local[p].dir]
  /\ Go(p, "done")
  /\ UNCHANGED <<calls, local, fs, old, troubles, chosen>>

-----------------------------------------------------------------------------
(* The sessions HQ runs: it clears what the session is to hand over, starts *)
(* the agent and looks for it until the agent ends.                        *)

Unarchived(i) == db.tasks[i].path = Checkout /\ (fs.taskFiles[i] # None \/ i \in fs.runDirs)

CompletedSpec(s) == IF s = None THEN FALSE ELSE IF Missing(s) THEN FALSE ELSE Complete(fs.specs[s])

(* selected_spec_archive_prompt and the answer to it.                      *)
OfferArchive(p) ==
  /\ At(p, "spec")
  /\ \E accepted \in BOOLEAN :
       Go(p, IF /\ accepted
                /\ CompletedSpec(Opened.selected)
                /\ MilestoneLines(fs.specs[Opened.selected]) # {}
                /\ AllTerminal(TasksOf(Opened.selected))
                /\ \E i \in TasksOf(Opened.selected) : Unarchived(i)
             THEN "archiveSpec" ELSE "prepare")
  /\ db' = Opened
  /\ UNCHANGED <<calls, local, fs, old, troubles, chosen>>

(* prepare_spec_session_files, and the supervisor is started.              *)
StartSpecSession(p) ==
  /\ At(p, "prepare")
  /\ db' = [Opened EXCEPT !.lastSpec = None]
  /\ Set(p, None)
  /\ pc' = [pc EXCEPT ![p] = "pollSpec", ![calls[p].author] = "createSpec"]
  /\ UNCHANGED <<calls, fs, old, troubles, chosen>>

(* archive_spec: what it checks before it starts the supervisor.           *)
StartArchiveSession(p) ==
  /\ At(p, "archiveSpec")
  /\ LET s == Opened.selected
     IN IF ~CompletedSpec(s) \/ ~AllTerminal(TasksOf(s))
        THEN Go(p, "refused") /\ UNCHANGED <<calls, local>>
        ELSE /\ calls' = [calls EXCEPT ![calls[p].archiver] = [@ EXCEPT !.spec = s]]
             /\ pc' = [pc EXCEPT ![p] = "pollArchive", ![calls[p].archiver] = "archive"]
             /\ Set(p, None)
  /\ db' = [Opened EXCEPT !.lastArchive = None]
  /\ UNCHANGED <<fs, old, troubles, chosen>>

(* One round of the loop.  A path that is there ends the session of an      *)
(* external agent: it is waited for, then stopped wherever it is; a native *)
(* one is left to end by itself.  The end of the agent ends the loop, with *)
(* a last look, or with an error when the agent was lost.                  *)
Poll(p, label, agent, path, next) ==
  /\ At(p, label)
  /\ \/ path # None /\ pc' = [pc EXCEPT ![p] = next,
                                       ![agent] = IF @ \in Final THEN @ ELSE "stopped"]
                     /\ Set(p, path)
     \/ path # None /\ local[p] = None /\ Set(p, path) /\ UNCHANGED pc
     \/ pc[agent] = "crashed" /\ Go(p, "failed") /\ UNCHANGED local
     \/ /\ pc[agent] \in Final \ {"crashed"}
        /\ Set(p, IF local[p] = None THEN path ELSE local[p])
        /\ Go(p, IF local'[p] = None THEN "refused" ELSE next)
  /\ db' = Opened
  /\ UNCHANGED <<calls, fs, old, troubles, chosen>>

PollSpec(p) == Poll(p, "pollSpec", calls[p].author, Opened.lastSpec, "done")
PollArchive(p) ==
  Poll(p, "pollArchive", calls[p].archiver, Opened.lastArchive,
       IF calls[p].op = "spec" THEN "prepare" ELSE "done")

-----------------------------------------------------------------------------
(* do_reset.                                                               *)

ListResettable(p) ==
  /\ At(p, "reset")
  /\ \E ids \in {{i \in Rows : db.tasks[i].status \in Resettable}} :
       Set(p, [rows |-> [i \in ids |-> db.tasks[i]], todo |-> ids])
  /\ db' = Opened
  /\ Go(p, "clearFile")
  /\ UNCHANGED <<calls, fs, old, troubles, chosen>>

(* clear_scoped_task_artifacts: the file that the row named, wherever it   *)
(* is, and the run directory in the checkout.                              *)
ClearTaskFile(p) ==
  /\ At(p, "clearFile")
  /\ IF local[p].todo = {} THEN Go(p, "done") /\ UNCHANGED fs
     ELSE LET i == FirstTask(p)
              d == local[p].rows[i].path
          IN /\ fs' = IF d = Checkout THEN [fs EXCEPT !.taskFiles[i] = None]
                      ELSE IF fs.archives[d] = None THEN fs
                      ELSE [fs EXCEPT !.archives[d] = [@ EXCEPT !.tasks[i] = None]]
             /\ Go(p, "clearDir")
  /\ UNCHANGED <<calls, local, db, old, troubles, chosen>>

ClearRunDir(p) ==
  /\ At(p, "clearDir")
  /\ fs' = [fs EXCEPT !.runDirs = @ \ {FirstTask(p)}]
  /\ Go(p, "markReset")
  /\ UNCHANGED <<calls, local, db, old, troubles, chosen>>

(* The row is written as it was listed, whatever became of it.             *)
RecordReset(p) ==
  /\ At(p, "markReset")
  /\ \E i \in {FirstTask(p)} :
       LET row == local[p].rows[i]
       IN /\ db' = UpsertTask(Opened, i, "Reset", row.path, row.spec, row.milestone)
          /\ Set(p, [local[p] EXCEPT !.todo = @ \ {i}])
  /\ Go(p, "clearFile")
  /\ UNCHANGED <<calls, fs, old, troubles, chosen>>

-----------------------------------------------------------------------------
(* migrate_current_project.                                                *)

Legacy == 1   \* t-001

(* read_legacy_state and migrate_legacy_project_selection.                 *)
MigrateSelection(p) ==
  /\ At(p, "migrate")
  /\ Set(p, old.state)
  /\ db' = IF old.state = None THEN Opened
           ELSE IF old.state.selected = None THEN Opened
           ELSE [Opened EXCEPT !.selected = old.state.selected]
  /\ Go(p, IF old.state = None THEN "template" ELSE "copyTask")
  /\ UNCHANGED <<calls, fs, old, troubles, chosen>>

MutCopyTask(p) ==
  /\ At(p, "copyTask")
  /\ fs' = [fs EXCEPT !.taskFiles[Legacy] = old.task]
  /\ Go(p, "template")
  /\ UNCHANGED <<calls, local, db, old, troubles, chosen>>

(* copy_legacy_artifacts: the text goes to the file of t-001 unless there   *)
(* is one (copy_if_nonempty), and TASK.md becomes a template again.        *)
CopyTask(p) ==
  /\ At(p, "copyTask")
  /\ fs' = IF fs.taskFiles[Legacy] # None THEN fs
           ELSE [fs EXCEPT !.taskFiles[Legacy] = old.task]
  /\ Go(p, "template")
  /\ UNCHANGED <<calls, local, db, old, troubles, chosen>>

RestoreTemplate(p) ==
  /\ At(p, "template")
  /\ old' = [old EXCEPT !.task = Template]
  /\ Go(p, IF local[p] = None THEN "retire" ELSE "legacyDir")
  /\ UNCHANGED <<calls, local, db, fs, troubles, chosen>>

CopyRunFiles(p) ==
  /\ At(p, "legacyDir")
  /\ fs' = [fs EXCEPT !.runDirs = @ \cup {Legacy}]
  /\ Go(p, "legacyRow")
  /\ UNCHANGED <<calls, local, db, old, troubles, chosen>>

(* migrate_legacy_active_task.                                             *)
MigrateTask(p) ==
  /\ At(p, "legacyRow")
  /\ db' = UpsertTask(Opened, Legacy, "Pending", Checkout, local[p].spec, local[p].milestone)
  /\ Go(p, "retire")
  /\ UNCHANGED <<calls, local, fs, old, troubles, chosen>>

(* retire_legacy_current_task_row: the row `current` becomes t-001, unless *)
(* that is there, and is reset.                                            *)
RetireCurrent(p) ==
  /\ At(p, "retire")
  /\ db' = IF old.current = "Pending" /\ Legacy \notin Rows
           THEN [Opened EXCEPT !.tasks[Legacy] = Row("Pending", Checkout, None, None)]
           ELSE Opened
  /\ old' = [old EXCEPT !.current = IF @ = None THEN None ELSE "Reset"]
  /\ Go(p, "removeState")
  /\ UNCHANGED <<calls, local, fs, troubles, chosen>>

(* remove_legacy_state_files.                                              *)
RemoveState(p) ==
  /\ At(p, "removeState")
  /\ old' = [old EXCEPT !.state = None]
  /\ Go(p, "done")
  /\ UNCHANGED <<calls, local, db, fs, troubles, chosen>>

-----------------------------------------------------------------------------
(* A call that is made once others are over.                               *)
Start(p) ==
  /\ At(p, "later")
  /\ \A q \in calls[p].after : pc[q] \in Final
  /\ Go(p, calls[p].starts)
  /\ UNCHANGED <<calls, local, db, fs, old, troubles, chosen>>

(* A process is lost, between two steps.                                   *)
Crash(p) ==
  /\ pc[p] \notin Final \cup {"later", "unborn", calls[p].op}
  /\ Trouble
  /\ Go(p, "crashed")
  /\ UNCHANGED <<calls, local, db, fs, old, chosen>>

Enqueueing(p) ==
  \/ CheckOrigin(p) \/ CountFiles(p) \/ Reserve(p) \/ WriteTask(p) \/ CreateRunDir(p)
  \/ Finalize(p) \/ DiscardFile(p) \/ DiscardRunDir(p) \/ DiscardRow(p)

Specifying(p) ==
  \/ ClearLastSpec(p) \/ CreateSpecFile(p) \/ WriteSpecFile(p) \/ WriteLastSpec(p)
  \/ SelectSpec(p) \/ ResetSelection(p) \/ ChooseSpec(p) \/ PlanTask(p)

Archiving(p) ==
  \/ LoadSpec(p) \/ ListTasks(p) \/ CheckArtifacts(p) \/ WriteOutcome(p) \/ NameArchive(p)
  \/ StageSpec(p) \/ StageTask(p) \/ StageRun(p) \/ CommitArchive(p) \/ DropArchive(p)
  \/ CleanTask(p) \/ CleanRun(p) \/ HandOffArchive(p)

Ending(p) ==
  \/ ReadMilestones(p) \/ WriteMilestone(p) \/ RecordComplete(p) \/ RecordFailed(p)
  \/ ListResettable(p) \/ ClearTaskFile(p) \/ ClearRunDir(p) \/ RecordReset(p)

Migrating(p) ==
  \/ MigrateSelection(p) \/ CopyTask(p) \/ RestoreTemplate(p) \/ CopyRunFiles(p)
  \/ MigrateTask(p) \/ RetireCurrent(p) \/ RemoveState(p)

HqSession(p) ==
  OfferArchive(p) \/ StartSpecSession(p) \/ StartArchiveSession(p) \/ PollSpec(p) \/ PollArchive(p)

Next ==
  \E p \in Procs : \/ Enqueueing(p) \/ Specifying(p) \/ Archiving(p) \/ Ending(p)
                   \/ Migrating(p) \/ HqSession(p) \/ Start(p) \/ Crash(p)

Spec == Init /\ [][Next]_vars

-----------------------------------------------------------------------------
(* Two calls that enqueue the same milestone, in whatever order their       *)
(* steps come, leave one live task for it: the second look in              *)
(* finalize_task_artifact_reservation, in the transaction that makes the   *)
(* task Pending, is what decides.                                          *)
OneTaskPerMilestone ==
  \A i, j \in Rows :
    /\ i # j
    /\ db.tasks[i].milestone # None
    /\ db.tasks[i].spec = db.tasks[j].spec
    /\ db.tasks[i].milestone = db.tasks[j].milestone
    => db.tasks[i].status \in Terminal \/ db.tasks[j].status \in Terminal

(* A process that is about to reset the task has listed it.                *)
BeingReset(i) ==
  \E p \in Procs : pc[p] \in {"clearFile", "clearDir", "markReset"} /\ i \in local[p].todo

LostReset(i) ==
  \E p \in Procs : pc[p] = "crashed" /\ calls[p].op = "reset" /\ local[p] # None

(* A task that can be claimed has its own text, not that of a call that     *)
(* failed, was overtaken or was lost, and a run directory: the number of a *)
(* task is not given out again while files of its former owner are still   *)
(* to be removed (reserve_task_artifact,                                   *)
(* discard_task_artifact_reservation).                                     *)
LiveTasksHaveArtifacts ==
  \A p \in Procs :
    (/\ calls[p].op \in {"enqueue", "task"}
     /\ pc[p] = "done"
     /\ db.tasks[local[p]].status = "Pending"
     /\ ~BeingReset(local[p]) /\ ~LostReset(local[p]))
    => fs.taskFiles[local[p]] = p /\ local[p] \in fs.runDirs

(* What the row of a finished task names is there, and what its run left is *)
(* in the checkout or in an archive, through archiving, its failures and a *)
(* rival archive: the copy is made, then recorded, then the original       *)
(* removed (archive_completed_spec).  The text of the task that a          *)
(* migration brings over is in one of the two files until it is reset,     *)
(* wherever the migration stops and however often it is repeated           *)
(* (copy_legacy_artifacts).                                                *)
WorkIsKept ==
  /\ \A i \in {j \in Rows : db.tasks[j].status = "Complete"} :
       /\ IF db.tasks[i].path = Checkout THEN fs.taskFiles[i] # None
          ELSE IF fs.archives[db.tasks[i].path] = None THEN FALSE
          ELSE fs.archives[db.tasks[i].path].tasks[i] # None
       /\ \/ i \in fs.runDirs
          \/ \E d \in ArchiveDirs : IF fs.archives[d] = None THEN FALSE
                                      ELSE i \in fs.archives[d].runs
  /\ old.active =>
       \/ old.task = Original \/ fs.taskFiles[Legacy] = Original
       \/ \E p \in Procs : calls[p].starts = "reset" /\ local[p] # None

(* The milestone of a task that is recorded as complete is marked in its   *)
(* specification, however approvals of other milestones and archives of    *)
(* the same file interleave (approve, complete_milestone_blocking,         *)
(* upsert_outcome_section): nobody writes back a text it read before.      *)
MilestonesDone ==
  \A i \in Rows :
    (/\ db.tasks[i].status = "Complete" /\ db.tasks[i].milestone # None
     /\ fs.specs[db.tasks[i].spec] # None)
    => \E m \in Range(ParseSpec(fs.specs[db.tasks[i].spec])) :
         m.id = db.tasks[i].milestone /\ m.done

(* What HQ reports at the end of a session is what that session made: a    *)
(* specification with all its text, written by a supervisor that was       *)
(* started then, or an archive with the specification and the files of all *)
(* the tasks that point to it (spec, archive_spec of hq/context/specs.rs). *)
HandoffTrue ==
  \A p \in Procs :
    pc[p] = "done" =>
      /\ calls[p].op = "spec" =>
           \E q \in Procs : calls[q].starts = "createSpec" /\ fs.specs[local[p]] = calls[q].doc
      /\ calls[p].op = "archiveSpec" =>
           /\ fs.archives[local[p]].spec # None
           /\ \A i \in Rows : db.tasks[i].path = local[p] =>
                 fs.archives[local[p]].tasks[i] # None /\ fs.taskFiles[i] = None

(* What an archive holds stays in it.  hq/planning.rs says of the failed    *)
(* attempts of a specification that they are retained in archive history.  *)
ArchivesKept ==
  [][\A k \in Lines(db.archived) :
       \A i \in db.archived[k].tasks :
         fs.archives[db.archived[k].dir].tasks[i] # None
         => fs'.archives[db.archived[k].dir].tasks[i] # None]_vars
=============================================================================
