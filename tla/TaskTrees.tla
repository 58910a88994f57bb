------------------------------ MODULE TaskTrees ------------------------------
(***************************************************************************)
(* The files of tasks: HQ prepares a worktree for each, the Executor works  *)
(* in it, submits a frozen tree or a patch, and approval merges it into the *)
(* project and runs the checks there, while a person goes on editing        *)
(* (src/src/hq/workspace.rs, src/src/project/runs/recovery.rs,              *)
(* src/src/server/tools/submit.rs, approve.rs and approve/integration.rs).  *)
(*                                                                         *)
(* HQ prepares one workspace at a time, and approvals exclude each other    *)
(* (ApprovalLock).  Either process may die between two steps.  Who may      *)
(* work on a task and what its status allows is in NativeSessions and       *)
(* ToolCalls; here a task has the statuses that decide about its files.     *)
(***************************************************************************)
EXTENDS GitTrees

CONSTANTS Tasks,
          Programs  \* what happens: the project at the start and the bounds

VARIABLES program,  \* the member of Programs that is run
          project,  \* the worktree of the project
          task,     \* the rows, workspaces, refs and run directories of tasks
          hq,       \* prepare_executor_workspace
          approval, \* approve::run_for_context
          left,     \* what the bounds still allow
          ghost     \* for the properties: see below

vars == <<program, project, task, hq, approval, left, ghost>>

NewTask ==
  [status |-> "Pending",
   workspace |-> None,   \* worktrees/<task>, None when there is none
   isolated |-> FALSE,   \* the run has a workspace of its own
   metadata |-> None,    \* .baseline-trees/<task>.txt; an empty file is None
   ref |-> None,         \* refs/ferrus/baselines/<task>
   baseline |-> None,    \* FERRUS_BASELINE_TREE of the run
   patch |-> << >>,      \* SUBMISSION.patch
   frozen |-> None,      \* frozen_source_tree of a FrozenSubmitted view
   pin |-> None]         \* refs/ferrus/submitted/<task>

NoPreparation == [pc |-> "idle"]
NoApproval == [pc |-> "idle"]

(* ghost.seed is the worktree of a task as its Executor first saw it,       *)
(* ghost.edited the paths it changed since, ghost.before the project when   *)
(* the running approval took its snapshot, ghost.disturbed whether somebody *)
(* else wrote to the project since, ghost.unsure the approvals whose effect *)
(* is not known.                                                           *)
NoGhost ==
  [seed |-> [t \in Tasks |-> None], edited |-> [t \in Tasks |-> {}],
   before |-> None, disturbed |-> FALSE, ended |-> "none"]

Init ==
  /\ program \in Programs
  /\ project = program.project
  /\ task = [t \in Tasks |-> IF t \in program.tasks THEN NewTask
                             ELSE [NewTask EXCEPT !.status = "Reset"]]
  /\ hq = NoPreparation
  /\ approval = NoApproval
  /\ left = program.bounds
  /\ ghost = NoGhost

Spend(what) == left[what] > 0 /\ left' = [left EXCEPT ![what] = @ - 1]

SetTask(t, row) == task' = [task EXCEPT ![t] = row]

-----------------------------------------------------------------------------
(* hq/workspace.rs.                                                        *)

(* remove_executor_baseline: the ref, then the file.                       *)
RemoveExecutorBaseline(row) == [row EXCEPT !.ref = None, !.metadata = None]

(* cleanup_failed_executor_workspace, and the removal that cleanup after    *)
(* approval and recovery share with it.                                    *)
RemoveWorkspace(row) == RemoveExecutorBaseline([row EXCEPT !.workspace = None])

(* git worktree add: HEAD, detached, or an orphan before the first commit.  *)
WorktreeAdd == [files |-> HeadTree(project), index |-> HeadTree(project), head |-> project.head]

(* apply_canonical_tracked_diff: git diff HEAD of the project, applied to   *)
(* files that are those of HEAD.                                           *)
ApplyTrackedDiff(w) == [w EXCEPT !.files = Diffed(project)]

CopyListed(w, S) == [w EXCEPT !.files = [p \in Paths |-> IF p \in S THEN project.files[p] ELSE @[p]]]

(* copy_canonical_index_files: a file that is staged and not there is       *)
(* passed over.                                                            *)
CopyIndexFiles(w) == CopyListed(w, Cached(project) \cap HasFile(project.files))

(* copy_canonical_untracked_files.                                         *)
CopyUntrackedFiles(w) == CopyListed(w, Others(project))

(* copy_canonical_agent_config_files.                                      *)
CopyAgentConfigs(w) == CopyListed(w, AgentConfigs \cap HasFile(project.files))

(* copy_canonical_ignored_agent_config_files, with git check-ignore: not a  *)
(* path of the index.                                                      *)
CopyIgnoredAgentConfigs(w) ==
  CopyListed(w, (AgentConfigs \cap HasFile(project.files) \cap Ignored(project.files))
                \ Cached(project))

(* The Executor gets its workspace and its baseline.                       *)
Launch(t, row, baseline) ==
  /\ SetTask(t, [row EXCEPT !.status = "Executing", !.isolated = baseline # None,
                            !.baseline = baseline])
  /\ hq' = NoPreparation
  /\ ghost' = IF row.workspace # None /\ ghost.seed[t] = None
              THEN [ghost EXCEPT !.seed[t] = row.workspace] ELSE ghost

(* prepare_executor_workspace where the project is not a Git worktree.      *)
PrepareInPlace(t) ==
  /\ task[t].status = "Pending" /\ hq.pc = "idle" /\ ~program.git
  /\ Launch(t, task[t], None)
  /\ UNCHANGED <<program, project, approval, left>>

(* A workspace with its baseline is used again: only the ignored agent      *)
(* configuration is refreshed, and the baseline is pinned again.           *)
PrepareAgain(t) ==
  /\ task[t].status = "Pending" /\ hq.pc = "idle" /\ program.git
  /\ task[t].workspace # None /\ task[t].metadata # None
  /\ Launch(t, [task[t] EXCEPT !.workspace = CopyIgnoredAgentConfigs(@),
                               !.ref = task[t].metadata], task[t].metadata)
  /\ UNCHANGED <<program, project, approval, left>>

(* Anything else is discarded, and the workspace made from HEAD.           *)
PrepareNew(t) ==
  /\ task[t].status = "Pending" /\ hq.pc = "idle" /\ program.git
  /\ task[t].workspace = None \/ task[t].metadata = None
  /\ LET row == IF task[t].workspace = None THEN task[t] ELSE RemoveWorkspace(task[t])
     IN SetTask(t, [row EXCEPT !.workspace = WorktreeAdd])
  /\ hq' = [pc |-> "tracked", task |-> t]
  /\ ghost' = [ghost EXCEPT !.seed[t] = None, !.edited[t] = {}]
  /\ UNCHANGED <<program, project, approval, left>>

(* seed_executor_workspace_from_canonical_changes, in its three parts.      *)
SeedTracked ==
  /\ hq.pc = "tracked"
  /\ task' = [task EXCEPT ![hq.task].workspace =
                IF project.head # None THEN ApplyTrackedDiff(@) ELSE CopyIndexFiles(@)]
  /\ hq' = [hq EXCEPT !.pc = "untracked"]
  /\ UNCHANGED <<program, project, approval, left, ghost>>

SeedUntracked ==
  /\ hq.pc = "untracked"
  /\ task' = [task EXCEPT ![hq.task].workspace = CopyAgentConfigs(CopyUntrackedFiles(@))]
  /\ hq' = [hq EXCEPT !.pc = "capture"]
  /\ UNCHANGED <<program, project, approval, left, ghost>>

MutPinBaseline ==
  /\ hq.pc = "capture"
  /\ task' = [task EXCEPT ![hq.task].ref = HeadTree(task[hq.task].workspace)]
  /\ hq' = [hq EXCEPT !.pc = "write"]
  /\ UNCHANGED <<program, project, approval, left, ghost>>

(* capture_executor_workspace_baseline_tree, and the first half of          *)
(* persist_executor_workspace_baseline, the pin.                           *)
PinBaseline ==
  /\ hq.pc = "capture"
  /\ task' = [task EXCEPT ![hq.task].ref = CaptureWorktreeTree(task[hq.task].workspace)]
  /\ hq' = [hq EXCEPT !.pc = "write"]
  /\ UNCHANGED <<program, project, approval, left, ghost>>

(* The second half, the file; then the Executor is started.                *)
WriteBaseline ==
  /\ hq.pc = "write"
  /\ LET row == task[hq.task]
     IN Launch(hq.task, [row EXCEPT !.metadata = row.ref], row.ref)
  /\ UNCHANGED <<program, project, approval, left>>

(* A step of the preparation fails and the workspace is cleaned up, or HQ   *)
(* dies.                                                                   *)
PreparationFails ==
  /\ hq.pc # "idle" /\ Spend("troubles")
  /\ SetTask(hq.task, RemoveWorkspace(task[hq.task]))
  /\ hq' = NoPreparation
  /\ UNCHANGED <<program, project, approval, ghost>>

HqDies ==
  /\ hq.pc # "idle" /\ Spend("troubles")
  /\ hq' = NoPreparation
  /\ UNCHANGED <<program, project, task, approval, ghost>>

-----------------------------------------------------------------------------
(* The Executor, the person and the commands that end a task.              *)

Write(files, e) == [files EXCEPT ![e.path] = e.value]

(* Somebody other than the running approval writes to the project.         *)
Disturb == [ghost EXCEPT !.disturbed = approval.pc # "idle"]

ExecutorEdits(t) ==
  /\ task[t].status = "Executing" /\ Spend("edits")
  /\ \E e \in program.edits :
       IF task[t].isolated
       THEN /\ task[t].workspace.files[e.path] # e.value
            /\ SetTask(t, [task[t] EXCEPT !.workspace.files = Write(@, e)])
            /\ ghost' = [ghost EXCEPT !.edited[t] = @ \cup {e.path}]
            /\ UNCHANGED project
       ELSE /\ project.files[e.path] # e.value
            /\ project' = [project EXCEPT !.files = Write(@, e)]
            /\ ghost' = Disturb
            /\ UNCHANGED task
  /\ UNCHANGED <<program, hq, approval>>

(* git add, with -f for an ignored path, or git rm --cached.               *)
ExecutorStages(t) ==
  /\ task[t].status = "Executing" /\ task[t].isolated /\ Spend("edits")
  /\ \E p \in program.staged : \E v \in {None, task[t].workspace.files[p]} :
       /\ task[t].workspace.index[p] # v
       /\ SetTask(t, [task[t] EXCEPT !.workspace.index[p] = v])
  /\ UNCHANGED <<program, project, hq, approval, ghost>>

PersonEdits ==
  /\ Spend("person")
  /\ \E e \in program.person : /\ project.files[e.path] # e.value
                               /\ project' = [project EXCEPT !.files = Write(@, e)]
  /\ ghost' = Disturb
  /\ UNCHANGED <<program, task, hq, approval>>

PersonStages ==
  /\ program.git /\ Spend("person")
  /\ \E p \in program.staged : /\ project.index[p] # project.files[p]
                               /\ project' = [project EXCEPT !.index[p] = project.files[p]]
  /\ ghost' = Disturb
  /\ UNCHANGED <<program, task, hq, approval>>

PersonCommits ==
  /\ program.git /\ HeadTree(project) # project.index /\ Spend("person")
  /\ project' = [project EXCEPT !.head = project.index]
  /\ ghost' = Disturb
  /\ UNCHANGED <<program, task, hq, approval>>

(* The run ends without a submission and the task is dispatched again.      *)
ExecutorDies(t) ==
  /\ task[t].status = "Executing" /\ Spend("troubles")
  /\ SetTask(t, [task[t] EXCEPT !.status = "Pending"])
  /\ UNCHANGED <<program, project, hq, approval, ghost>>

(* reset: the run directory and the workspace are left to other commands.  *)
ResetTask(t) ==
  /\ task[t].status \in {"Pending", "Reviewing"} /\ Spend("troubles")
  /\ hq.pc # "idle" => hq.task # t
  /\ approval.pc # "idle" => approval.task # t
  /\ SetTask(t, [task[t] EXCEPT !.status = "Reset", !.frozen = None, !.pin = None])
  /\ UNCHANGED <<program, project, hq, approval, ghost>>

(* orphaned_worktrees_for: what belongs to no live task.                   *)
Orphaned(t) == task[t].workspace # None /\ task[t].status \in {"Reset", "Complete"}

(* recover_orphaned_worktrees.  The workspace of a task that has just been  *)
(* approved is the one its cleanup removes.                                *)
RecoverOrphans ==
  /\ \E t \in Tasks : Orphaned(t)
  /\ task' = [t \in Tasks |-> IF Orphaned(t) THEN RemoveWorkspace(task[t]) ELSE task[t]]
  /\ UNCHANGED <<program, project, hq, approval, left, ghost>>

-----------------------------------------------------------------------------
(* submit.rs.                                                              *)

(* prepare_submitted_repository_view: a frozen tree where the graph is      *)
(* enabled and its view of the workspace is the captured tree.             *)
Freeze(row) ==
  LET tree == CaptureWorktreeTree(row.workspace)
  IN IF /\ program.graph /\ row.isolated
        /\ FrozenTreeMatches(row.workspace, row.baseline, tree)
     THEN tree ELSE None

(* baseline_tree: of the environment, else of the file, else HEAD.         *)
BaselineTree(row) ==
  IF row.baseline # None THEN row.baseline
  ELSE IF row.metadata # None THEN row.metadata ELSE HeadTree(row.workspace)

(* write_submission_patch.                                                 *)
SubmissionPatch(row) ==
  IF ~row.isolated THEN << >>
  ELSE IF Freeze(row) # None THEN TreePatch(BaselineTree(row), Freeze(row))
  ELSE WorkspacePatch(row.workspace, BaselineTree(row))

Submit(t) ==
  /\ task[t].status = "Executing"
  /\ SetTask(t, [task[t] EXCEPT !.status = "Reviewing", !.patch = SubmissionPatch(task[t]),
                                !.frozen = Freeze(task[t]), !.pin = Freeze(task[t])])
  /\ UNCHANGED <<program, project, hq, approval, left, ghost>>

(* persist_submission fails before or after the patch is written: the pin   *)
(* is released as the guard is dropped.  A process that dies keeps it.      *)
SubmitFails(t) ==
  /\ task[t].status = "Executing" /\ Spend("troubles")
  /\ \E written \in BOOLEAN, dead \in BOOLEAN :
       SetTask(t, [task[t] EXCEPT
         !.patch = IF written THEN SubmissionPatch(task[t]) ELSE @,
         !.pin = IF dead THEN Freeze(task[t]) ELSE None,
         !.status = IF dead THEN "Pending" ELSE @])
  /\ UNCHANGED <<program, project, hq, approval, ghost>>

(* reject: the Executor is dispatched again, to the same workspace.        *)
Reject(t) ==
  /\ task[t].status = "Reviewing" /\ Spend("rejections")
  /\ approval.pc # "idle" => approval.task # t
  /\ SetTask(t, [task[t] EXCEPT !.status = "Pending", !.frozen = None, !.pin = None])
  /\ UNCHANGED <<program, project, hq, approval, ghost>>

-----------------------------------------------------------------------------
(* approve.rs and approve/integration.rs.                                  *)

To(pc) == approval' = [approval EXCEPT !.pc = pc]

(* task_baseline_tree: HEAD stands in for a missing ref, unless the         *)
(* submission is frozen.                                                   *)
TaskBaselineTree(row) ==
  IF row.ref # None THEN row.ref ELSE IF row.frozen # None THEN None ELSE project.head

(* task_submission_trees: the frozen tree, or the patch on the baseline.    *)
TaskSubmissionTree(row, baseline) ==
  IF row.frozen # None THEN row.frozen
  ELSE IF PatchApplies(baseline, row.patch) THEN SubmittedTreeFromPatch(baseline, row.patch)
  ELSE None

(* CanonicalWorkspaceSnapshot::capture.                                    *)
CaptureSnapshot(w) ==
  [tree |-> CaptureWorktreeTree(w), index |-> w.index, ignored |-> IgnoredUntrackedPaths(w)]

(* apply_approved_patch up to the snapshot.  An empty patch has nothing to  *)
(* integrate.                                                              *)
ApproveBegin(t) ==
  /\ task[t].status = "Reviewing" /\ approval.pc = "idle"
  /\ \E baseline \in {TaskBaselineTree(task[t])} :
       IF DOMAIN task[t].patch = {}
       THEN approval' = [pc |-> "record", task |-> t, snapshot |-> None]
       ELSE /\ baseline # None
            /\ TaskSubmissionTree(task[t], baseline) # None
            /\ ~RejectsSparse(TreeChanges(baseline, TaskSubmissionTree(task[t], baseline)),
                              program.sparse)
            /\ approval' = [pc |-> "merge", task |-> t, snapshot |-> CaptureSnapshot(project),
                            baseline |-> baseline, merged |-> None,
                            submitted |-> TaskSubmissionTree(task[t], baseline)]
  /\ ghost' = [ghost EXCEPT !.before = project, !.disturbed = FALSE]
  /\ UNCHANGED <<program, project, task, hq, left>>

(* integrate_patch_three_way up to the first write.                        *)
ApproveMerge ==
  /\ approval.pc = "merge"
  /\ LET ours == approval.snapshot.tree
         merged == MergeTrees(approval.baseline, ours, approval.submitted)
     IN IF /\ Merges(approval.baseline, ours, approval.submitted)
           /\ CanMaterialize(project, ours, merged, program.sparse, program.gitlinks)
        THEN approval' = [approval EXCEPT !.pc = "materialize", !.merged = merged]
        ELSE approval' = NoApproval
  /\ UNCHANGED <<program, project, task, hq, left, ghost>>

ApproveMaterialize ==
  /\ approval.pc = "materialize"
  /\ project' = [project EXCEPT !.files = Materialize(@, approval.snapshot.tree, approval.merged)]
  /\ To("checks")
  /\ UNCHANGED <<program, task, hq, left, ghost>>

(* Git stops half-way.                                                     *)
PartlyWritten(files, target) ==
  {[p \in Paths |-> IF p \in S THEN target[p] ELSE files[p]] :
     S \in SUBSET {p \in Paths : target[p] # files[p]}}

MaterializeFails ==
  /\ approval.pc = "materialize" /\ Spend("troubles")
  /\ \E files \in PartlyWritten(project.files,
                    Materialize(project.files, approval.snapshot.tree, approval.merged)) :
       project' = [project EXCEPT !.files = files]
  /\ To("restore")
  /\ UNCHANGED <<program, task, hq, ghost>>

(* The configuration of the merged project and run_post_apply_integration_  *)
(* checks: the commands leave files behind, and pass or fail.              *)
ApproveChecks ==
  /\ approval.pc = "checks"
  /\ \E built \in SUBSET program.artifacts, v \in Contents, passed \in BOOLEAN :
       /\ project' = [project EXCEPT !.files =
                        [p \in Paths |-> IF p \in built THEN v ELSE @[p]]]
       /\ To(IF passed THEN "index" ELSE "restore")
  /\ UNCHANGED <<program, task, hq, left, ghost>>

(* restore_index_file.                                                     *)
RestoreIndex(w, snapshot) == [w EXCEPT !.index = snapshot.index]

(* restore_index, and an index.lock of somebody else.                      *)
ApproveIndex ==
  /\ approval.pc = "index"
  /\ project' = RestoreIndex(project, approval.snapshot)
  /\ To("record")
  /\ UNCHANGED <<program, task, hq, left, ghost>>

IndexLocked ==
  /\ approval.pc = "index" /\ Spend("troubles")
  /\ To("restore")
  /\ UNCHANGED <<program, project, task, hq, ghost>>

ApproveRecord ==
  /\ approval.pc = "record"
  /\ task' = [task EXCEPT ![approval.task].status = "Complete"]
  /\ To("cleanup")
  /\ UNCHANGED <<program, project, hq, left, ghost>>

RecordFails ==
  /\ approval.pc = "record" /\ Spend("troubles")
  /\ IF approval.snapshot = None THEN approval' = NoApproval ELSE To("restore")
  /\ UNCHANGED <<program, project, task, hq, ghost>>


(* CanonicalWorkspaceSnapshot::restore: files that were ignored before are  *)
(* kept, whatever the rules are now.                                       *)
Restored(w, snapshot) ==
  LET current == TreeWithoutPaths(CaptureWorktreeTree(w), snapshot.ignored)
  IN RestoreIndex([w EXCEPT !.files = Materialize(@, current, snapshot.tree)], snapshot)

Restore ==
  /\ approval.pc = "restore"
  /\ project' = Restored(project, approval.snapshot)
  /\ approval' = NoApproval
  /\ UNCHANGED <<program, task, hq, left, ghost>>

(* rollback_failed: the effect is unknown.                                 *)
RestoreFails ==
  /\ approval.pc = "restore" /\ Spend("troubles")
  /\ \E files \in PartlyWritten(project.files, Restored(project, approval.snapshot).files) :
       project' = [project EXCEPT !.files = files]
  /\ approval' = NoApproval
  /\ UNCHANGED <<program, task, hq, ghost>>

(* The pin, and cleanup_approved_workspace, which may fail.                *)
ApproveCleanup ==
  /\ approval.pc = "cleanup"
  /\ \E failed \in BOOLEAN :
       /\ failed => left["troubles"] > 0
       /\ left' = [left EXCEPT !["troubles"] = IF failed THEN @ - 1 ELSE @]
       /\ task' = [task EXCEPT ![approval.task] =
                     [(IF failed THEN @ ELSE RemoveWorkspace(@)) EXCEPT !.pin = None]]
  /\ approval' = NoApproval
  /\ UNCHANGED <<program, project, hq, ghost>>

ApprovalDies ==
  /\ approval.pc # "idle" /\ Spend("troubles")
  /\ approval' = NoApproval
  /\ UNCHANGED <<program, project, task, hq, ghost>>

Approve ==
  \/ \E t \in Tasks : ApproveBegin(t)
  \/ ApproveMerge \/ ApproveMaterialize \/ MaterializeFails \/ ApproveChecks
  \/ ApproveIndex \/ IndexLocked \/ ApproveRecord \/ RecordFails
  \/ Restore \/ RestoreFails \/ ApproveCleanup \/ ApprovalDies

Prepare ==
  \/ \E t \in Tasks : PrepareInPlace(t) \/ PrepareAgain(t) \/ PrepareNew(t)
  \/ SeedTracked \/ SeedUntracked \/ PinBaseline \/ WriteBaseline
  \/ PreparationFails \/ HqDies

Next ==
  \/ Prepare
  \/ \E t \in Tasks : \/ ExecutorEdits(t) \/ ExecutorStages(t) \/ ExecutorDies(t)
                      \/ Submit(t) \/ SubmitFails(t) \/ Reject(t) \/ ResetTask(t)
  \/ PersonEdits \/ PersonStages \/ PersonCommits
  \/ RecoverOrphans
  \/ Approve

Spec == Init /\ [][Next]_vars

-----------------------------------------------------------------------------
(* Properties.                                                             *)

InReview(t) == task[t].status = "Reviewing" /\ task[t].isolated

(* The tree that an approval of the task would merge.                      *)
SubmittedTree(t) == TaskSubmissionTree(task[t], task[t].ref)

(* Whether the task left the ignore rules alone.                           *)
SameRules(t) == ghost.seed[t].files[IgnoreFile] = task[t].workspace.files[IgnoreFile]

(* While an Executor works and while its submission is reviewed, the ref,   *)
(* the file and the environment name the same baseline, the tree of the     *)
(* workspace as the Executor first saw it, also when the workspace was made *)
(* by a preparation after one that failed or died (prepare_executor_        *)
(* workspace).                                                             *)
BaselinesHold ==
  \A t \in Tasks :
    task[t].status \in {"Executing", "Reviewing"} /\ task[t].isolated
      => /\ task[t].ref = task[t].baseline /\ task[t].metadata = task[t].baseline
         /\ task[t].baseline = CaptureWorktreeTree(ghost.seed[t])

(* A submission holds what the Executor changed and nothing else: the       *)
(* person's uncommitted work of the baseline is no part of it, and no       *)
(* change that Git would show is missing (persist_submission), as long as   *)
(* the Executor did not change what Git ignores.                           *)
SubmissionsTrue ==
  \A t \in Tasks : InReview(t) /\ SameRules(t) =>
    LET w == task[t].workspace
        submitted == SubmittedTree(t)
        shown == GraphPaths \cap (Cached(w) \cup Others(w))
    IN /\ submitted # None
       /\ \A p \in Paths \ RuntimePaths :
            /\ submitted[p] # task[t].ref[p] => p \in ghost.edited[t]
            /\ p \in ghost.edited[t] \cap shown => submitted[p] = w.files[p]

(* "Include the user's existing changes in the baseline so submission       *)
(* attributes only subsequent Executor changes to this task" (hq/           *)
(* workspace.rs), whatever the Executor changed.                           *)
SubmissionsAttributed ==
  \A t \in Tasks : InReview(t) =>
    \A p \in Paths : SubmittedTree(t)[p] # task[t].ref[p] => p \in ghost.edited[t]

(* The view of a task that the graph composes of the baseline and the       *)
(* changes is what discovery would find in the workspace (TaskOverlaySource *)
(* and changed_paths).                                                     *)
OverlaysExact ==
  \A t \in Tasks : task[t].workspace # None /\ task[t].baseline # None
    => EffectiveFiles(task[t].workspace, task[t].baseline) = WorktreeManifest(task[t].workspace)

(* When a task becomes Complete, the project has every change of the task   *)
(* and, everywhere else, what the person had there: uncommitted, staged and *)
(* ignored files alike.  This holds after an approval that died and was     *)
(* repeated as well (integrate_approved_task).  It is about tasks that      *)
(* leave the ignore rules alone.                                           *)
IntegrationExact ==
  (/\ approval.pc = "cleanup" /\ approval.snapshot # None /\ ~ghost.disturbed
   /\ approval.submitted[IgnoreFile] = approval.baseline[IgnoreFile])
    => /\ project.index = ghost.before.index
       /\ \A p \in Paths \ program.artifacts :
            project.files[p] = IF /\ approval.submitted[p] # approval.baseline[p]
                                  /\ p \notin IgnoredUntrackedPaths(ghost.before)
                               THEN approval.submitted[p] ELSE ghost.before.files[p]

(* An approval that fails gives the person's files and index back as they   *)
(* were, those included that Git ignores (CanonicalWorkspaceSnapshot).      *)
RestoresAll ==
  approval.pc = "restore" /\ approval'.pc = "idle" /\ left' = left /\ ~ghost.disturbed
    => /\ project'.index = ghost.before.index
       /\ \A p \in Paths \ program.artifacts : project'.files[p] = ghost.before.files[p]

=============================================================================
