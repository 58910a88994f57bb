----------------------------- MODULE ProjectGraph -----------------------------
(***************************************************************************)
(* The repository graph of a project: who indexes what, what the runtime   *)
(* database says of it, and what a reader is shown (src/src: project/      *)
(* graph.rs, repository_graph/index.rs, repository_graph_runtime.rs and    *)
(* its canonical.rs and task_view.rs, cli/commands/graph.rs).              *)
(*                                                                         *)
(* The processes run on different terminals and share the sidecar, the     *)
(* runtime database and the files, nothing else: approvals that change the *)
(* canonical tree and refresh its graph, `ferrus graph index', the pin of  *)
(* a task's baseline, the refresh of its overlay by /check and /submit,    *)
(* and `ferrus recover'.  A step is a transaction of one of the databases  *)
(* or one look at the files.  Any process may die before any of its steps, *)
(* and a lease may run out under a process that is only slow.              *)
(***************************************************************************)
EXTENDS GraphStore, Sequences

CONSTANTS Baseline,      \* the content the task was branched from
          Programs,      \* the processes to look at, each time with the number of
                         \* merges, edits and faults (a crash, a budget that runs out)
          MaxSnapshots, MaxFailedBuilds  \* [repository_graph.retention]

ASSUME RetentionAssumption == MaxSnapshots \in Nat /\ MaxFailedBuilds \in Nat
ASSUME ProgramAssumption ==
  \A program \in Programs :
    /\ DOMAIN program.does = Builds
    /\ program.bounds \in [merges : Nat, edits : Nat, faults : Nat]
ASSUME BaselineAssumption == Baseline \in Contents

VARIABLES does,      \* what each process is for
          db,        \* the sidecar
          canon,     \* project_runtime_state: the canonical graph reference
          events,    \* the latest canonical_graph_invalidated and _refreshed
          task,      \* the task: its status and repository view, and its run's
          tree,      \* the files of the canonical workspace
          worktree,  \* the files of the task's workspace
          proc,      \* where each process is
          left       \* how many merges, edits and faults are left

runtime == <<canon, events, task>>
files == <<tree, worktree>>
graphVars == <<does, db, canon, events, task, tree, worktree, proc, left>>

-----------------------------------------------------------------------------
(* Identities.                                                             *)

(* snapshot_identity: the canonical tree and a task baseline with the same *)
(* files are the same snapshot; an overlay is one of its baseline.         *)
TreeSnapshot(c) == <<c>>
OverlaySnapshot(c) == <<Baseline, c>>
SnapshotContent(s) == s[Len(s)]

CanonicalView == "canonical"
BaselineView == "task-baseline"
OverlayView == "task-overlay"

ViewOf(o) ==
  IF does[o] \in {"approve", "index"} THEN CanonicalView
  ELSE IF does[o] = "pin" THEN BaselineView ELSE OverlayView

(* The files that the source of a process is made of, as they are now.     *)
Now(o) ==
  IF does[o] \in {"approve", "index"} THEN tree
  ELSE IF does[o] = "pin" THEN Baseline ELSE worktree

SnapshotOf(o) ==
  IF does[o] \in {"check", "submit"} THEN OverlaySnapshot(proc[o].source)
  ELSE TreeSnapshot(proc[o].source)

(* RepositoryViewReference.                                                *)
NotBuilt ==
  [baseline |-> None, snapshot |-> None, tree |-> None, frozen |-> FALSE,
   status |-> "not_built"]
Materialized(baseline, s) ==
  [NotBuilt EXCEPT !.baseline = baseline, !.snapshot = s, !.status = "available"]
MutableSuccessor(view) == [view EXCEPT !.frozen = FALSE, !.tree = None]
StaleSuccessor(view) == [MutableSuccessor(view) EXCEPT !.status = "stale"]
Frozen(view, content) == [view EXCEPT !.frozen = TRUE, !.tree = content]

Idle ==
  [pc |-> "idle", guard |-> None, source |-> None, expected |-> None, commit |-> None,
   outcome |-> None, healthy |-> TRUE, existing |-> None, view |-> None, references |-> None]

-----------------------------------------------------------------------------
(* What is shown to readers.                                               *)

(* LocalGraphContext::scope: the snapshot a query of the task reads.       *)
TaskScope(view) == IF view.snapshot # None THEN view.snapshot ELSE view.baseline

(* load_with_agent refuses a reviewer whose task is not frozen; a query    *)
(* then answers from the facts of the snapshot, or that it is not there.   *)
ReviewerSees ==
  IF ~task.view.frozen \/ db.snapshots[TaskScope(task.view)] = None THEN None
  ELSE db.snapshots[TaskScope(task.view)].facts.of

(* canonical_invalidation: queries of the canonical view say it is stale   *)
(* as soon as, and as long as, the runtime database does.                  *)
ShownAsStale == canon.status = "stale"

-----------------------------------------------------------------------------
Init ==
  /\ \E program \in Programs : does = program.does /\ left = program.bounds
  /\ db = EmptySidecar
  /\ canon = [source |-> None, snapshot |-> None, status |-> "unknown"]
  /\ events = [invalidated |-> 0, refreshed |-> 0]
  /\ task = [status |-> "executing", view |-> NotBuilt, run |-> NotBuilt]
  /\ tree = Baseline
  /\ worktree = Baseline
  /\ proc = [o \in Builds |-> Idle]

Goto(o, p) == proc' = [proc EXCEPT ![o] = p]
At(o, pc) == proc[o].pc = pc
Finish(o) == Goto(o, [Idle EXCEPT !.pc = "done"])
FinishWithError(o) == Goto(o, [Idle EXCEPT !.pc = "done", !.outcome = "error"])
Settled(o) == does[o] = "nothing" \/ proc[o].pc \in {"done", "crashed"}
Use(bound) == left[bound] > 0 /\ left' = [left EXCEPT ![bound] = @ - 1]

(* The Executor makes one call at a time.                                  *)
ExecutorFree == \A o \in Builds : does[o] \in {"check", "submit"} => At(o, "idle") \/ Settled(o)

-----------------------------------------------------------------------------
(* An approval changes the canonical tree and says so in the runtime       *)
(* database (CanonicalIntegrationObserver); it refreshes the graph only if *)
(* the tree it finds afterwards is another one.  The approval lock keeps   *)
(* the changes of two approvals apart.                                     *)
Integrate(o) ==
  /\ does[o] = "approve" /\ At(o, "idle")
  /\ \A p \in Builds : ~At(p, "invalidate")
  /\ Use("merges")
  /\ \E c \in Contents :
       /\ tree' = c
       /\ IF c = tree THEN Finish(o) ELSE Goto(o, [Idle EXCEPT !.pc = "invalidate"])
  /\ UNCHANGED <<does, db, runtime, worktree>>

(* record_canonical_graph_invalidation: the source identity is the one the *)
(* observer saw, still under the approval lock.                            *)
RecordInvalidation(o) ==
  /\ At(o, "invalidate")
  /\ canon' = [canon EXCEPT !.source = tree, !.status = "stale"]
  /\ events' = [events EXCEPT !.invalidated = @ + 1]
  /\ Goto(o, [Idle EXCEPT !.pc = "guard"])
  /\ UNCHANGED <<does, db, task, files, left>>

(* canonical_graph_refresh_guard, read before anything is looked at.       *)
ReadGuard(o) ==
  /\ \/ At(o, "guard")
     \/ does[o] = "index" /\ At(o, "idle")
  /\ Goto(o, [Idle EXCEPT !.pc = IF does[o] = "index" THEN "discover" ELSE "acquire",
                          !.guard = events])
  /\ UNCHANGED <<does, db, runtime, files, left>>

(* graph index discovers its source before it has the lease.               *)
DiscoverCanonical(o) ==
  /\ At(o, "discover")
  /\ Goto(o, [proc[o] EXCEPT !.pc = "acquire", !.source = tree])
  /\ UNCHANGED <<does, db, runtime, files, left>>

-----------------------------------------------------------------------------
(* A task view is resolved against the row read at the beginning.          *)

(* schedule_task_baseline_pin and resolve_task_baseline: a baseline that   *)
(* is retained stays, whatever it was built from.                          *)
ResolveBaseline(o) ==
  /\ does[o] = "pin" /\ At(o, "idle")
  /\ task.status \in {"executing", "addressing"}
  /\ LET existing == task.view
         retained == existing.baseline # None /\ db.snapshots[existing.baseline] # None
     IN Goto(o, IF retained
                THEN [Idle EXCEPT !.pc = "recordView", !.existing = existing,
                                  !.view = MutableSuccessor(existing)]
                ELSE [Idle EXCEPT !.pc = "acquire", !.existing = existing])
  /\ UNCHANGED <<does, db, runtime, files, left>>

(* refresh_task_overlay_with_context up to the lease.                      *)
ResolveOverlay(o) ==
  /\ does[o] \in {"check", "submit"} /\ At(o, "idle")
  /\ ExecutorFree
  /\ task.status \in {"executing", "addressing"}
  /\ LET existing == task.view
     IN IF existing.baseline = None
        THEN IF does[o] = "check" THEN FinishWithError(o)
             ELSE Goto(o, [Idle EXCEPT !.pc = "persist"])
        ELSE Goto(o, [Idle EXCEPT
                        !.pc = IF db.snapshots[existing.baseline] = None
                               THEN "recordView" ELSE "acquire",
                        !.outcome = IF db.snapshots[existing.baseline] = None
                                    THEN "error" ELSE None,
                        !.view = StaleSuccessor(existing), !.existing = existing])
  /\ UNCHANGED <<does, db, runtime, files, left>>

-----------------------------------------------------------------------------
(* One run of the indexer under a lease.                                   *)

(* A lease that is taken: an approval starts over with a new guard, index  *)
(* gives up, a pin leaves the view as it was, /check fails and /submit     *)
(* goes on without a frozen view.                                          *)
Acquire(o) ==
  /\ At(o, "acquire")
  /\ \E r \in {AcquireLease(db, ViewOf(o), o)} :
        /\ db' = r.db
        /\ IF r.acquired THEN Goto(o, [proc[o] EXCEPT !.pc = "start"])
           ELSE CASE does[o] = "approve" -> Goto(o, [Idle EXCEPT !.pc = "guard"])
                  [] does[o] = "pin" -> Goto(o, [proc[o] EXCEPT !.pc = "recordView",
                                                               !.view = proc[o].existing])
                  [] does[o] = "submit" -> Goto(o, [Idle EXCEPT !.pc = "persist"])
                  [] OTHER -> FinishWithError(o)
  /\ UNCHANGED <<does, runtime, files, left>>

(* The source is discovered, but for index, and IndexCoordinator::index    *)
(* notes the publication it expects and starts its build.  An overlay      *)
(* without changes is not indexed.                                         *)
Start(o) ==
  /\ At(o, "start")
  /\ LET source == IF does[o] = "index" THEN proc[o].source ELSE Now(o)
         s == IF does[o] \in {"check", "submit"} THEN OverlaySnapshot(source)
              ELSE TreeSnapshot(source)
     IN IF does[o] \in {"check", "submit"} /\ source = Baseline
        THEN /\ Goto(o, [proc[o] EXCEPT !.pc = "release", !.source = source,
                                        !.outcome = "unchanged"])
             /\ UNCHANGED db
        ELSE /\ \E started \in {StartBuild(db, o, s)} : db' = started
             /\ Goto(o, [proc[o] EXCEPT !.pc = "prepare", !.source = source,
                                        !.expected = Version(db.views[ViewOf(o)])])
  /\ UNCHANGED <<does, runtime, files, left>>

Fail(o) == Goto(o, [proc[o] EXCEPT !.pc = "release", !.outcome = "error", !.commit = None])

(* prepare with the snapshot that is there: not with --full.               *)
PrepareReuse(o) ==
  /\ At(o, "prepare")
  /\ Reusable(db, SnapshotOf(o), {})
  /\ Goto(o, [proc[o] EXCEPT !.pc = "complete",
                !.commit = [reuse |-> TRUE, facts |-> None, skipped |-> {},
                            diagnostics |-> {}, parsed |-> {}]])
  /\ UNCHANGED <<does, db, runtime, files, left>>

(* prepare from cached fragments or from the files, each read checked      *)
(* against the digest that discovery saw (read_verified).                  *)
PrepareFacts(o) ==
  /\ At(o, "prepare")
  /\ does[o] = "index" \/ ~Reusable(db, SnapshotOf(o), {})
  /\ proc[o].source \in db.cache \/ Now(o) = proc[o].source
  /\ \E whole \in BOOLEAN :
       /\ IF whole THEN UNCHANGED left ELSE Use("faults")
       /\ Goto(o, [proc[o] EXCEPT !.pc = "complete",
                     !.commit = [reuse |-> FALSE, skipped |-> {},
                                 facts |-> [of |-> proc[o].source, whole |-> whole],
                                 diagnostics |-> IF whole THEN {} ELSE {"budget"},
                                 parsed |-> {proc[o].source}]])
  /\ UNCHANGED <<does, db, runtime, files>>

(* A file that changed since discovery cannot be read.                     *)
PrepareFails(o) ==
  /\ At(o, "prepare")
  /\ proc[o].source \notin db.cache /\ Now(o) # proc[o].source
  /\ db' = FailBuild(db, o)
  /\ Fail(o)
  /\ UNCHANGED <<does, runtime, files, left>>

(* The first revalidate and complete_index.                                *)
Complete(o) ==
  /\ At(o, "complete")
  /\ \E r \in {CompleteIndex(db, o, proc[o].commit)} :
        IF Now(o) = proc[o].source /\ r.done
        THEN /\ db' = r.db
             /\ Goto(o, [proc[o] EXCEPT !.pc = "revalidate", !.commit = None])
        ELSE db' = FailBuild(db, o) /\ Fail(o)
  /\ UNCHANGED <<does, runtime, files, left>>

Revalidate(o) ==
  /\ At(o, "revalidate")
  /\ IF Now(o) = proc[o].source
     THEN Goto(o, [proc[o] EXCEPT !.pc = "publish"]) /\ UNCHANGED db
     ELSE db' = SupersedeBuild(db, o) /\ Fail(o)
  /\ UNCHANGED <<does, runtime, files, left>>

(* publish and what index makes of a refusal: the view of this build, or a *)
(* newer one that supersedes it, or an error.                              *)
PublishBuild(o) ==
  /\ At(o, "publish")
  /\ \E r \in {Publish(db, o, ViewOf(o), proc[o].expected)} :
     LET current == db.views[ViewOf(o)]
         view == IF r.outcome = "error" THEN current ELSE r.view
         lost == r.outcome = "error" /\ \/ current = None
                                        \/ /\ current.build # o
                                           /\ Version(current) = proc[o].expected
         supersede == /\ r.outcome = "error" \/ r.outcome = "published"
                      /\ ~lost /\ view.build # o
     IN IF lost \/ (supersede /\ BuildState(db, o) # "complete")
        THEN Fail(o) /\ UNCHANGED db
        ELSE /\ db' = IF supersede THEN SupersedeBuild(r.db, o) ELSE r.db
             /\ Goto(o, [proc[o] EXCEPT !.pc = "release",
                           !.outcome = IF r.outcome = "published" THEN "published"
                                       ELSE IF view.build = o THEN "published"
                                       ELSE "superseded"])
  /\ UNCHANGED <<does, runtime, files, left>>

(* The heartbeat stops and the lease is given back.  What was indexed      *)
(* counts only if the lease was held to the end.                           *)
Release(o) ==
  /\ At(o, "release")
  /\ db' = ReleaseLease(db, ViewOf(o), o)
  /\ LET p == proc[o]
         ok == p.outcome # "error" /\ p.healthy /\ HoldsLease(db, ViewOf(o), o)
         s == SnapshotOf(o)
     IN CASE does[o] = "approve" ->
               Goto(o, [p EXCEPT !.pc = IF ok THEN "record" ELSE "recordFailed"])
          [] does[o] = "index" ->
               IF ~ok THEN FinishWithError(o)
               ELSE Goto(o, [p EXCEPT !.pc = IF p.outcome = "published" THEN "record"
                                             ELSE "references"])
          [] does[o] = "pin" ->
               Goto(o, [p EXCEPT !.pc = "recordView",
                          !.view = IF ok THEN Materialized(s, s)
                                   ELSE IF p.existing.baseline # None
                                   THEN StaleSuccessor(p.existing)
                                   ELSE [NotBuilt EXCEPT !.status = "failed"]])
          [] OTHER ->
               Goto(o, [p EXCEPT !.pc = "recordView",
                          !.outcome = IF ok THEN @ ELSE "error",
                          !.view = IF ~ok THEN StaleSuccessor(p.existing)
                                   ELSE IF p.outcome = "unchanged"
                                   THEN Materialized(p.existing.baseline, p.existing.baseline)
                                   ELSE Materialized(p.existing.baseline, s)])
  /\ UNCHANGED <<does, runtime, files, left>>

-----------------------------------------------------------------------------
(* What the indexing changes in the runtime database.                      *)


(* record_canonical_graph_refresh: only if nothing was invalidated or      *)
(* refreshed since the guard was read.                                     *)
RecordRefresh(o) ==
  /\ At(o, "record")
  /\ IF events = proc[o].guard
     THEN /\ canon' = [source |-> proc[o].source, status |-> "fresh",
                       snapshot |-> TreeSnapshot(proc[o].source)]
          /\ events' = [events EXCEPT !.refreshed = @ + 1]
     ELSE UNCHANGED <<canon, events>>
  /\ Goto(o, [Idle EXCEPT !.pc = "references"])
  /\ UNCHANGED <<does, db, task, files, left>>

(* record_canonical_graph_refresh_failed_best_effort.                      *)
RecordRefreshFailed(o) ==
  /\ At(o, "recordFailed")
  /\ canon' = IF events = proc[o].guard THEN [canon EXCEPT !.status = "stale"] ELSE canon
  /\ FinishWithError(o)
  /\ UNCHANGED <<does, db, events, task, files, left>>

(* compare_and_record_task_repository_view_at; the run takes the view over *)
(* as long as it has none of its own (record_repository_view_in_           *)
(* transaction).                                                           *)
RecordTaskView(view) ==
  task' = [task EXCEPT !.view = view,
             !.run = IF /\ task.run.baseline = None
                        /\ task.run.status \in {"not_built", "unavailable", "failed"}
                     THEN view ELSE task.run]

MutRowUnchanged(o) == TRUE

(* The row must still be the one that was read.                            *)
RowUnchanged(o) == task.view = proc[o].existing

(* A refresh that lost returns the row as it is now, and one that failed   *)
(* returns its error.                                                      *)
RecordView(o) ==
  /\ At(o, "recordView")
  /\ LET won == RowUnchanged(o)
         view == IF won THEN proc[o].view ELSE task.view
     IN /\ IF won THEN RecordTaskView(proc[o].view) ELSE UNCHANGED task
        /\ CASE does[o] = "pin" /\ ~won -> Finish(o)
             [] does[o] = "check" /\ won /\ proc[o].outcome = "error" -> FinishWithError(o)
             [] does[o] = "submit" /\ won /\ proc[o].outcome = "error" ->
                  Goto(o, [Idle EXCEPT !.pc = "persist"])
             [] OTHER -> Goto(o, [Idle EXCEPT !.pc = "references", !.view = view])
  /\ UNCHANGED <<does, db, canon, events, files, left>>

-----------------------------------------------------------------------------
(* Maintenance: maintain_graph.                                            *)

(* repository_graph_retention_references.                                  *)
RetentionReferences ==
  LET open == task.status # "complete"
      rows == IF open THEN {task.view.baseline, task.view.snapshot,
                            task.run.baseline, task.run.snapshot} ELSE {}
  IN [snapshots |-> (rows \cup {canon.snapshot}) \ {None},
      views |-> IF open THEN {BaselineView, OverlayView} ELSE {}]

ReadReferences(o) ==
  /\ \/ At(o, "references")
     \/ does[o] = "recover" /\ At(o, "idle")
  /\ Goto(o, [proc[o] EXCEPT !.pc = "maintain", !.references = RetentionReferences])
  /\ UNCHANGED <<does, db, runtime, files, left>>

(* maintain_graph_with_references, on one connection without a pause.      *)
Maintain(o) ==
  /\ At(o, "maintain")
  /\ \E recovered \in {RecoverInterruptedBuilds(db)} :
       \E collected \in {CollectSnapshots(recovered, MaxSnapshots, proc[o].references)} :
         db' = CollectBuilds(collected, MaxFailedBuilds)
  /\ IF does[o] = "submit" THEN Goto(o, [Idle EXCEPT !.pc = "capture", !.view = proc[o].view])
     ELSE Finish(o)
  /\ UNCHANGED <<does, runtime, files, left>>

-----------------------------------------------------------------------------
(* The submission and the review.                                          *)

MutFrozenTreeMatchesSnapshot(view) ==
  view.snapshot # None /\ db.snapshots[view.snapshot] # None

(* capture_matching_submitted_tree: the files are captured as they are now *)
(* and compared with those of the snapshot the refresh returned.           *)
FrozenTreeMatchesSnapshot(view) ==
  /\ view.snapshot # None
  /\ db.snapshots[view.snapshot] # None
  /\ db.snapshots[view.snapshot].facts.of = worktree

Capture(o) ==
  /\ At(o, "capture")
  /\ LET view == proc[o].view
     IN Goto(o, [Idle EXCEPT !.pc = "persist",
                             !.view = IF FrozenTreeMatchesSnapshot(view)
                                      THEN Frozen(view, worktree) ELSE None])
  /\ UNCHANGED <<does, db, runtime, files, left>>

(* record_task_submitted: with a frozen view, or with the one that is there.*)
Persist(o) ==
  /\ At(o, "persist")
  /\ task' = IF proc[o].view = None THEN [task EXCEPT !.status = "reviewing"]
             ELSE [status |-> "reviewing", view |-> proc[o].view, run |-> proc[o].view]
  /\ Finish(o)
  /\ UNCHANGED <<does, db, canon, events, files, left>>

(* record_task_review_rejected and the approval of the task itself.        *)
Review(status) ==
  /\ task.status = "reviewing"
  /\ task' = [task EXCEPT !.status = status]
  /\ UNCHANGED <<does, db, canon, events, files, proc, left>>

-----------------------------------------------------------------------------
(* The environment.                                                        *)

Edit ==
  /\ task.status \in {"executing", "addressing"}
  /\ Use("edits")
  /\ \E c \in Contents \ {worktree} : worktree' = c
  /\ UNCHANGED <<does, db, runtime, tree, proc>>

UnderLease == {"start", "prepare", "complete", "revalidate", "publish", "release"}

(* The heartbeat finds the lease lost.  A renewal that succeeds puts the   *)
(* time left back to where it was.                                         *)
Renew(o) ==
  /\ proc[o].pc \in UnderLease /\ proc[o].healthy
  /\ db' = RenewLease(db, ViewOf(o), o)
  /\ LET held == HoldsLease(db, ViewOf(o), o) /\ ~Expired(db.leases[ViewOf(o)])
     IN proc' = [proc EXCEPT ![o] = [@ EXCEPT !.healthy = held]]
  /\ UNCHANGED <<does, runtime, files, left>>

Elapse(leases) ==
  [v \in Views |-> IF leases[v] = None \/ Expired(leases[v]) THEN leases[v]
                   ELSE [leases[v] EXCEPT !.left = @ - 1]]

Tick ==
  /\ \E v \in Views : db.leases[v] # None /\ ~Expired(db.leases[v])
  /\ db' = [db EXCEPT !.leases = Elapse(db.leases)]
  /\ UNCHANGED <<does, runtime, files, proc, left>>

Crash(o) ==
  /\ proc[o].pc \notin {"idle", "done", "crashed"}
  /\ Use("faults")
  /\ Goto(o, [Idle EXCEPT !.pc = "crashed",
                          !.outcome = IF At(o, "invalidate") THEN "untold" ELSE None])
  /\ UNCHANGED <<does, db, runtime, files>>

Build(o) ==
  \/ Acquire(o) \/ Start(o) \/ PrepareReuse(o) \/ PrepareFacts(o) \/ PrepareFails(o)
  \/ Complete(o) \/ Revalidate(o) \/ PublishBuild(o) \/ Release(o)

Refresh(o) ==
  /\ does[o] \in {"approve", "index"}
  /\ \/ RecordInvalidation(o) \/ ReadGuard(o) \/ DiscoverCanonical(o) \/ Build(o)
     \/ RecordRefresh(o) \/ RecordRefreshFailed(o)

Next ==
  \/ \E o \in Builds :
       \/ Integrate(o) \/ RecordInvalidation(o) \/ ReadGuard(o) \/ DiscoverCanonical(o)
       \/ ResolveBaseline(o) \/ ResolveOverlay(o) \/ Build(o)
       \/ RecordRefresh(o) \/ RecordRefreshFailed(o) \/ RecordView(o)
       \/ ReadReferences(o) \/ Maintain(o) \/ Capture(o) \/ Persist(o)
       \/ Renew(o) \/ Crash(o)
  \/ Review("addressing") \/ Review("complete")
  \/ Edit \/ Tick

(* A refresh of the canonical graph runs on once begun, and time passes.   *)
(* Nothing says when a merge, an edit or a review comes, that the Executor *)
(* makes a call, or that anybody collects garbage.                         *)
Fairness == (\A o \in Builds : WF_graphVars(Refresh(o))) /\ WF_graphVars(Tick)

Spec == Init /\ [][Next]_graphVars /\ Fairness

-----------------------------------------------------------------------------
(* However sources change, are cached, half read or indexed by two at once,*)
(* and whatever garbage collection removes meanwhile: the facts of every   *)
(* snapshot are those of the content it is named after, and no row refers  *)
(* to a row that is gone (index, complete_index, collect_garbage).         *)
SnapshotsTrue ==
  /\ db \in Sidecars
  /\ \A s \in Present(db.snapshots) :
       /\ db.snapshots[s].facts.of = SnapshotContent(s)
       /\ {db.snapshots[s].completedBy, db.snapshots[s].diagnosticsOf}
            \subseteq Present(db.builds)
  /\ \A v \in Present(db.views) :
       /\ db.views[v].build \in Present(db.builds)
       /\ db.views[v].snapshot \in Present(db.snapshots)
  /\ \A b \in Builds : BuildState(db, b) # "corrupt"

Changing == \E o \in Builds : At(o, "invalidate") \/ proc[o].outcome = "untold"


(* A complete build that is superseded at publication lost to the view of  *)
(* a build that was started later (publish, IndexCoordinator::index).      *)
SupersededByNewer ==
  [][\A o \in Builds :
       At(o, "publish") /\ proc'[o].outcome = "superseded" =>
         db.builds[db.views[ViewOf(o)].build].order > db.builds[o].order]_graphVars

(* A reviewer is shown the graph of exactly the files that were submitted, *)
(* or none (prepare_submitted_repository_view).                            *)
ReviewersSeeTheSubmission ==
  task.view.frozen => ReviewerSees \in {None, task.view.tree}

(* While a task is in review nothing changes the view it was submitted     *)
(* with: a pin or a refresh that comes late loses against the row it read  *)
(* (compare_and_record_task_repository_view_at).                           *)
LateRefreshesLose ==
  task.status = "reviewing" /\ task'.status = "reviewing" /\ task.view.frozen
    => task'.view = task.view

(* What a reviewer is shown is the submission, from the freeze to the      *)
(* verdict.                                                                *)
ReviewersKeepTheirView == [][ReviewersSeeTheSubmission' /\ LateRefreshesLose]_graphVars

(* Every invalidation is answered: unless the process that was to refresh  *)
(* the graph failed or died, the canonical graph is fresh in the end, and  *)
(* a lease left behind by a process that died delays this only             *)
(* (refresh_canonical_graph_best_effort, acquire_refresh_lease).           *)
InvalidationsAreAnswered ==
  []<>(\/ ~ShownAsStale
       \/ \E o \in Builds : does[o] = "approve" /\ Settled(o)
                            /\ (At(o, "crashed") \/ proc[o].outcome = "error"))
=============================================================================
