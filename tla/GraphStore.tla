------------------------------ MODULE GraphStore ------------------------------
(***************************************************************************)
(* The repository graph sidecar: one SQLite file shared by every process   *)
(* of a project (src/src/repository_graph: sqlite.rs, store.rs,            *)
(* index_store.rs, maintenance.rs).                                        *)
(*                                                                         *)
(* Every operator is one transaction, a function of the tables it reads;   *)
(* one that can fail says so in its result.  A snapshot is identified by   *)
(* what it was built from, its content, so that two builds of the same     *)
(* sources complete the same snapshot.  Facts are the content they were    *)
(* extracted from and whether extraction and resolution stayed within      *)
(* their budgets.  A lease is the time it has left.                        *)
(***************************************************************************)
EXTENDS Integers, FiniteSets, FiniteSetsExt

CONSTANTS Builds,       \* build ids, one for each run of the indexer
          SnapshotIds,  \* snapshot_identity of everything that may be indexed
          Views,        \* published view names
          TaskViews,    \* those named task-baseline:* and task-overlay:*
          Contents,     \* what the indexed files may hold
          LeaseTtl,     \* REFRESH_LEASE_TTL
          None

ASSUME LeaseAssumption == LeaseTtl \in Nat \ {0}
ASSUME ViewAssumption == TaskViews \subseteq Views

(* The warnings of a build: a path that discovery left out, and a budget   *)
(* of the analyzers that ran out.                                          *)
Warnings == {"skipped", "budget"}

(* index_builds with the diagnostics and metrics of the build.             *)
IndexBuilds ==
  [state : {"building", "failed", "published", "superseded"}, finished : BOOLEAN,
   snapshot : SnapshotIds, order : Nat, diagnostics : SUBSET Warnings]

(* snapshots with their files, nodes and edges, and the build their        *)
(* diagnostic set belongs to.                                              *)
Snapshots ==
  [completedBy : Builds, created : Nat, facts : [of : Contents, whole : BOOLEAN],
   diagnosticsOf : Builds]

PublishedViews == [snapshot : SnapshotIds, build : Builds, generation : Nat]

GraphRefreshLeases == [owner : Builds, left : 0 .. LeaseTtl]

Sidecars ==
  [builds : [Builds -> IndexBuilds \cup {None}],
   snapshots : [SnapshotIds -> Snapshots \cup {None}],
   views : [Views -> PublishedViews \cup {None}],
   leases : [Views -> GraphRefreshLeases \cup {None}],
   cache : SUBSET Contents]

EmptySidecar ==
  [builds |-> [b \in Builds |-> None], snapshots |-> [s \in SnapshotIds |-> None],
   views |-> [v \in Views |-> None], leases |-> [v \in Views |-> None], cache |-> {}]

Present(table) == {k \in DOMAIN table : table[k] # None}

(* One more than the largest: the rowid of a new build, the time of a new   *)
(* snapshot.                                                               *)
After(numbers) == 1 + Max({0} \cup numbers)

-----------------------------------------------------------------------------
(* Builds (GraphStore for Sidecar).                                        *)

(* load_build: the state column and finished_at together.                  *)
BuildState(db, b) ==
  IF db.builds[b] = None THEN "absent"
  ELSE IF db.builds[b].state # "building" THEN db.builds[b].state
  ELSE IF ~db.builds[b].finished THEN "unfinished"
  ELSE IF db.snapshots[db.builds[b].snapshot] # None THEN "complete" ELSE "corrupt"

SetBuildState(db, b, state) == [db EXCEPT !.builds[b] = [@ EXCEPT !.state = state]]

StartBuild(db, b, s) ==
  [db EXCEPT !.builds[b] =
     [state |-> "building", finished |-> FALSE, snapshot |-> s, diagnostics |-> {},
      order |-> After({db.builds[c].order : c \in Present(db.builds)})]]

(* fail_build: refused, and the refusal ignored by fail_started_build, when *)
(* recovery has settled the build already.                                 *)
FailBuild(db, b) ==
  IF BuildState(db, b) # "unfinished" THEN db
  ELSE [db EXCEPT !.builds[b] = [@ EXCEPT !.state = "failed", !.finished = TRUE]]

SupersedeBuild(db, b) ==
  IF BuildState(db, b) # "complete" THEN db ELSE SetBuildState(db, b, "superseded")

(* reusable_index_metrics: the build that produced the facts and the one    *)
(* the diagnostic set belongs to both warned of what discovery warns of    *)
(* now, and of nothing else.                                               *)
Reusable(db, s, skipped) ==
  /\ db.snapshots[s] # None
  /\ \A b \in {db.snapshots[s].completedBy, db.snapshots[s].diagnosticsOf} :
       db.builds[b].diagnostics = skipped

(* The rows of a new snapshot: itself, its files, nodes and edges.          *)
NewSnapshot(db, b, facts) ==
  [completedBy |-> b, facts |-> facts, diagnosticsOf |-> b,
   created |-> After({db.snapshots[s].created : s \in Present(db.snapshots)})]

(* replace_snapshot_diagnostics.                                           *)
Diagnosed(snapshot, b) == [snapshot EXCEPT !.diagnosticsOf = b]

(* upsert_cached_fragment for the files that were parsed.                  *)
Cached(fragments, parsed) == fragments \cup parsed

(* complete_index.  The facts of a snapshot that is there already are kept *)
(* and those of the commit dropped; the diagnostics are always replaced.   *)
CompleteIndex(db, b, commit) ==
  LET s == db.builds[b].snapshot
      snapshot == IF db.snapshots[s] # None THEN db.snapshots[s]
                  ELSE NewSnapshot(db, b, commit.facts)
  IN IF \/ BuildState(db, b) # "unfinished"
        \/ commit.reuse /\ ~Reusable(db, s, commit.skipped)
     THEN [done |-> FALSE, db |-> db]
     ELSE [done |-> TRUE,
           db |-> [db EXCEPT !.snapshots[s] = Diagnosed(snapshot, b),
                             !.builds[b] = [@ EXCEPT !.finished = TRUE,
                                                     !.diagnostics = commit.diagnostics],
                             !.cache = Cached(@, commit.parsed)]]

-----------------------------------------------------------------------------
(* Publication.                                                            *)

Version(view) ==
  IF view = None THEN None ELSE [snapshot |-> view.snapshot, generation |-> view.generation]

(* publish: the outcome and, unless it failed, the view as it now is.      *)
Publish(db, b, v, expected) ==
  LET current == db.views[v]
      s == db.builds[b].snapshot
      next == [snapshot |-> s, build |-> b,
               generation |-> IF current = None THEN 1 ELSE current.generation + 1]
  IN IF \/ BuildState(db, b) \notin {"complete", "published"}
        \/ db.snapshots[s] = None
        \/ Version(current) # expected
     THEN [outcome |-> "error", view |-> None, db |-> db]
     ELSE IF current # None /\ current.snapshot = s
     THEN [outcome |-> "published", view |-> current, db |-> db]
     ELSE IF current # None /\ db.builds[b].order < db.builds[current.build].order
     THEN [outcome |-> "superseded", view |-> current,
           db |-> SetBuildState(db, b, "superseded")]
     ELSE [outcome |-> "published", view |-> next,
           db |-> SetBuildState([db EXCEPT !.views[v] = next], b, "published")]

-----------------------------------------------------------------------------
(* Leases and maintenance.                                                 *)

Expired(lease) == lease # None /\ lease.left = 0

MutDropExpired(leases) == leases

DropExpired(leases) ==
  [v \in Views |-> IF Expired(leases[v]) THEN None ELSE leases[v]]

(* acquire_refresh_lease: every expired lease goes first.                  *)
AcquireLease(db, v, b) ==
  LET live == DropExpired(db.leases)
  IN [acquired |-> live[v] = None,
      db |-> [db EXCEPT !.leases =
                IF live[v] # None THEN live
                ELSE [live EXCEPT ![v] = [owner |-> b, left |-> LeaseTtl]]]]

HoldsLease(db, v, b) == db.leases[v] # None /\ db.leases[v].owner = b

(* release_refresh_lease asks for the owner only: an expired lease that     *)
(* nobody has taken is still released.                                     *)
ReleaseLease(db, v, b) ==
  IF HoldsLease(db, v, b) THEN [db EXCEPT !.leases[v] = None] ELSE db

(* renew_refresh_lease_at: not once it has expired.                        *)
RenewLease(db, v, b) ==
  IF HoldsLease(db, v, b) /\ ~Expired(db.leases[v])
  THEN [db EXCEPT !.leases[v] = [@ EXCEPT !.left = LeaseTtl]] ELSE db

Interrupted(db, b) ==
  /\ BuildState(db, b) = "unfinished"
  /\ \A v \in Views : HoldsLease(db, v, b) => Expired(db.leases[v])

(* recover_interrupted_builds.                                             *)
RecoverInterruptedBuilds(db) ==
  [db EXCEPT
     !.builds = [b \in Builds |-> IF Interrupted(db, b)
                                  THEN [db.builds[b] EXCEPT !.state = "failed",
                                                            !.finished = TRUE]
                                  ELSE db.builds[b]],
     !.leases = DropExpired(db.leases)]

(* The n members of S that come last.                                      *)
Newest(S, n, rank(_)) == {x \in S : Cardinality({y \in S : rank(y) > rank(x)}) < n}

(* The first half of collect_garbage: the publications of tasks that are   *)
(* not protected, then the snapshots that are neither published nor        *)
(* protected nor among the newest of the rest, then the fragments of files *)
(* that no snapshot has.                                                   *)
CollectSnapshots(db, maxSnapshots, protected) ==
  LET views == [v \in Views |-> IF v \in TaskViews \ protected.views THEN None
                                ELSE db.views[v]]
      published == {views[v].snapshot : v \in Present(views)}
      ordinary == Present(db.snapshots) \ (published \cup protected.snapshots)
      kept == Newest(ordinary, maxSnapshots, LAMBDA s : db.snapshots[s].created)
      snapshots == [s \in SnapshotIds |-> IF s \in ordinary \ kept THEN None
                                          ELSE db.snapshots[s]]
  IN [db EXCEPT !.views = views, !.snapshots = snapshots,
                !.cache = {c \in @ : \E s \in Present(snapshots) : snapshots[s].facts.of = c}]

MutCollectBuilds(db, maxFailedBuilds) ==
  LET failed == {b \in Present(db.builds) : db.builds[b].state = "failed"}
      recent == Newest(failed, maxFailedBuilds, LAMBDA b : db.builds[b].order)
      referenced == {db.snapshots[s].completedBy : s \in Present(db.snapshots)}
                    \cup {db.views[v].build : v \in Present(db.views)}
  IN [db EXCEPT !.builds = [b \in Builds |->
        IF /\ db.builds[b] # None /\ db.builds[b].finished
           /\ b \notin referenced \cup recent
        THEN None ELSE db.builds[b]]]

(* The second half: the settled builds that nothing refers to any more, but *)
(* for the newest failed ones.                                             *)
CollectBuilds(db, maxFailedBuilds) ==
  LET failed == {b \in Present(db.builds) : db.builds[b].state = "failed"}
      recent == Newest(failed, maxFailedBuilds, LAMBDA b : db.builds[b].order)
      referenced == {db.snapshots[s].completedBy : s \in Present(db.snapshots)}
                    \cup {db.snapshots[s].diagnosticsOf : s \in Present(db.snapshots)}
                    \cup {db.views[v].build : v \in Present(db.views)}
  IN [db EXCEPT !.builds = [b \in Builds |->
        IF /\ db.builds[b] # None /\ db.builds[b].finished
           /\ b \notin referenced \cup recent
        THEN None ELSE db.builds[b]]]
=============================================================================
