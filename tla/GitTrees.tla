------------------------------- MODULE GitTrees -------------------------------
(***************************************************************************)
(* Git as Ferrus uses it for task workspaces: captured trees, the           *)
(* inventory of a worktree, the patch of a submission, three-way merges and *)
(* the trees that approval writes into the project                         *)
(* (src/src/repository_graph/source/worktree.rs and worktree/git.rs,        *)
(* src/src/server/tools/submit.rs and approve/integration.rs).              *)
(*                                                                         *)
(* A tree gives every path its content, None where it has no file.  A      *)
(* content is one hunk: a file whose hunks merge independently is several   *)
(* paths.  A worktree is its files, its index and the tree of HEAD, None    *)
(* before the first commit; its ignore rules are the content of one of its  *)
(* own files.                                                              *)
(***************************************************************************)
EXTENDS Integers, FiniteSets

CONSTANTS Paths,
          Contents,
          IgnoreFile,     \* .gitignore
          IgnoreRules,    \* content of the ignore file |-> the paths it names
          RuntimePaths,   \* .ferrus
          AgentConfigs,   \* AGENT_CONFIG_PATHS
          GraphPaths,     \* what the source policy lets the graph see
          None

Trees == [Paths -> Contents \cup {None}]
EmptyTree == [p \in Paths |-> None]
HasFile(tree) == {p \in Paths : tree[p] # None}

Worktrees == [files : Trees, index : Trees, head : Trees \cup {None}]

HeadTree(w) == IF w.head = None THEN EmptyTree ELSE w.head
Ignored(files) == IgnoreRules[files[IgnoreFile]]

(* git ls-files, of the index and of the other files with --exclude-standard *)
(* and with --ignored.                                                     *)
Cached(w) == HasFile(w.index)
Others(w) == (HasFile(w.files) \ Cached(w)) \ Ignored(w.files)
IgnoredUntrackedPaths(w) == (HasFile(w.files) \ Cached(w)) \cap Ignored(w.files)

(* git diff of a tree and the worktree: a path that is not in the index     *)
(* counts as deleted.                                                      *)
Diffed(w) == [p \in Paths |-> IF p \in Cached(w) THEN w.files[p] ELSE None]

MutCaptureWorktreeTree(w) ==
  [p \in Paths |-> IF p \in RuntimePaths \/ p \notin Cached(w) THEN None ELSE w.files[p]]

(* capture_worktree_tree: HEAD in a temporary index, then add -A: the index *)
(* of the worktree itself plays no part.                                   *)
CaptureWorktreeTree(w) ==
  LET skipped == RuntimePaths \cup (Ignored(w.files) \ HasFile(HeadTree(w)))
  IN [p \in Paths |-> IF p \in skipped THEN None ELSE w.files[p]]

-----------------------------------------------------------------------------
(* The inventory of a worktree and the overlay of its changes.             *)

(* listed_paths: without the runtime paths.                                *)
ListedPaths(S) == S \ RuntimePaths

Tracked(w) == ListedPaths(Cached(w))
Untracked(w) == ListedPaths(Others(w))

(* baseline_entries.                                                       *)
BaselineEntries(baseline) == ListedPaths(HasFile(baseline))

(* untracked_matches_baseline.                                             *)
UntrackedMatches(w, baseline, p) == w.files[p] = baseline[p]

MutChangedPaths(w, baseline) ==
  LET entries == BaselineEntries(baseline)
      differing == ListedPaths({p \in Paths : Diffed(w)[p] # baseline[p]})
  IN (differing \ (entries \cap Untracked(w)))
     \cup (entries \ (Untracked(w) \cup Tracked(w)))
     \cup ((Tracked(w) \cup Untracked(w)) \ entries)

(* changed_paths.  The diff reports a path of the baseline that is not      *)
(* tracked as deleted: for an untracked file that is corrected by its       *)
(* content.  A rename is its deletion and its addition.                    *)
ChangedPaths(w, baseline) ==
  LET entries == BaselineEntries(baseline)
      tracked == Tracked(w)
      untracked == Untracked(w)
      diffed == Diffed(w)
      differing == ListedPaths({p \in Paths : diffed[p] # baseline[p]})
      modified == {p \in entries \cap untracked : ~UntrackedMatches(w, baseline, p)}
      deleted == entries \ (untracked \cup tracked)
      added == (tracked \cup untracked) \ entries
  IN (differing \ (entries \cap untracked)) \cup modified \cup deleted \cup added

(* TaskBaselineSource::discover, on a tree: what the policy leaves.        *)
TreeManifest(tree) == [p \in Paths |-> IF p \in GraphPaths \ RuntimePaths THEN tree[p] ELSE None]

(* LocalRepositorySource::discover, on the worktree: tracked and untracked *)
(* files.                                                                  *)
WorktreeManifest(w) ==
  LET present == Cached(w) \cup Others(w)
  IN TreeManifest([p \in Paths |-> IF p \in present THEN w.files[p] ELSE None])

(* TaskOverlaySource::discover: a change takes the current file, or none;   *)
(* everything else comes from the baseline.                                *)
EffectiveFiles(w, baseline) ==
  LET changes == ChangedPaths(w, baseline)
      current == WorktreeManifest(w)
      unchanged == TreeManifest(baseline)
  IN [p \in Paths |-> IF p \in changes THEN current[p] ELSE unchanged[p]]

(* frozen_tree_matches_snapshot.                                           *)
FrozenTreeMatches(w, baseline, tree) == TreeManifest(tree) = EffectiveFiles(w, baseline)

-----------------------------------------------------------------------------
(* Patches: the paths they change, with the content before and after.      *)

(* tree_patch_between.                                                     *)
TreePatch(from, to) ==
  [p \in {q \in Paths : from[q] # to[q]} |-> [old |-> from[p], new |-> to[p]]]

(* The patch of some paths of the worktree against the baseline.           *)
PathPatch(w, baseline, S) ==
  TreePatch(baseline, [p \in Paths |-> IF p \in S THEN w.files[p] ELSE baseline[p]])

(* baseline_untracked_path_patch: a path of the baseline against the file,  *)
(* ignored or not, or against nothing.                                     *)
BaselineUntracked(w, baseline) == BaselineEntries(baseline) \ Tracked(w)

(* new_file_patch.                                                         *)
NewFiles(w, baseline) == Untracked(w) \ BaselineEntries(baseline)

(* workspace_patch_against_baseline.                                       *)
WorkspacePatch(w, baseline) ==
  PathPatch(w, baseline, Tracked(w) \cup BaselineUntracked(w, baseline) \cup NewFiles(w, baseline))

(* submitted_tree_from_patch: git apply to an index that holds the baseline.*)
PatchApplies(baseline, patch) == \A p \in DOMAIN patch : baseline[p] = patch[p].old
SubmittedTreeFromPatch(baseline, patch) ==
  [p \in Paths |-> IF p \in DOMAIN patch THEN patch[p].new ELSE baseline[p]]

-----------------------------------------------------------------------------
(* Integration.                                                            *)

(* merge_trees: one side's change, or both when they are the same.         *)
Merges(base, ours, theirs) ==
  \A p \in Paths : ours[p] = base[p] \/ theirs[p] = base[p] \/ ours[p] = theirs[p]

MutMergeTrees(base, ours, theirs) == theirs

MergeTrees(base, ours, theirs) ==
  [p \in Paths |-> IF theirs[p] = base[p] THEN ours[p] ELSE theirs[p]]

(* tree_changes.                                                           *)
TreeChanges(from, to) == {p \in Paths : from[p] # to[p]}

(* reject_sparse_checkout_exclusions, given the paths a sparse checkout     *)
(* leaves out.                                                             *)
RejectsSparse(changes, sparse) == changes \cap sparse # {}

(* reject_ignored_path_collisions.                                         *)
RejectsIgnored(w, from, to) ==
  \E p \in TreeChanges(from, to) : from[p] = None /\ p \in IgnoredUntrackedPaths(w)

(* validate_tree_materialization, given the submodules too.                *)
CanMaterialize(w, from, to, sparse, gitlinks) ==
  /\ TreeChanges(from, to) \cap gitlinks = {}
  /\ ~RejectsIgnored(w, from, to)
  /\ ~RejectsSparse(TreeChanges(from, to), sparse)

(* materialize_tree: read-tree of the current tree into a temporary index,  *)
(* then read-tree --reset -u of the target.  The index knows nothing of the *)
(* files, so every file of the target is written, and what only the current *)
(* tree has is removed.                                                    *)
Materialize(files, current, target) ==
  [p \in Paths |-> IF target[p] # None THEN target[p]
                   ELSE IF current[p] # None THEN None ELSE files[p]]

(* tree_without_paths.                                                     *)
TreeWithoutPaths(tree, S) == [p \in Paths |-> IF p \in S THEN None ELSE tree[p]]
=============================================================================
