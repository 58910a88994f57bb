---------------------------- MODULE SourceDiscovery ----------------------------
(***************************************************************************)
(* How the indexer finds out what a repository holds, while somebody works *)
(* in it (src/src/repository_graph/source: mod.rs, git.rs, filesystem.rs,  *)
(* discovery.rs, content.rs, worktree/git.rs).                             *)
(*                                                                         *)
(* A program is a repository and its configuration.  What lies at a path is *)
(* its kind, text, size, and whether it is binary or executable; a directory*)
(* is there when something lies below it.  Between any two steps of a       *)
(* discovery the files may be edited and committed.  A source is discovered *)
(* once and, before its graph is published, revalidated: discovered again   *)
(* and compared.                                                           *)
(***************************************************************************)
EXTENDS SourcePolicy, FiniteSetsExt, Functions

CONSTANTS Programs, Paths,
          UnsupportedNames,   \* names that are not UTF-8 or hold a backslash
          MaxDirectoryDepth,  \* MAX_DIRECTORY_DEPTH
          None

VARIABLES program, disk, index, head, edits,
          scan,       \* the discovery under way
          manifest,   \* the manifest of the source, None before it is discovered
          verdict,    \* what revalidate answered
          calm        \* nothing was edited since the last discovery began

vars == <<program, disk, index, head, edits, scan, manifest, verdict, calm>>

Limits == program.limits

Policy == program.policy

(* Paths are compared by their components, the shorter first.              *)
PathLess(a, b) ==
  \E k \in 1 .. Len(b) :
    /\ k = Len(a) + 1 \/ (k <= Len(a) /\ a[k] < b[k])
    /\ \A i \in 1 .. k - 1 : a[i] = b[i]

Codes == <<"binary_file_skipped", "directory_depth_exceeded", "directory_missing",
           "directory_unreadable", "file_missing", "file_too_large", "file_unreadable",
           "generated_path_excluded", "git_ignored_paths_excluded", "gitlink_skipped",
           "path_encoding_unsupported", "path_not_included", "runtime_path_excluded",
           "sensitive_path_excluded", "source_rule_excluded", "special_file_skipped",
           "symlink_skipped", "untracked_paths_excluded", "vendor_path_excluded">>

CodeRank(code) == CHOOSE k \in 1 .. Len(Codes) : Codes[k] = code

(* diagnostic_sort_key: a diagnostic without a path, << >>, comes first.   *)
DiagnosticLess(d, e) ==
  \/ PathLess(d.path, e.path)
  \/ d.path = e.path /\ CodeRank(d.code) < CodeRank(e.code)

MutPush(collector, code, path) ==
  LET d == [code |-> code, path |-> path]
      all == SortSeq(Append(collector.kept, d), DiagnosticLess)
  IN [kept |-> IF Len(collector.kept) < Limits.diagnostics THEN all ELSE collector.kept,
      suppressed |-> collector.suppressed + IF Len(all) > Limits.diagnostics THEN 1 ELSE 0,
      reported |-> Append(collector.reported, d)]

(* DiagnosticCollector::push: the diagnostics are sorted, and the last goes *)
(* when there are too many.  All that were reported are kept besides.       *)
Push(collector, code, path) ==
  LET d == [code |-> code, path |-> path]
      all == SortSeq(Append(collector.kept, d), DiagnosticLess)
  IN [kept |-> SubSeq(all, 1, Min({Len(all), Limits.diagnostics})),
      suppressed |-> collector.suppressed + IF Len(all) > Limits.diagnostics THEN 1 ELSE 0,
      reported |-> Append(collector.reported, d)]

Skip(s, code, path) ==
  [s EXCEPT !.diagnostics = Push(@, code, path), !.skipped = @ + 1]

NewScan ==
  [phase |-> "start", pending |-> {}, candidates |-> << >>, opened |-> None, files |-> << >>,
   diagnostics |-> [kept |-> << >>, suppressed |-> 0, reported |-> << >>], skipped |-> 0,
   directories |-> 0, listed |-> 0, total |-> 0, includesUntracked |-> FALSE,
   hidden |-> FALSE, untracked |-> FALSE, dirty |-> FALSE]

Failed(s) == [NewScan EXCEPT !.phase = "failed", !.total = s.total,
                             !.diagnostics = s.diagnostics]

-----------------------------------------------------------------------------
(* The files.                                                              *)

Present(files) == {p \in DOMAIN files : files[p] # None}

Parents(p) == {SubSeq(p, 1, k) : k \in 1 .. Len(p) - 1}

Directories(files) == UNION {Parents(p) : p \in Present(files)}

Below(d, p) == Len(p) > Len(d) /\ SubSeq(p, 1, Len(d)) = d

(* The names in a directory.                                               *)
Children(d) ==
  {SubSeq(p, 1, Len(d) + 1) : p \in {q \in Present(disk) : Below(d, q)}}

Unnormal(p) == \E i \in 1 .. Len(p) : p[i] \in UnsupportedNames

(* open_unix_path, component by component and never through a symbolic     *)
(* link.  A directory opens as a file does, and is no file.                *)
OpenFile(p) ==
  IF \E q \in Parents(p) : disk[q] # None THEN "symlink"
  ELSE IF disk[p] = None THEN IF p \in Directories(disk) THEN "directory" ELSE "missing"
  ELSE disk[p].kind

OpenDirectory(d) ==
  IF \E q \in Parents(d) \cup {d} : disk[q] # None THEN "symlink"
  ELSE IF d \notin Directories(disk) THEN "missing"
  ELSE IF d \in program.locked THEN "unreadable" ELSE "directory"

-----------------------------------------------------------------------------
(* FilesystemRepositorySource: the directories one after the other.        *)

StartFilesystem(s) == [s EXCEPT !.phase = "walk", !.pending = {<< >>}]

(* The closure of visit_directory_entries, for one entry.                  *)
VisitEntry(s, p) ==
  IF s.phase = "failed" THEN s
  ELSE IF Unnormal(p) THEN Skip(s, "path_encoding_unsupported", << >>)
  ELSE IF disk[p] = None
  THEN LET code == ExclusionForDirectory(Policy, p)
       IN IF code # "none" THEN Skip(s, code, p)
          ELSE IF Len(p) >= MaxDirectoryDepth THEN Skip(s, "directory_depth_exceeded", p)
          ELSE [s EXCEPT !.pending = @ \cup {p}]
  ELSE IF s.listed >= Limits.files THEN Failed(s)
  ELSE [s EXCEPT !.listed = @ + 1,
                 !.candidates = Append(@, [path |-> p, kind |-> disk[p].kind,
                                           untracked |-> FALSE])]

(* collect_directory: it is counted when it is entered.                    *)
CollectDirectory(s, d) ==
  IF s.directories >= Limits.directories THEN Failed(s)
  ELSE FoldLeft(VisitEntry, [s EXCEPT !.directories = @ + 1],
                SetToSortSeq(Children(d), PathLess))

(* A directory that cannot be opened is reported where it was met.         *)
EnterDirectory(s, d) ==
  LET rest == [s EXCEPT !.pending = @ \ {d}]
      opened == IF d = << >> THEN "directory" ELSE OpenDirectory(d)
  IN CASE opened = "directory" -> CollectDirectory(rest, d)
       [] opened = "symlink" -> Skip(rest, "symlink_skipped", d)
       [] opened = "missing" -> Skip(rest, "directory_missing", d)
       [] opened = "unreadable" -> Skip(rest, "directory_unreadable", d)

-----------------------------------------------------------------------------
(* GitRepositorySource: what git ls-files prints, taken as one moment each.*)

Tracked == Present(index)

UntrackedFiles ==
  {p \in Present(disk) \ (Tracked \cup program.ignored) : disk[p].kind # "gitlink"}

(* tracked_candidates: the mode of the index; a path in conflict is tried   *)
(* as a file.                                                              *)
TrackedCandidates(s) ==
  IF Cardinality(Tracked) > Limits.files THEN Failed(s)
  ELSE [s EXCEPT !.phase = "tracked", !.hidden = Tracked \cap program.hidden # {},
                 !.candidates =
                   [i \in 1 .. Cardinality(Tracked) |->
                      LET p == SetToSortSeq(Tracked, PathLess)[i]
                      IN [path |-> p, untracked |-> FALSE,
                          kind |-> IF index[p].kind = "conflict" THEN "file"
                                   ELSE index[p].kind]]]

ListUntracked(s) ==
  IF ~Policy.untracked
  THEN LET listed == [s EXCEPT !.phase = "untracked", !.untracked = UntrackedFiles # {}]
       IN IF UntrackedFiles = {} THEN listed
          ELSE Skip(listed, "untracked_paths_excluded", << >>)
  ELSE LET known == {s.candidates[i].path : i \in DOMAIN s.candidates}
           new == SetToSortSeq(UntrackedFiles \ known, PathLess)
       IN IF Len(s.candidates) + Len(new) > Limits.files THEN Failed(s)
          ELSE [s EXCEPT !.phase = "untracked", !.untracked = UntrackedFiles # {},
                         !.candidates = @ \o [i \in DOMAIN new |->
                            [path |-> new[i], untracked |-> TRUE, kind |-> "file"]]]

ProbeIgnored(s) ==
  IF (Present(disk) \ Tracked) \cap program.ignored = {} THEN s
  ELSE Skip(s, "git_ignored_paths_excluded", << >>)

(* normalize_git_path drops what cannot be named.                          *)
Normalized(s) ==
  LET dropped == SelectSeq(s.candidates, LAMBDA c : Unnormal(c.path))
  IN FoldLeft(LAMBDA t, c : Skip(t, "path_encoding_unsupported", << >>),
              [s EXCEPT !.candidates = SelectSeq(@, LAMBDA c : ~Unnormal(c.path))], dropped)

(* record_parent_directories, the root included.                           *)
RecordParentDirectories(s) ==
  LET parents == UNION {Parents(s.candidates[i].path) : i \in DOMAIN s.candidates}
  IN IF parents # {} /\ Cardinality(parents) >= Limits.directories THEN Failed(s)
     ELSE [s EXCEPT !.directories = Cardinality(parents) + 1]

-----------------------------------------------------------------------------
(* build_manifest: the candidates in the order of their paths.             *)

Sorted(s) ==
  [s EXCEPT !.phase = "read",
            !.candidates = SortSeq(@, LAMBDA c, d : PathLess(c.path, d.path))]

Popped(s) == [s EXCEPT !.candidates = Tail(@), !.opened = None]

SkipCandidate(s, code) == Popped(Skip(s, code, Head(s.candidates).path))

(* account_inspected_bytes.                                                *)
Account(s, inspected) ==
  IF s.total + inspected > Limits.totalBytes THEN Failed(s)
  ELSE [s EXCEPT !.total = @ + inspected]

(* A candidate up to its metadata: the source policy, the file itself, and *)
(* its size.                                                               *)
OpenCandidate(s) ==
  LET c == Head(s.candidates)
      excluded == ExclusionForFile(Policy, c.path)
      opened == OpenFile(c.path)
  IN IF excluded # "none" THEN SkipCandidate(s, excluded)
     ELSE IF c.kind = "special" THEN SkipCandidate(s, "special_file_skipped")
     ELSE IF opened = "symlink" THEN SkipCandidate(s, "symlink_skipped")
     ELSE IF opened = "missing" THEN SkipCandidate(s, "file_missing")
     ELSE IF opened = "locked" THEN SkipCandidate(s, "file_unreadable")
     ELSE IF opened # "file"
     THEN SkipCandidate(s, IF c.kind = "gitlink" THEN "gitlink_skipped"
                           ELSE "special_file_skipped")
     ELSE IF disk[c.path].size > Limits.fileBytes THEN SkipCandidate(s, "file_too_large")
     ELSE IF disk[c.path].size > Limits.totalBytes - s.total THEN Failed(s)
     ELSE [s EXCEPT !.opened = disk[c.path]]

Descriptor(path, metadata, content) ==
  [path |-> path, text |-> content.text, size |-> content.size, exec |-> metadata.exec]

(* read_bounded and what follows it.  The content is what the open file    *)
(* holds by now, which may be more than its metadata said.                 *)
ReadCandidate(s, content) ==
  LET c == Head(s.candidates)
      remaining == Limits.totalBytes - s.total
      readLimit == Min({Limits.fileBytes, remaining})
      accounted == Account(s, Min({content.size, readLimit + 1}))
  IN IF accounted.phase = "failed" THEN accounted
     ELSE IF content.size > readLimit
     THEN IF readLimit # remaining THEN SkipCandidate(accounted, "file_too_large")
          ELSE Failed(accounted)
     ELSE IF content.binary THEN SkipCandidate(accounted, "binary_file_skipped")
     ELSE IF Len(s.files) >= Limits.files THEN Failed(accounted)
     ELSE Popped([accounted EXCEPT !.files = Append(@, Descriptor(c.path, s.opened, content)),
                                   !.includesUntracked = @ \/ c.untracked])

(* The parts of the revision and its id that tell one manifest from another;*)
(* set_manifest_source_state for a Git source.                             *)
Manifest(s, kind, base, dirty) ==
  [files |-> s.files, kind |-> kind, base |-> base, dirty |-> dirty,
   includesUntracked |-> s.includesUntracked]

(* git status: staged and unstaged changes and untracked files.  What is    *)
(* marked assume-unchanged or skip-worktree is not looked at, and neither  *)
(* are submodules.                                                         *)
StatusHasOutput ==
  \/ UntrackedFiles # {}
  \/ \E p \in Paths : index[p] # IF head = None THEN None ELSE head[p]
  \/ \E p \in Tracked \ program.hidden : index[p].kind # "gitlink" /\ disk[p] # index[p]

MutStatus(s) == [s EXCEPT !.phase = "base", !.dirty = s.untracked \/ StatusHasOutput]

(* dirty: what the listings said comes before what git status says.        *)
Status(s) ==
  [s EXCEPT !.phase = "base", !.dirty = s.untracked \/ s.hidden \/ StatusHasOutput]

(* base_tree: None before the first commit.                                *)
GitManifest(s) ==
  Manifest(s, IF ~s.dirty /\ head # None THEN "CommittedTree" ELSE "WorkspaceOverlay",
           head, s.dirty)

(* discover_tree_manifest: the same policy and limits for a tree, whose     *)
(* entries cannot change.  None when it is beyond the limits or a path      *)
(* cannot be named.                                                        *)
TreeCandidate(tree, s, p) ==
  LET entry == tree[p]
      code == ExclusionForFile(Policy, p)
  IN IF s.phase = "failed" THEN s
     ELSE IF code # "none" THEN Skip(s, code, p)
     ELSE IF entry.kind = "symlink" THEN Skip(s, "symlink_skipped", p)
     ELSE IF entry.kind = "gitlink" THEN Skip(s, "gitlink_skipped", p)
     ELSE IF entry.kind # "file" THEN Skip(s, "special_file_skipped", p)
     ELSE IF entry.size > Limits.fileBytes THEN Skip(s, "file_too_large", p)
     ELSE IF s.total + entry.size > Limits.totalBytes THEN Failed(s)
     ELSE LET read == [s EXCEPT !.total = @ + entry.size]
          IN IF entry.binary THEN Skip(read, "binary_file_skipped", p)
             ELSE [read EXCEPT !.files = Append(@, Descriptor(p, entry, entry))]

TreeManifest(tree) ==
  LET entries == {p \in Present(tree) : ~HardExcluded(p)}
      parents == UNION {Parents(p) : p \in entries}
      read == FoldLeft(LAMBDA s, p : TreeCandidate(tree, s, p), NewScan,
                       SetToSortSeq(entries, PathLess))
  IN IF \/ \E p \in Present(tree) : Unnormal(p)
        \/ Cardinality(entries) > Limits.files
        \/ parents # {} /\ Cardinality(parents) >= Limits.directories
        \/ read.phase = "failed"
     THEN None ELSE read.files

-----------------------------------------------------------------------------
(* Somebody at work.                                                       *)

Edit ==
  /\ edits > 0 /\ edits' = edits - 1
  /\ \E change \in program.changes : disk' = [p \in Paths |->
       IF p \in DOMAIN change THEN change[p] ELSE disk[p]]
  /\ disk' # disk /\ calm' = FALSE
  /\ UNCHANGED <<program, index, head, scan, manifest, verdict>>

(* git add -A and git commit.                                              *)
Commit ==
  /\ program.git /\ edits > 0 /\ edits' = edits - 1
  /\ index' = [p \in Paths |-> IF p \in program.hidden \/ p \in program.ignored \ Tracked
                               THEN index[p] ELSE disk[p]]
  /\ head' = index' /\ head' # head /\ calm' = FALSE
  /\ UNCHANGED <<program, disk, scan, manifest, verdict>>

-----------------------------------------------------------------------------
(* LocalRepositorySource.                                                  *)

Scanning(phase) == scan.phase = phase

Scan(s) ==
  /\ scan' = s
  /\ UNCHANGED <<program, disk, index, head, edits, manifest, verdict, calm>>

(* discover, and revalidate for a source that is there: either discovers.  *)
Discover ==
  /\ Scanning("idle") /\ verdict = None
  /\ scan' = IF program.git THEN [NewScan EXCEPT !.phase = "git"] ELSE StartFilesystem(NewScan)
  /\ calm' = TRUE
  /\ UNCHANGED <<program, disk, index, head, edits, manifest, verdict>>

Walk ==
  /\ Scanning("walk") /\ scan.opened = None
  /\ \/ \E d \in scan.pending : Scan(EnterDirectory(scan, d))
     \/ scan.pending = {} /\ Scan(Sorted(scan))

ListFiles ==
  \/ Scanning("git") /\ Scan(TrackedCandidates(scan))
  \/ Scanning("tracked") /\ Scan(ListUntracked(scan))
  \/ Scanning("untracked")
     /\ LET recorded == RecordParentDirectories(Normalized(ProbeIgnored(scan)))
        IN Scan(IF recorded.phase = "failed" THEN recorded ELSE Sorted(recorded))

Open ==
  /\ Scanning("read") /\ scan.candidates # << >> /\ scan.opened = None
  /\ Scan(OpenCandidate(scan))

(* An open file shows the edits made to it in place, not those that put    *)
(* another file in its place.                                              *)
Read ==
  /\ Scanning("read") /\ scan.opened # None
  /\ LET now == disk[Head(scan.candidates).path]
     IN \E content \in {scan.opened} \cup {e \in {now} : e # None /\ e.kind = "file"} :
          Scan(ReadCandidate(scan, content))

Inspect ==
  /\ Scanning("read") /\ scan.candidates = << >> /\ program.git
  /\ Scan(Status(scan))

(* same_manifest_identity.                                                 *)
SameManifestIdentity(a, b) == a = b

(* The end of a discovery: the manifest of the source, or the comparison.  *)
Finish ==
  /\ \/ Scanning("read") /\ scan.candidates = << >> /\ ~program.git
     \/ Scanning("base")
  /\ LET found == IF program.git THEN GitManifest(scan)
                  ELSE Manifest(scan, "NonGitManifest", None, FALSE)
     IN IF manifest = None THEN manifest' = found /\ verdict' = None
        ELSE /\ verdict' = IF SameManifestIdentity(manifest, found) THEN "same" ELSE "changed"
             /\ UNCHANGED manifest
  /\ scan' = [scan EXCEPT !.phase = "idle"]
  /\ UNCHANGED <<program, disk, index, head, edits, calm>>

Init ==
  /\ program \in Programs
  /\ disk = program.disk /\ index = program.index /\ head = program.head
  /\ edits = program.edits
  /\ scan = [NewScan EXCEPT !.phase = "idle"]
  /\ manifest = None /\ verdict = None /\ calm = TRUE

Next == Edit \/ Commit \/ Discover \/ Walk \/ ListFiles \/ Open \/ Read \/ Inspect \/ Finish

Spec == Init /\ [][Next]_vars

-----------------------------------------------------------------------------
(* Properties.                                                             *)

(* The files the configuration asks for, as they lie on the disk.          *)
Wanted ==
  {p \in Present(disk) :
     /\ ~Unnormal(p) /\ OpenFile(p) = "file"
     /\ ~program.git => Len(p) <= MaxDirectoryDepth
     /\ program.git => \/ p \in Tracked /\ index[p].kind # "special"
                       \/ Policy.untracked /\ p \in UntrackedFiles
     /\ ExclusionForFile(Policy, p) = "none"
     /\ disk[p].size <= Limits.fileBytes /\ ~disk[p].binary}

(* When revalidate says that a source is still the same, and nothing was   *)
(* edited while it looked, the manifest that was held all along lists the  *)
(* wanted files with the bytes and the mode they have now, in path order:  *)
(* edits between the steps of the first discovery do not leave a torn      *)
(* manifest that is accepted.  A manifest that calls itself a committed    *)
(* tree is moreover the manifest of that tree, as TaskBaselineSource would *)
(* compute it.                                                             *)
RevalidatedIsCurrent ==
  (verdict = "same" /\ calm) =>
    /\ LET wanted == SetToSortSeq({p \in Wanted : \A d \in Parents(p) :
                        d \notin program.locked}, PathLess)
       IN manifest.files = [i \in DOMAIN wanted |->
            Descriptor(wanted[i], disk[wanted[i]], disk[wanted[i]])]
    /\ manifest.kind = "CommittedTree" =>
         /\ manifest.base = head
         /\ \/ manifest.files = TreeManifest(head)
            \/ TreeManifest(head) = None /\ \E p \in Present(head) : Unnormal(p)

(* However the files grow while they are read and in whatever order the     *)
(* directories are met, a discovery reads no more bytes and lists no more  *)
(* files and directories than the limits allow, and of the diagnostics it  *)
(* keeps the first in the order of paths and counts the others.            *)
DiscoveryBounded ==
  /\ scan.total <= Limits.totalBytes
  /\ Len(scan.files) <= Limits.files /\ scan.directories <= Limits.directories
  /\ LET all == SortSeq(scan.diagnostics.reported, DiagnosticLess)
         n == Min({Len(all), Limits.diagnostics})
     IN /\ scan.diagnostics.kept = SubSeq(all, 1, n)
        /\ scan.diagnostics.suppressed = Len(all) - n

(* The worklist over pattern and path positions finds what the patterns    *)
(* mean, and a directory that exclusion_for_directory prunes holds no file *)
(* that exclusion_for_file would keep, so that the walk and the Git listing *)
(* agree, as long as the patterns match whole subtrees.                    *)
PruningLosesNothing ==
  Scanning("idle") /\ manifest = None =>
    LET patterns == Policy.include \cup Policy.sensitive
                    \cup {Policy.rules[k].pattern : k \in DOMAIN Policy.rules}
        excluding == Policy.sensitive \cup {Policy.rules[k].pattern : k \in DOMAIN Policy.rules}
    IN /\ \A g \in patterns, p \in Paths : Len(g) > 1 => (GlobMatches(g, p) <=> Matches(g, p))
       /\ (\A g \in excluding : WholeSubtrees(g)) =>
            \A d \in Paths, p \in Paths :
              (Below(d, p) /\ ExclusionForDirectory(Policy, d) # "none")
                => ExclusionForFile(Policy, p) # "none"
=============================================================================
