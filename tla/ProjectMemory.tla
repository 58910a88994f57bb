---------------------------- MODULE ProjectMemory ----------------------------
(***************************************************************************)
(* How project memory is built (src/src/project_memory: source.rs,         *)
(* index.rs, links.rs).  `ferrus graph memory index' and the refresh after *)
(* a spec archive are processes of their own: each discovers the authorized *)
(* sources, extracts facts from them, looks at the sources again, resolves *)
(* what the facts say of the repository against the canonical graph, and   *)
(* completes and publishes a revision.  Meanwhile specs are edited and     *)
(* archived, tasks end, the graph of the repository moves on or cannot be  *)
(* read, its old snapshots are collected, and a process may die.           *)
(*                                                                         *)
(* Texts and outcomes stand for what parse_spec_memory makes of them.      *)
(***************************************************************************)
EXTENDS MemoryStore

CONSTANTS Specs,       \* tracked specifications
          Texts,       \* what a specification may hold
          StructureOf, \* the structure parse_spec_memory finds in a text
          OutcomeOf,   \* its ## Outcome, or None
          References,  \* path: and symbol: references, and the paths of specs
          MentionedIn, \* the references in the text of an outcome
          Tasks,       \* tasks that may end, and
          OriginOf,    \*   the snapshots of the baseline and the view of each,
          MilestoneOf, \*   and the specification its milestone is in, one for each
          Snapshots,   \* snapshots of the repository graph
          FilesIn,     \* the file identities of each: a function of paths
          NodesFor,    \* the number of nodes with the key of a symbol
          Programs     \* which processes run, and how often what happens to them

VARIABLES sources, db, graph, proc, left,
          clock,     \* how often the sources have changed
          history    \* the publications, and when they were made and checked

memoryVars == <<sources, db, graph, proc, left, clock, history>>

-----------------------------------------------------------------------------
(* The authorized sources (discover_scoped).                               *)

Entry(category, locator, fingerprint) ==
  [category |-> category, locator |-> locator, fingerprint |-> fingerprint]

SpecEntries(s, text) ==
  {Entry("structure", s, StructureOf[text])}
  \cup (IF [spec |-> s, outcome |-> OutcomeOf[text]] \in sources.archives
        THEN {Entry("outcome", s, OutcomeOf[text])} ELSE {})

(* discover_archives and discover_runtime.                                 *)
ArchiveEntries == {Entry("archive", a.spec, a.outcome) : a \in sources.archives}
RuntimeEntries == {Entry("runtime", t, t) : t \in sources.tasks}

(* A specification that is tracked but not in the tree fails discovery.    *)
Discoverable == \A s \in Specs : sources.specs[s] # "missing"

Manifest ==
  UNION {SpecEntries(s, sources.specs[s]) : s \in {t \in Specs : sources.specs[t] # None}}
  \cup ArchiveEntries \cup RuntimeEntries

(* What extracting an entry now would amount to: a specification is read    *)
(* again, the other sources were taken down during discovery.              *)
ReadNow(entry) ==
  IF entry.category \notin {"structure", "outcome"} THEN entry
  ELSE LET text == sources.specs[entry.locator]
       IN IF text \in {None, "missing"} THEN None
          ELSE [entry EXCEPT !.fingerprint = IF entry.category = "structure"
                                             THEN StructureOf[text] ELSE OutcomeOf[text]]

MutSourceChanged(entries) == \E e \in entries : ReadNow(e) = None

(* read_verified: a source that is not what was discovered is an error.    *)
SourceChanged(entries) == \E e \in entries : ReadNow(e) # e

-----------------------------------------------------------------------------
(* Evidence of the repository in the facts (candidates).                   *)

SpecPath(s) == [kind |-> "path", name |-> s]

Candidate(source, kind, ref, origin) ==
  [id |-> <<source, kind, ref>>, ref |-> ref, origin |-> origin]

Identity(s, p) == IF p \in DOMAIN FilesIn[s] THEN FilesIn[s][p] ELSE None

(* origin_changed_paths: nothing unless both snapshots are still there.    *)
ChangedPaths(origin, stored) ==
  IF ~({origin.baseline, origin.view} \subseteq stored) THEN {}
  ELSE {[path |-> p, origin |-> IF Identity(origin.view, p) # None THEN origin.view
                                ELSE origin.baseline]
        : p \in {q \in DOMAIN FilesIn[origin.view] \cup DOMAIN FilesIn[origin.baseline] :
                   Identity(origin.view, q) # Identity(origin.baseline, q)}}

MilestoneFacts(facts, task) ==
  {g \in facts : g.category = "structure" /\ g.locator = MilestoneOf[task]}

(* The limit of 20,000 links is not reached here.                          *)
Candidates(facts, stored) ==
  {Candidate(f, "concerns", SpecPath(f.locator), None)
   : f \in {g \in facts : g.category # "runtime"}}
  \cup UNION {{Candidate(f, "touches", ref, None) : ref \in MentionedIn[f.fingerprint]}
              : f \in {g \in facts : g.category = "outcome"}}
  \cup UNION {{Candidate(source, "touches", [kind |-> "path", name |-> c.path], c.origin)
               : source \in {f} \cup MilestoneFacts(facts, f.locator),
                 c \in ChangedPaths(OriginOf[f.locator], stored)}
              : f \in {g \in facts : g.category = "runtime"}}

(* path_exists and symbol_nodes.                                           *)
Matches(ref, s, stored) ==
  IF s \notin stored THEN 0
  ELSE IF ref.kind = "path" THEN IF Identity(s, ref.name) # None THEN 1 ELSE 0
  ELSE NodesFor[s][ref.name]

MutResolveCandidate(c, snapshot, stored, previous) ==
  LET now == Matches(c.ref, snapshot, stored)
      Link(target, resolution) ==
        [id |-> c.id, ref |-> c.ref, target |-> target, resolution |-> resolution]
  IN IF now # 0 THEN Link(snapshot, "resolved")
     ELSE IF Matches(c.ref, c.origin, stored) = 1 THEN Link(c.origin, "stale")
     ELSE Link(None, "unresolved")

(* resolve_candidate.                                                      *)
ResolveCandidate(c, snapshot, stored, previous) ==
  LET now == Matches(c.ref, snapshot, stored)
      old == {l \in previous : l.id = c.id /\ l.resolution # "unresolved"}
      Link(target, resolution) ==
        [id |-> c.id, ref |-> c.ref, target |-> target, resolution |-> resolution]
  IN IF now = 1 THEN Link(snapshot, "resolved")
     ELSE IF now > 1 THEN Link(snapshot, "unresolved")
     ELSE IF Matches(c.ref, c.origin, stored) = 1 THEN Link(c.origin, "stale")
     ELSE IF old # {} THEN Link((CHOOSE l \in old : TRUE).target, "stale")
     ELSE Link(None, "unresolved")

(* link_set_id.                                                            *)
LinkSetId(revision, facts, snapshot, stored) ==
  [revision |-> revision, snapshot |-> snapshot,
   origins |-> UNION {{OriginOf[f.locator].baseline, OriginOf[f.locator].view}
                      : f \in {g \in facts : g.category = "runtime"}} \cap stored]

(* resolve.  A set with this identity is taken as it is; a repository      *)
(* without a readable graph resolves nothing and falls back on nothing.    *)
ResolveLinks(revision, facts, snapshot) ==
  LET stored == IF snapshot = None THEN {} ELSE graph.stored
      id == LinkSetId(revision, facts, snapshot, stored)
      previous == UNION {db.linkSets[i].links : i \in PreviousLinkSet(db, id)}
  IN IF LinkSetWithId(db, id) # {} THEN [id |-> id, links |-> previous]
     ELSE [id |-> id,
           links |-> {ResolveCandidate(c, snapshot, stored,
                                       IF snapshot = None THEN {} ELSE previous)
                      : c \in Candidates(facts, stored)}]

-----------------------------------------------------------------------------
Idle ==
  [at |-> "idle", manifest |-> None, expected |-> None, facts |-> {}, fragments |-> {},
   checked |-> 0, snapshot |-> None, commit |-> None]

Init ==
  \E program \in Programs :
    /\ sources = program.sources
    /\ db = IF program.compatible THEN EmptyMemory ELSE IncompatibleMemory
    /\ graph = [ready |-> FALSE, current |-> None, stored |-> {}, collected |-> {}]
    /\ proc = [b \in Builds |-> [Idle EXCEPT !.at = IF b \in program.builds THEN "idle"
                                                    ELSE "done"]]
    /\ left = program.bounds
    /\ clock = 0
    /\ history = <<>>

At(b, at) == proc[b].at = at
Goto(b, p) == proc' = [proc EXCEPT ![b] = p]
Finish(b) == Goto(b, [Idle EXCEPT !.at = "done"])
Use(bound) == left[bound] > 0 /\ left' = [left EXCEPT ![bound] = @ - 1]
files == <<sources, clock>>

-----------------------------------------------------------------------------
(* The indexer.                                                            *)

(* discover_current.                                                       *)
Discover(b) ==
  /\ At(b, "idle")
  /\ IF Discoverable THEN Goto(b, [Idle EXCEPT !.at = "discovered", !.manifest = Manifest])
     ELSE Finish(b)
  /\ UNCHANGED <<db, graph, files, left, history>>

(* open_at, where --full replaces a sidecar that is incompatible, and the   *)
(* start of index: the published view, then the build.                     *)
Start(b, full) ==
  /\ At(b, "discovered")
  /\ full => left.full
  /\ \E opened \in {IF db.compatible \/ ~full THEN db ELSE EmptyMemory} :
       IF ~opened.compatible THEN Finish(b) /\ UNCHANGED db
       ELSE /\ db' = StartBuild(opened, b, proc[b].manifest)
            /\ Goto(b, [proc[b] EXCEPT !.at = IF full THEN "full" ELSE "started",
                                       !.expected = Version(opened)])
  /\ UNCHANGED <<graph, files, left, history>>

Fail(b) == Finish(b) /\ db' = FailBuild(db, b)

(* The loop of prepare_commit: a cached fragment, or the source read again, *)
(* which must be what was discovered.                                      *)
Extract(b) ==
  /\ At(b, "started") \/ At(b, "full")
  /\ LET reused == IF At(b, "full") THEN {}
                   ELSE {e \in proc[b].manifest : CachedFragment(db, e) # {}}
         read == proc[b].manifest \ reused
         fragments == {[key |-> e, of |-> ReadNow(e)] : e \in read}
         facts == {f.of : f \in fragments}
                  \cup {f.of : f \in UNION {CachedFragment(db, e) : e \in reused}}
     IN IF SourceChanged(read) THEN Fail(b)
        ELSE /\ Goto(b, [proc[b] EXCEPT !.at = "extracted", !.facts = facts,
                                        !.fragments = fragments])
             /\ UNCHANGED db
  /\ UNCHANGED <<graph, files, left, history>>

(* revalidate: discovery once more, and the same manifest.                 *)
Revalidate(b) ==
  /\ At(b, "extracted")
  /\ IF ~Discoverable \/ Manifest # proc[b].manifest THEN Fail(b)
     ELSE /\ Goto(b, [proc[b] EXCEPT !.at = "valid", !.checked = clock])
          /\ UNCHANGED db
  /\ UNCHANGED <<graph, files, left, history>>

(* LocalRepositoryLinkResolver::open pins the published snapshot, if the    *)
(* graph can be read and has one.                                          *)
OpenResolver(b) ==
  /\ At(b, "valid")
  /\ Goto(b, [proc[b] EXCEPT !.at = "resolving",
                             !.snapshot = IF graph.ready THEN graph.current ELSE None])
  /\ UNCHANGED <<db, graph, files, left, history>>

Resolve(b) ==
  /\ At(b, "resolving")
  /\ Goto(b, [proc[b] EXCEPT !.at = "prepared", !.commit =
         [revision |-> proc[b].manifest, facts |-> proc[b].facts,
          fragments |-> proc[b].fragments,
          linkSet |-> ResolveLinks(proc[b].manifest, proc[b].facts, proc[b].snapshot)]])
  /\ UNCHANGED <<db, graph, files, left, history>>

Complete(b) ==
  /\ At(b, "prepared")
  /\ LET completed == CompleteBuild(db, b, proc[b].commit)
     IN IF completed.done
        THEN db' = completed.db /\ Goto(b, [proc[b] EXCEPT !.at = "complete", !.commit = None])
        ELSE Fail(b)
  /\ UNCHANGED <<graph, files, left, history>>

(* The end of finish.                                                      *)
PublishBuild(b) ==
  /\ At(b, "complete")
  /\ LET published == Publish(db, b, proc[b].expected)
     IN /\ db' = IF published.outcome \in {"conflict", "error"} THEN SupersedeBuild(db, b)
                 ELSE published.db
        /\ history' = IF published.outcome # "published" THEN history
                      ELSE Append(history, [checked |-> proc[b].checked, made |-> clock])
  /\ Finish(b)
  /\ UNCHANGED <<graph, files, left>>

(* The process dies: nothing recovers its build.                           *)
Crash(b) ==
  /\ proc[b].at \notin {"idle", "done"}
  /\ Use("crashes")
  /\ Finish(b)
  /\ UNCHANGED <<db, graph, files, history>>

-----------------------------------------------------------------------------
(* What happens around it.                                                 *)

(* Specifications are edited, removed, or deleted but still tracked.       *)
EditSpec(s, text) ==
  /\ text # sources.specs[s]
  /\ Use("edits")
  /\ sources' = [sources EXCEPT !.specs[s] = text]
  /\ clock' = clock + 1
  /\ UNCHANGED <<db, graph, proc, history>>

(* A spec is archived: the outcome it has now is an approved one.          *)
Archive(s) ==
  /\ sources.specs[s] \in Texts /\ OutcomeOf[sources.specs[s]] # None
  /\ [spec |-> s, outcome |-> OutcomeOf[sources.specs[s]]] \notin sources.archives
  /\ Use("archives")
  /\ sources' = [sources EXCEPT !.archives =
                   @ \cup {[spec |-> s, outcome |-> OutcomeOf[sources.specs[s]]]}]
  /\ clock' = clock + 1
  /\ UNCHANGED <<db, graph, proc, history>>

(* A task ends, its snapshots still in the graph.                          *)
EndTask(t) ==
  /\ t \notin sources.tasks
  /\ Use("tasks")
  /\ sources' = [sources EXCEPT !.tasks = @ \cup {t}]
  /\ clock' = clock + 1
  /\ graph' = [graph EXCEPT !.stored = @ \cup {OriginOf[t].baseline, OriginOf[t].view}]
  /\ UNCHANGED <<db, proc, history>>

(* The canonical graph is refreshed (or rebuilt, or readable again).       *)
MoveGraph(s) ==
  /\ ~graph.ready \/ graph.current # s
  /\ Use("moves")
  /\ graph' = [graph EXCEPT !.ready = TRUE, !.current = s, !.stored = @ \cup {s}]
  /\ UNCHANGED <<files, db, proc, history>>

(* The graph sidecar is removed, or of another schema for a while.         *)
LoseGraph ==
  /\ graph.ready
  /\ Use("losses")
  /\ graph' = [graph EXCEPT !.ready = FALSE]
  /\ UNCHANGED <<files, db, proc, history>>

(* collect_garbage takes a snapshot that is not published.                 *)
CollectSnapshot(s) ==
  /\ s \in graph.stored /\ s # graph.current
  /\ Use("collections")
  /\ graph' = [graph EXCEPT !.stored = @ \ {s}, !.collected = @ \cup {s}]
  /\ UNCHANGED <<files, db, proc, history>>

Index(b) ==
  \/ Discover(b) \/ Extract(b) \/ Revalidate(b) \/ OpenResolver(b) \/ Resolve(b)
  \/ Complete(b) \/ PublishBuild(b)
  \/ \E full \in BOOLEAN : Start(b, full)

Environment ==
  \/ \E s \in Specs : Archive(s) \/ \E text \in Texts \cup {None, "missing"} : EditSpec(s, text)
  \/ \E t \in Tasks : EndTask(t)
  \/ \E s \in Snapshots : MoveGraph(s) \/ CollectSnapshot(s)
  \/ LoseGraph

Next == Environment \/ \E b \in Builds : Index(b) \/ Crash(b)

Spec == Init /\ [][Next]_memoryVars

-----------------------------------------------------------------------------
(* Every revision holds the facts of the sources it is named after, and of *)
(* no other: what a build read, what it found in the fragment cache and    *)
(* what an earlier build of the same revision stored agree, even if a      *)
(* specification was changed under an indexer and changed back again.      *)
RevisionsTrue == \A r \in db.revisions : r.facts = r.id

(* Published memory never goes back in time: what a build publishes was the *)
(* state of the sources at a moment at which the publication it replaces   *)
(* had already been made, however long either indexer took.                *)
PublicationsFollowSources ==
  \A i \in 1 .. Len(history) - 1 : history[i].made <= history[i + 1].checked

(* What a link set says of the repository is so: a resolved link is one     *)
(* match in the snapshot of the set; a stale one matched in the snapshot   *)
(* it points to; one that is not resolved has no match in the snapshot of  *)
(* the set, or several, unless it was collected while it was being read.   *)
LinksTrue ==
  \A i \in DOMAIN db.linkSets :
    LET set == db.linkSets[i]
    IN \A link \in set.links :
         /\ link.resolution = "resolved" =>
              link.target = set.id.snapshot /\ Matches(link.ref, link.target, Snapshots) = 1
         /\ link.resolution = "stale" => Matches(link.ref, link.target, Snapshots) = 1
         /\ link.resolution # "resolved" =>
              \/ Matches(link.ref, set.id.snapshot, Snapshots) # 1
              \/ set.id.snapshot \in graph.collected
=============================================================================
