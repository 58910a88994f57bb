------------------------------ MODULE GraphQuery ------------------------------
(***************************************************************************)
(* Reading the repository graph: status, search, show, neighborhood and    *)
(* context on the local sidecar, page after page, while the indexer        *)
(* publishes and collects snapshots and the working tree is edited         *)
(* (src/src/repository_graph/query_sqlite.rs and query_sqlite/,            *)
(* repository_graph_runtime/query.rs, repository_graph/source/content.rs). *)
(*                                                                         *)
(* A query is several SQLite statements on a connection that opens no      *)
(* transaction: every statement is a step, and the sidecar may change      *)
(* between two of them.  Nodes are numbered in the order of their ids; the *)
(* text of a search and the lookup of a show are the rows they match, in   *)
(* order; what a result weighs stands for its serialized length.           *)
(***************************************************************************)
EXTENDS Integers, Sequences, FiniteSets, FiniteSetsExt, SequencesExt

CONSTANTS Graphs,      \* snapshot id -> its nodes, edges and files
          Requests,    \* the requests that clients make
          Limits,      \* QueryLimitsConfig
          Contents,    \* what a file of the working tree may hold
          MaxCandidates, \* MAX_CONTEXT_CANDIDATES
          MaxChanges,  \* bound: publications, builds, collections and edits
          None

VARIABLES sidecar,  \* how the file opens, its snapshots, the published one, the newest build
          disk,     \* the working tree: path -> content
          query,    \* the query in progress
          pages,    \* the answers of the client's chain of pages
          changes   \* how much of MaxChanges is used

vars == <<sidecar, disk, query, pages, changes>>

SnapshotIds == DOMAIN Graphs
NoRows == [nodes |-> {}, edges |-> {}]

(* What the tables hold for a snapshot when a statement reads them.        *)
Rows(s) == IF s \in sidecar.snapshots THEN Graphs[s] ELSE NoRows

Least(a, b) == IF a < b THEN a ELSE b

-----------------------------------------------------------------------------
(* Requests, budgets and cursors.                                          *)

(* EffectiveBudget::new.                                                   *)
ValidLimits == \A limit \in DOMAIN Limits : Limits[limit] > 0
EffectiveBudget(asked) ==
  [results |-> Least(asked.results, Limits.results), bytes |-> Least(asked.bytes, Limits.bytes),
   depth |-> Least(asked.depth, Limits.depth)]

(* What a cursor is bound to besides operation and snapshot: the request   *)
(* without its page and its budget, but for the depth of a context.        *)
Fingerprint(r, budget) ==
  [params |-> r.params, depth |-> IF r.op = "context" THEN budget.depth ELSE None]

EncodeCursor(r, s, budget, offset) ==
  [op |-> r.op, snapshot |-> s, fingerprint |-> Fingerprint(r, budget), offset |-> offset]

MutValidCursor(cursor, r, s, budget) ==
  \/ cursor = None
  \/ cursor.op = r.op /\ cursor.fingerprint = Fingerprint(r, budget)

(* decode_cursor.                                                          *)
ValidCursor(cursor, r, s, budget) ==
  \/ cursor = None
  \/ cursor.op = r.op /\ cursor.snapshot = s /\ cursor.fingerprint = Fingerprint(r, budget)

Offset(cursor) == IF cursor = None THEN 0 ELSE cursor.offset

-----------------------------------------------------------------------------
(* The graph.                                                              *)

ById(S) == SetToSortSeq(S, <)
EdgesById(S) == SetToSortSeq(S, LAMBDA d, e : d.id < e.id)

(* search_rows and show_rows: the rows that match, in the order the         *)
(* statement asks for.                                                     *)
Matches(g, r) == SelectSeq(r.params.matches, LAMBDA n : n \in g.nodes)

(* edges: those of a node, of the kinds asked for, that are not excluded.  *)
EdgesOf(g, n, p, excluded) ==
  EdgesById({e \in g.edges :
    /\ \/ p.direction \in {"outgoing", "both"} /\ e.source = n
       \/ p.direction \in {"incoming", "both"} /\ e.target = n
    /\ p.kinds = {} \/ e.kind \in p.kinds
    /\ e.id \notin excluded})

AdjacentNode(e, n, direction) ==
  IF e.target = None THEN None
  ELSE IF direction \in {"outgoing", "both"} /\ e.source = n THEN e.target
  ELSE IF direction \in {"incoming", "both"} /\ e.target = n THEN e.source ELSE None

(* context_edge_allowed and context_node_allowed.                          *)
Allowed(resolution, p) ==
  \/ resolution = "resolved"
  \/ resolution = "unresolved" /\ p.unresolved
  \/ resolution = "external" /\ p.external

(* context_selection_rank of context_selection_kind.                       *)
SelectionRank(s, e, current, next) ==
  IF e.resolution = "resolved" /\ e.kind \in {"imports", "re_exports", "depends_on"} THEN 3
  ELSE IF Graphs[s].kind[next] = "document" THEN 4
  ELSE IF Graphs[s].kind[next] = "manifest" THEN 5
  ELSE IF \/ e.kind = "declares_module"
          \/ e.kind = "contains" /\ e.source = current /\ Graphs[s].kind[next] = "module" THEN 2
  ELSE IF e.kind = "contains" THEN 1 ELSE 6

ExactSeed == 0

(* set_context_truncation keeps the graver reason.                         *)
Gravity(reason) ==
  CHOOSE i \in 1 .. 6 : <<"duration", "capability", "depth", "bytes", "results", None>>[i] = reason
Truncated(old, new) == IF Gravity(new) < Gravity(old) THEN new ELSE old

-----------------------------------------------------------------------------
(* Queries.                                                                *)

Idle == [at |-> "idle"]
Begin(r, cursor, compared) ==
  [at |-> "open", r |-> r, cursor |-> cursor, compared |-> compared, s |-> None,
   late |-> FALSE, torn |-> FALSE, work |-> None]

Budget == EffectiveBudget(query.r.budget)
Policy == query.r.params

(* freshness: the manifest against the one the snapshot was built from.    *)
Freshness(s, compared) ==
  IF compared = None THEN "unknown"
  ELSE IF compared = Graphs[s].files THEN "fresh" ELSE "stale"

Answer(page) ==
  /\ pages' = Append(pages, page @@ [op |-> query.r.op, s |-> query.s, params |-> Policy,
                                     torn |-> query.torn, budget |-> Budget,
                                     freshness |-> IF query.s = None THEN "unknown"
                                                   ELSE Freshness(query.s, query.compared)])
  /\ query' = Idle
  /\ UNCHANGED <<sidecar, disk, changes>>

Failure(code) == [error |-> code, items |-> <<>>, reason |-> None, cursor |-> None]
Success(items, reason, cursor) ==
  [error |-> None, items |-> items, reason |-> reason, cursor |-> cursor]

Go(q) == query' = q /\ UNCHANGED <<sidecar, disk, pages, changes>>

Start(r, compared) ==
  /\ query.at = "idle"
  /\ query' = Begin(r, None, compared) /\ pages' = <<>>
  /\ UNCHANGED <<sidecar, disk, changes>>

(* The command line takes the manifest of the sources first, and no cursor. *)
AskCli(r) == Start(r, disk)

(* An agent's tools compare nothing.  They start a chain of pages, or hand *)
(* back the cursor of the last page, with the same request or another.     *)
AskTool(r) == r.op \in {"status", "search", "context"} /\ Start(r, None)

Continue(r) ==
  /\ query.at = "idle" /\ pages # <<>> /\ r.op \in {"search", "context"}
  /\ Last(pages).cursor # None
  /\ Go(Begin(r, Last(pages).cursor, None))

(* max_duration_ms runs out.  It never runs back in: what checks it later   *)
(* in the same query finds it exhausted.                                   *)
DeadlinePasses == query.at \notin {"idle", "open"} /\ ~query.late /\ Go([query EXCEPT !.late = TRUE])

(* unpublished_index_error.                                                *)
UnpublishedIndex ==
  CASE sidecar.build = "building" -> "index_building"
    [] sidecar.build = "failed" -> "index_failed"
    [] OTHER -> "not_built"

(* open_for_query_at and what search_response_at makes of it.              *)
Opening ==
  CASE sidecar.file = "absent" -> "not_built"
    [] sidecar.file \in {"old", "foreign"} -> "incompatible"
    [] OTHER -> None

Scope(r) == IF r.snapshot = "published" THEN sidecar.published ELSE r.snapshot

(* resolve_scope, the validation of the request, decode_cursor: what keeps *)
(* a query from reading anything.                                          *)
Refusal(r, cursor) ==
  CASE Opening # None -> Opening
    [] ~ValidLimits -> "backend_unavailable"
    [] Scope(r) = None -> UnpublishedIndex
    [] Scope(r) \notin sidecar.snapshots -> "snapshot_not_found"
    [] r.op = "neighborhood" /\ cursor # None -> "invalid_request"
    [] ~ValidCursor(cursor, r, Scope(r), Budget) -> "stale_cursor"
    [] OTHER -> None

Refuse ==
  /\ query.at = "open" /\ query.r.op # "status"
  /\ Refusal(query.r, query.cursor) # None
  /\ Answer(Failure(Refusal(query.r, query.cursor)))

Resolve ==
  /\ query.at = "open" /\ query.r.op # "status"
  /\ Refusal(query.r, query.cursor) = None
  /\ Go([query EXCEPT !.s = Scope(query.r), !.at = query.r.op])

(* status_action.                                                          *)
StatusAction(s) ==
  CASE sidecar.build = "building" -> "wait_for_build"
    [] sidecar.build = "failed" -> "retry_index"
    [] s # None /\ Freshness(s, query.compared) = "stale" -> "refresh_index"
    [] s = None -> "index"
    [] OTHER -> None

(* status_response_at: a sidecar that is missing or foreign is data, not a *)
(* failure.                                                                *)
UnavailableStatus ==
  /\ query.at = "open" /\ query.r.op = "status" /\ sidecar.file # "ready"
  /\ Answer(Success(<<>>, None, None)
            @@ [action |-> IF sidecar.file = "foreign" THEN "rebuild" ELSE "index"])

(* status_at: and so is an index that nothing was published from.          *)
Status ==
  /\ query.at = "open" /\ query.r.op = "status" /\ sidecar.file = "ready"
  /\ Answer(Success(<<>>, None, None) @@ [action |-> StatusAction(Scope(query.r))])

-----------------------------------------------------------------------------
(* search and show: one statement, then the page.                          *)

Weight(s, items) == FoldLeft(LAMBDA sum, n : sum + Graphs[s].weight[n], 0, items)

(* The loop over the rows of a statement that was limited to one more than *)
(* max_results.                                                            *)
Fitting(s, rows, budget) ==
  Max({k \in 0 .. Least(Len(rows), budget.results) :
         Weight(s, SubSeq(rows, 1, k)) <= budget.bytes})

Stopped(rows, k, budget) ==
  IF k = Len(rows) THEN None ELSE IF k = budget.results THEN "results" ELSE "bytes"

MutNextCursor(reason, k, cursor) == IF reason # None THEN cursor ELSE None

(* page_info.                                                              *)
NextCursor(reason, k, cursor) == IF reason # None /\ k > 0 THEN cursor ELSE None

(* The rows after the offset; none is used once the deadline has passed,   *)
(* whether or not SQLite was interrupted.                                  *)
Scan ==
  /\ query.at \in {"search", "show"}
  /\ \E rows \in {Matches(Rows(query.s), query.r)} :
     \E interrupted \in IF query.late THEN BOOLEAN ELSE {FALSE} :
     \E from \in {Offset(query.cursor)} :
     \E found \in {SubSeq(rows, from + 1, Least(Len(rows), from + Budget.results + 1))} :
       IF query.at = "show" /\ found = <<>> /\ ~interrupted /\ from = 0
       THEN Answer(Failure("invalid_request"))
       ELSE Go([query EXCEPT !.at = "page", !.work = IF query.late THEN <<>> ELSE found])

(* The page: cut short anywhere once the deadline has passed, and marked so *)
(* even when only the diagnostics were late.                               *)
Page ==
  /\ query.at = "page"
  /\ \E fit \in {Fitting(query.s, query.work, Budget)} :
     \E k \in IF query.late THEN 0 .. fit ELSE {fit} :
     \E reason \in {IF query.late THEN "duration" ELSE Stopped(query.work, k, Budget)} :
       Answer(Success(SubSeq(query.work, 1, k), reason,
                NextCursor(reason, k, EncodeCursor(query.r, query.s, Budget,
                                                   Offset(query.cursor) + k))))

-----------------------------------------------------------------------------
(* context: seeds, a walk breadth first, a page of what was found.         *)

(* insert_context_candidate: the least depth and the best reason.          *)
Insert(candidates, n, depth, rank) ==
  IF n \notin DOMAIN candidates
  THEN candidates @@ (n :> [depth |-> depth, rank |-> rank])
  ELSE [candidates EXCEPT ![n] = [depth |-> Least(@.depth, depth), rank |-> Least(@.rank, rank)]]

Full(candidates, n) == n \notin DOMAIN candidates /\ Cardinality(DOMAIN candidates) >= MaxCandidates

(* The nodes of one seed; the cap ends this seed, not the others.          *)
TakeSeed(found, n) ==
  IF Full(found.candidates, n)
  THEN [found EXCEPT !.truncation = Truncated(@, "capability")]
  ELSE [found EXCEPT !.candidates = Insert(@, n, 0, ExactSeed)]

Seeds ==
  /\ query.at = "context"
  /\ \E nodes \in {[i \in DOMAIN Policy.seeds |-> Policy.seeds[i] \cap Rows(query.s).nodes]} :
       IF ~query.late /\ \E i \in DOMAIN nodes : nodes[i] = {}
       THEN Answer(Failure("invalid_request"))
       ELSE \E found \in {IF query.late THEN [candidates |-> <<>>, truncation |-> "duration"]
                          ELSE FoldLeft(TakeSeed, [candidates |-> <<>>, truncation |-> None],
                                        ById(UNION Range(nodes)))} :
            Go([query EXCEPT !.at = "walk",
                  !.work = [candidates |-> found.candidates, truncation |-> found.truncation,
                            frontier |-> [i \in 1 .. Cardinality(DOMAIN found.candidates) |->
                                            [node |-> ById(DOMAIN found.candidates)[i], depth |-> 0]],
                            seen |-> {}, stopped |-> FALSE]])

MutFollow(w, e) ==
  LET at == Head(w.frontier)
      next == AdjacentNode(e, at.node, Policy.direction)
  IN IF w.stopped THEN w
     ELSE IF ~Allowed(e.resolution, Policy) \/ next = None
     THEN [w EXCEPT !.seen = @ \cup {e.id}]
     ELSE IF ~Allowed(Graphs[query.s].resolution[next], Policy)
     THEN [w EXCEPT !.seen = @ \cup {e.id}]
     ELSE IF Full(w.candidates, next)
     THEN [w EXCEPT !.truncation = Truncated(@, "capability"), !.stopped = TRUE]
     ELSE [w EXCEPT !.seen = @ \cup {e.id},
             !.candidates = Insert(@, next, at.depth,
                                   SelectionRank(query.s, e, at.node, next)),
             !.frontier = IF next \in DOMAIN w.candidates THEN @
                          ELSE Append(@, [node |-> next, depth |-> at.depth + 1])]

(* One edge of the node at the head of the frontier.                       *)
Follow(w, e) ==
  LET at == Head(w.frontier)
      next == AdjacentNode(e, at.node, Policy.direction)
  IN IF w.stopped THEN w
     ELSE IF ~Allowed(e.resolution, Policy) \/ next = None
     THEN [w EXCEPT !.seen = @ \cup {e.id}]
     ELSE IF ~Allowed(Graphs[query.s].resolution[next], Policy)
     THEN [w EXCEPT !.seen = @ \cup {e.id}]
     ELSE IF Full(w.candidates, next)
     THEN [w EXCEPT !.truncation = Truncated(@, "capability"), !.stopped = TRUE]
     ELSE [w EXCEPT !.seen = @ \cup {e.id},
             !.candidates = Insert(@, next, at.depth + 1,
                                   SelectionRank(query.s, e, at.node, next)),
             !.frontier = IF next \in DOMAIN w.candidates THEN @
                          ELSE Append(@, [node |-> next, depth |-> at.depth + 1])]

Crossing(edges) == \E i \in DOMAIN edges : Allowed(edges[i].resolution, Policy) /\ edges[i].target # None

(* assemble_context: the walk takes the head of its frontier.              *)
Walk ==
  /\ query.at = "walk" /\ query.work.frontier # <<>> /\ ~query.work.stopped
  /\ LET w == query.work
         room == MaxCandidates - Cardinality(w.seen)
     IN \E edges \in {EdgesOf(Rows(query.s), Head(w.frontier).node, Policy, w.seen)} :
        \E capped \in {IF Len(edges) > room
                       THEN [w EXCEPT !.truncation = Truncated(@, "capability")] ELSE w} :
        \E kept \in {SubSeq(edges, 1, Least(Len(edges), room))} :
        \E next \in {IF query.late
                     THEN [w EXCEPT !.truncation = "duration", !.stopped = TRUE]
                     ELSE IF room = 0
                     THEN [w EXCEPT !.truncation = Truncated(@, "capability"), !.stopped = TRUE]
                     ELSE IF Head(w.frontier).depth >= Budget.depth
                     THEN IF Crossing(kept)
                          THEN [capped EXCEPT !.truncation = Truncated(@, "depth")] ELSE capped
                     ELSE FoldLeft(Follow, capped, kept)} :
          Go([query EXCEPT !.work = [next EXCEPT !.frontier = Tail(@)]])

(* context_candidate_order, of the candidates that have evidence.          *)
Before(m, n) ==
  LET c == query.work.candidates
  IN \/ c[m].rank < c[n].rank
     \/ c[m].rank = c[n].rank /\ c[m].depth < c[n].depth
     \/ c[m].rank = c[n].rank /\ c[m].depth = c[n].depth /\ m < n

Ranked ==
  SetToSortSeq({n \in DOMAIN query.work.candidates : Graphs[query.s].path[n] # None}, Before)

(* The end of context: a cursor only when the page, not the walk, is what  *)
(* stopped.                                                                *)
ContextPage ==
  /\ query.at = "walk" /\ (query.work.frontier = <<>> \/ query.work.stopped)
  /\ \E ranked \in {Ranked} :
     \E rest \in {SubSeq(ranked, Offset(query.cursor) + 1, Len(ranked))} :
     IF Offset(query.cursor) > Len(ranked) THEN Answer(Failure("stale_cursor"))
     ELSE \E fit \in {Fitting(query.s, rest, Budget)} :
          \E k \in IF query.work.truncation = "duration" THEN {0}
                   ELSE IF query.late THEN 0 .. fit ELSE {fit} :
          \E stop \in {IF query.late THEN "duration" ELSE Stopped(rest, k, Budget)} :
          \E cursor \in {IF stop \notin {"results", "bytes"} THEN None
                         ELSE NextCursor(stop, k, EncodeCursor(query.r, query.s, Budget,
                                                               Offset(query.cursor) + k))} :
          \E page \in {Success(SubSeq(rest, 1, k),
                               IF stop = None THEN query.work.truncation ELSE stop, cursor)
                       @@ [walked |-> query.work]} :
            IF query.r.snippets = 0 THEN Answer(page)
            ELSE Go([query EXCEPT !.at = "files", !.work = page])

-----------------------------------------------------------------------------
(* neighborhood: roots and edges share one budget.                         *)

(* An item of the answer, if there is room for it.                         *)
Add(w, field, id, weight) ==
  IF Cardinality(w.nodes) + Cardinality(w.edges) >= Budget.results
  THEN [w EXCEPT !.reason = "results"]
  ELSE IF w.bytes + weight > Budget.bytes THEN [w EXCEPT !.reason = "bytes"]
  ELSE [w EXCEPT ![field] = @ \cup {id}, !.bytes = @ + weight]

Reach(w, n, depth) ==
  IF w.reason # None \/ n = None \/ n \in w.nodes THEN w
  ELSE LET added == Add(w, "nodes", n, Graphs[query.s].weight[n])
       IN IF added.reason # None THEN added
          ELSE [added EXCEPT !.frontier = Append(@, [node |-> n, depth |-> depth])]

Expand(w, e) ==
  IF w.reason # None THEN w
  ELSE Reach(Add(w, "edges", e.id, 1), AdjacentNode(e, Head(w.frontier).node, Policy.direction),
             Head(w.frontier).depth + 1)

Roots ==
  /\ query.at = "neighborhood"
  /\ \E roots \in {ById(UNION Range(Policy.seeds))} :
     \E w \in {[nodes |-> {}, edges |-> {}, bytes |-> 0, reason |-> None, frontier |-> <<>>]} :
       IF ~query.late /\ ~(Range(roots) \subseteq Rows(query.s).nodes)
       THEN Answer(Failure("invalid_request"))
       ELSE \E n \in IF query.late THEN 0 .. Len(roots) - 1 ELSE {Len(roots)} :
            \E found \in {FoldLeft(LAMBDA v, root : Reach(v, root, 0), w, SubSeq(roots, 1, n))} :
              Go([query EXCEPT !.at = "near",
                    !.work = IF query.late THEN [found EXCEPT !.reason = "duration"] ELSE found])

Near ==
  /\ query.at = "near" /\ query.work.frontier # <<>> /\ query.work.reason = None
  /\ LET w == query.work
         head == Head(w.frontier)
         g == Rows(query.s)
     IN \E next \in {IF query.late THEN [w EXCEPT !.reason = "duration"]
                     ELSE IF head.depth >= Budget.depth
                     THEN [w EXCEPT !.reason = IF EdgesOf(g, head.node, Policy, {}) = <<>>
                                               THEN None ELSE "depth"]
                     ELSE IF Cardinality(w.nodes) + Cardinality(w.edges) >= Budget.results
                     THEN [w EXCEPT !.reason = "results"]
                     ELSE FoldLeft(Expand, w, EdgesOf(g, head.node, Policy, w.edges))} :
          Go([query EXCEPT !.work = [next EXCEPT !.frontier = Tail(@)]])

NearPage ==
  /\ query.at = "near" /\ (query.work.frontier = <<>> \/ query.work.reason # None)
  /\ Answer(Success(ById(query.work.nodes), IF query.late THEN "duration" ELSE query.work.reason,
                    None)
            @@ [walked |-> query.work])

-----------------------------------------------------------------------------
(* attach_snippets_at: the source text of the items, read from the working *)
(* tree or, for a frozen view, from the submitted tree.                    *)

(* The distinct evidence of the items, in order.                           *)
Evidence(items) ==
  FoldLeft(LAMBDA paths, n : LET p == Graphs[query.s].path[n]
                             IN IF p \in Range(paths) THEN paths ELSE Append(paths, p),
           <<>>, items)

(* snapshot_file_descriptors.                                              *)
Files ==
  /\ query.at = "files"
  /\ Go([query EXCEPT !.at = "snippets",
            !.work = @ @@ [evidence |-> Evidence(@.items), snippets |-> <<>>, diagnostics |-> {},
                           known |-> query.s \in sidecar.snapshots,
                           left |-> Least(query.r.snippets, Limits.snippet)]])

(* What the path holds when it is opened.                                  *)
Stored(p) == IF query.r.frozen THEN Graphs[query.s].files[p] ELSE disk[p]

MutVerified(p) == query.work.known
(* read_verified: the whole file is checked before a byte is returned.     *)
Verified(p) == query.work.known /\ Stored(p) = Graphs[query.s].files[p]

Diagnose(w, code, p) == [w EXCEPT !.diagnostics = @ \cup {<<code, p>>}]

ReadSnippet ==
  /\ query.at = "snippets" /\ query.work.evidence # <<>> /\ query.work.left > 0
  /\ LET w == query.work
         p == Head(w.evidence)
         size == Least(w.left, Contents[Stored(p)].size)
         next == IF ~w.known THEN Diagnose(w, "content.unavailable", p)
                 ELSE IF ~Verified(p) THEN Diagnose(w, "content.changed", p)
                 ELSE IF ~Contents[Stored(p)].utf8 THEN Diagnose(w, "content.non_utf8", p)
                 ELSE LET read == [w EXCEPT !.snippets = Append(@, [path |-> p, text |-> Stored(p),
                                                                    size |-> size]),
                                            !.left = @ - size]
                      IN IF size < Contents[Stored(p)].size
                         THEN Diagnose(read, "content.snippets_truncated", None) ELSE read
     IN Go([query EXCEPT !.work = [next EXCEPT !.evidence = Tail(@)]])

SnippetsRead ==
  /\ query.at = "snippets" /\ (query.work.evidence = <<>> \/ query.work.left = 0)
  /\ Answer(IF query.work.evidence = <<>> THEN query.work
            ELSE Diagnose(query.work, "content.snippets_truncated", None))

-----------------------------------------------------------------------------
(* The rest of the project: the indexer and whoever edits the sources.     *)

Change(db, files) ==
  /\ changes < MaxChanges
  /\ changes' = changes + 1
  /\ sidecar' = db /\ disk' = files
  /\ UNCHANGED pages

(* A build begins, and with it a sidecar that opens; it fails, or completes *)
(* a snapshot and publishes it.                                            *)
StartBuild == Change([sidecar EXCEPT !.file = "ready", !.build = "building"], disk) /\ UNCHANGED query
FailBuild ==
  /\ sidecar.build = "building"
  /\ Change([sidecar EXCEPT !.build = "failed"], disk) /\ UNCHANGED query
Publish(s) ==
  /\ sidecar.build = "building"
  /\ Change([sidecar EXCEPT !.build = "published", !.published = s, !.snapshots = @ \cup {s}], disk)
  /\ UNCHANGED query

(* Garbage collection deletes the rows of a snapshot that is not published, *)
(* whoever is reading them.                                                *)
Collect(s) ==
  /\ s \in sidecar.snapshots \ {sidecar.published}
  /\ Change([sidecar EXCEPT !.snapshots = @ \ {s}], disk)
  /\ query' = IF query.at \notin {"idle", "open"} /\ query.s = s
              THEN [query EXCEPT !.torn = TRUE] ELSE query

(* A statement on the rows of an edge's far end finds them gone.           *)
LoseRows ==
  /\ query.at \in {"walk", "near"} /\ query.torn
  /\ Answer(Failure("backend_unavailable"))

Edit(p, content) ==
  /\ content # disk[p]
  /\ Change(sidecar, [disk EXCEPT ![p] = content]) /\ UNCHANGED query

Init ==
  /\ sidecar \in [file : {"absent", "old", "foreign"}, snapshots : {{}}, published : {None},
                   build : {"none"}]
                 \cup {[file |-> "ready", snapshots |-> {s}, published |-> s, build |-> "published"] :
                         s \in SnapshotIds}
  /\ disk \in {Graphs[s].files : s \in SnapshotIds}
  /\ query = Idle /\ pages = <<>> /\ changes = 0

Step ==
  Refuse \/ Resolve \/ UnavailableStatus \/ Status \/ Scan \/ Page \/ Seeds \/ Walk \/ ContextPage
  \/ Roots \/ Near \/ NearPage \/ Files \/ ReadSnippet \/ SnippetsRead \/ LoseRows

Next ==
  \/ \E r \in Requests : AskCli(r) \/ AskTool(r) \/ Continue(r)
  \/ Step \/ DeadlinePasses
  \/ StartBuild \/ FailBuild \/ \E s \in SnapshotIds : Publish(s) \/ Collect(s)
  \/ \E p \in DOMAIN disk : \E content \in DOMAIN Contents : Edit(p, content)

Spec == Init /\ [][Next]_vars

-----------------------------------------------------------------------------
(* Properties.                                                             *)

(* The nodes at most n edges from the seeds, along edges and through nodes *)
(* that pass the filter.                                                   *)
Within(g, p, n, passes(_)) ==
  LET reached[i \in 0 .. n] ==
        IF i = 0 THEN UNION Range(p.seeds)
        ELSE reached[i - 1] \cup
             {m \in g.nodes : \E e \in g.edges, u \in reached[i - 1] :
                /\ p.kinds = {} \/ e.kind \in p.kinds
                /\ passes(e.resolution) /\ passes(g.resolution[m])
                /\ AdjacentNode(e, u, p.direction) = m}
  IN reached[n]

ContextNodes(page, n) == Within(Graphs[page.s], page.params, n, LAMBDA r : Allowed(r, page.params))
NearNodes(page, n) == Within(Graphs[page.s], page.params, n, LAMBDA r : TRUE)

Everything(page) ==
  CASE page.op \in {"search", "show"} -> Range(Matches(Graphs[page.s], page))
    [] page.op = "context" -> {n \in ContextNodes(page, page.budget.depth) :
                                 Graphs[page.s].path[n] # None}
    [] OTHER -> Range(page.items)

Returned(n) == FlattenSeq([i \in 1 .. n |-> pages[i].items])
Intact(n) == \A i \in 1 .. n : ~pages[i].torn /\ pages[i].error = None


(* A walk that was neither capped nor cut short has found the nodes within  *)
(* the depth it was given, each at its distance, through cycles and nodes  *)
(* reached along several edges; one that says nothing was left out has     *)
(* left nothing out, and a neighborhood keeps to its budget.               *)
WalksExact ==
  \A i \in DOMAIN pages : LET page == pages[i] IN Intact(i) =>
    /\ page.op = "context" /\ page.walked.truncation \in {None, "depth"} =>
         /\ DOMAIN page.walked.candidates = ContextNodes(page, page.budget.depth)
         /\ \A n \in DOMAIN page.walked.candidates :
              page.walked.candidates[n].depth =
                Min({d \in 0 .. page.budget.depth : n \in ContextNodes(page, d)})
         /\ page.walked.truncation = None =>
              ContextNodes(page, page.budget.depth + 1) = ContextNodes(page, page.budget.depth)
    /\ page.op = "neighborhood" =>
         /\ Cardinality(page.walked.nodes) + Cardinality(page.walked.edges) <= page.budget.results
         /\ page.walked.bytes <= page.budget.bytes
         /\ page.reason \in {None, "depth"} => page.walked.nodes = NearNodes(page, page.budget.depth)
         /\ page.reason = None =>
              page.walked.nodes = NearNodes(page, page.budget.depth + 1)

(* Source text is only ever that of the snapshot the answer names, though   *)
(* the files are edited while they are read; within the budget; and a      *)
(* place without its text has a diagnostic.                                *)
SnippetsVerified ==
  \A i \in DOMAIN pages : LET page == pages[i] IN
    "snippets" \in DOMAIN page =>
      /\ \A j \in DOMAIN page.snippets :
           page.snippets[j].text = Graphs[page.s].files[page.snippets[j].path]
      /\ FoldLeft(LAMBDA sum, x : sum + x.size, 0, page.snippets) <= Limits.snippet
      /\ \A n \in Range(page.items) :
           \/ \E j \in DOMAIN page.snippets : page.snippets[j].path = Graphs[page.s].path[n]
           \/ \E d \in page.diagnostics : d[2] \in {None, Graphs[page.s].path[n]}
=============================================================================
