------------------------------ MODULE RemoteQuery ------------------------------
(***************************************************************************)
(* The query API of distributed indexing: status, search, neighborhood and *)
(* context on published graphs and memory, page after page, while indexing *)
(* publishes and an operator deletes (src/src/distributed/api_sqlite.rs,   *)
(* api_sqlite/support.rs, api_sqlite/support/context.rs, and the bounded   *)
(* reads of publication_sqlite.rs).                                        *)
(*                                                                         *)
(* The service reads with one statement after another and opens no         *)
(* transaction, so that every statement is a step.  Snapshots and          *)
(* revisions are immutable: a row that is there has the facts of GraphOf   *)
(* or MemoryOf.  Ids are numbers in their order; the size of a fact stands *)
(* for its serialized length, and a text is its length in bytes and the    *)
(* width of its characters.  A unit of an answer is its class and its id:  *)
(* 1 a node, 2 an edge, 3 an entity, 4 a relationship.                     *)
(***************************************************************************)
EXTENDS Integers, Sequences, FiniteSets, FiniteSetsExt, SequencesExt, TLC

CONSTANTS Snapshots, Revisions,
          GraphOf,      \* snapshot -> nodes, edges, files, diagnostics
          MemoryOf,     \* revision -> entities, relationships, sources, diagnostics
          LinksOf,      \* <<snapshot, revision>> -> the relationships of the link set
          TextOf,       \* content -> bytes, width, utf8
          Credentials,  \* [class, scope]; a scope is a path: tenant, project, repository
          Repository,   \* the repository that is asked about, as such a path
          Published,    \* the snapshot and the revision of the views at the start
          Questions,    \* [target, op]: what clients ask
          Budgets,      \* the budgets they ask it with
          Limits,       \* RemoteQueryLimits
          Envelope,     \* the serialized answer without results, snippets and diagnostics
          MaxChanges,   \* bound: publications and deletions
          MaxPages,     \* bound: answers of a chain
          None

VARIABLES store,   \* rows, marks, views, link sets and objects
          request, \* the request in progress
          given,   \* the last answer
          trail,   \* the pages a client has collected
          moves    \* how much of MaxChanges is used

remoteVars == <<store, request, given, trail, moves>>

Project == Front(Repository)
Ordered(S, before(_, _)) ==
  [i \in 1 .. Cardinality(S) |-> CHOOSE u \in S : Cardinality({v \in S : before(v, u)}) = i - 1]
SizesOf(units, sizes) == FoldLeft(LAMBDA sum, u : sum + sizes[u], 0, units)

-----------------------------------------------------------------------------
(* Requests: permissions and budgets.                                      *)

(* CredentialClass::permissions, of what this API asks for.                *)
Permissions(class) ==
  IF class \in {"QueryAgent", "ProjectOperator", "TenantAdministrator"}
  THEN {"QueryGraph", "QueryMemory", "ReadVerifiedContent"} ELSE {}

(* AuthorizationContext::authorize and AuthorizationScope::covers.         *)
Authorize(credential, permission, scope) ==
  /\ permission \in Permissions(credential.class)
  /\ IsPrefix(credential.scope, scope)

(* authorize_query.                                                        *)
AuthorizeQuery(credential, target, op) ==
  LET graph(permission) == target.graph # None => Authorize(credential, permission, Repository)
      memory(permission) == target.memory # None => Authorize(credential, permission, Project)
  IN /\ graph("QueryGraph") /\ memory("QueryMemory")
     /\ op.snippets => graph("ReadVerifiedContent") /\ memory("ReadVerifiedContent")

(* RemoteQueryBody::validate, of what is not a matter of spelling.         *)
ValidBody(op, cursor) ==
  CASE op.name = "status" -> cursor = None
    [] op.name = "search" -> TRUE
    [] op.name \in {"neighborhood", "context"} -> op.seeds # {}

(* RemoteQueryLimits::clamp.                                               *)
Clamp(asked) == [limit \in DOMAIN Limits |-> Min({Limits[limit], asked[limit]})]

MutFingerprint(target, op, depth) == [op |-> op, depth |-> depth]

(* query_fingerprint: the digest is taken to be injective.                 *)
Fingerprint(target, op, depth) == [target |-> target, op |-> op, depth |-> depth]

(* cursor_offset; None for a cursor of something else.                     *)
CursorOffset(cursor, fingerprint) ==
  IF cursor = None THEN 0
  ELSE IF cursor.fingerprint = fingerprint THEN cursor.offset ELSE None

-----------------------------------------------------------------------------
(* search_candidates.                                                      *)

(* graph_match and memory_match: the first test that succeeds is the one    *)
(* with the highest rank.                                                  *)
Ranks == [id |-> 100, key |-> 95, path |-> 90, title |-> 90, prefix |-> 70, contains |-> 50]
Rank(tests) == Max({0} \cup {Ranks[t] : t \in tests})

Wanted(filter, value) == filter = {} \/ value \in filter

(* A path filter takes the path itself and what lies below it.             *)
BelowOneOf(filters, path) ==
  filters = {} \/ (path # None /\ \E f \in filters : IsPrefix(f, path))

EvidencePath(node) == IF node.evidence = None THEN None ELSE node.evidence.path

SearchCandidates(facts, op) ==
  LET nodes == {<<1, n>> : n \in {m \in DOMAIN facts.nodes :
                  /\ Wanted(op.kinds, facts.nodes[m].kind)
                  /\ BelowOneOf(op.paths, EvidencePath(facts.nodes[m]))
                  /\ Rank(facts.nodes[m].tests) > 0}}
      entities == {<<3, e>> : e \in {f \in DOMAIN facts.entities :
                     /\ Wanted(op.memoryKinds, facts.entities[f].kind)
                     /\ Rank(facts.entities[f].tests) > 0}}
      Score(u) == Rank(IF u[1] = 1 THEN facts.nodes[u[2]].tests ELSE facts.entities[u[2]].tests)
      Before(u, v) == \/ Score(u) > Score(v)
                      \/ Score(u) = Score(v) /\ u[2] < v[2]
                      \/ Score(u) = Score(v) /\ u[2] = v[2] /\ u[1] < v[1]
  IN Ordered(nodes \cup entities, Before)

-----------------------------------------------------------------------------
(* Walks: graph_neighborhood, memory_context_units and                     *)
(* federated_context_units.  A place is a unit of class 1 or 3.            *)

(* federated_relationship_targets; a revision alone has only entities.     *)
RelationshipTargets(facts, r) ==
  LET here == r.resolved /\ facts.snapshot # None /\ r.snapshot = facts.snapshot
      named(n) == CASE r.to = "node" -> n = r.at
                    [] r.to = "path" -> EvidencePath(facts.nodes[n]) = r.at
                    [] r.to = "symbol" -> facts.nodes[n].key = r.at
  IN IF r.to = "entity" THEN {<<3, r.at>>}
     ELSE {<<1, n>> : n \in {m \in DOMAIN facts.nodes : here /\ named(m)}}

(* The edges and relationships that a walk may follow, with their ends.    *)
Links(facts, op) ==
  LET edge(e) == facts.edges[e]
      followed == {"node"} \cup (IF op.external THEN {"external"} ELSE {})
                           \cup (IF op.unresolved THEN {"unresolved"} ELSE {})
      edges == {e \in DOMAIN facts.edges :
                  /\ Wanted(op.edgeKinds, edge(e).kind)
                  /\ op.name = "context" => edge(e).to \in followed}
      relationship(r) == facts.relationships[r]
      relationships == {r \in DOMAIN facts.relationships :
                          /\ relationship(r).resolved \/ op.unresolved
                          /\ Wanted(op.relationshipKinds, relationship(r).kind)}
  IN {[unit |-> <<2, e>>, source |-> <<1, edge(e).source>>,
       targets |-> IF edge(e).to = "node" THEN {<<1, edge(e).target>>} ELSE {}] : e \in edges}
     \cup {[unit |-> <<4, r>>, source |-> <<3, relationship(r).source>>,
            targets |-> RelationshipTargets(facts, relationship(r))] : r \in relationships}

Places(facts) ==
  {<<1, n>> : n \in DOMAIN facts.nodes} \cup {<<3, e>> : e \in DOMAIN facts.entities}

(* graph_seed_ids and the entities among the seeds.  Seeds that are not    *)
(* there are no places.                                                    *)
SeedPlaces(facts, seed) ==
  {p \in Places(facts) :
     CASE seed.of = "node" -> p = <<1, seed.value>>
       [] seed.of = "entity" -> p = <<3, seed.value>>
       [] seed.of = "symbol" -> p[1] = 1 /\ facts.nodes[p[2]].key = seed.value
       [] seed.of = "path" -> p[1] = 1 /\ EvidencePath(facts.nodes[p[2]]) = seed.value}

Outgoing(link, frontier, direction) ==
  direction \in {"outgoing", "both"} /\ link.source \in frontier
Incoming(link, frontier, direction) ==
  direction \in {"incoming", "both"} /\ link.targets \cap frontier # {}

(* One round: what the frontier touches, and the places that are new.      *)
Round(facts, op, walk) ==
  LET links == Links(facts, op)
      out == {l \in links : Outgoing(l, walk.frontier, op.direction)}
      in == {l \in links : Incoming(l, walk.frontier, op.direction)}
      reached == UNION {l.targets : l \in out} \cup {l.source : l \in in}
      new == (reached \cap Places(facts)) \ walk.places
  IN [places |-> walk.places \cup new, links |-> walk.links \cup {l.unit : l \in out \cup in},
      frontier |-> new, depth |-> walk.depth + 1]

(* The rounds until the frontier is empty or the depth is reached.         *)
Walk(facts, op, maxDepth) ==
  LET seeds == UNION {SeedPlaces(facts, seed) : seed \in op.seeds}
      start == [places |-> seeds, links |-> {}, frontier |-> seeds, depth |-> 0]
      after[d \in 0 .. maxDepth] ==
        IF d = 0 THEN start
        ELSE IF after[d - 1].frontier = {} THEN after[d - 1]
        ELSE Round(facts, op, after[d - 1])
  IN after[maxDepth]

(* The units in order: nodes, edges, entities, relationships, each by id.  *)
WalkUnits(walk) ==
  Ordered(walk.places \cup walk.links,
          LAMBDA u, v : u[1] < v[1] \/ (u[1] = v[1] /\ u[2] < v[2]))

DepthLimited(walk, maxDepth) == walk.frontier # {} /\ walk.depth >= maxDepth

(* validate_context_seeds and validate_operation_target.                   *)
SeedsFit(target, op) ==
  \A seed \in op.seeds :
    IF seed.of = "entity" THEN target.memory # None ELSE target.graph # None

TargetFits(target, op) == op.name = "neighborhood" => target.graph # None

-----------------------------------------------------------------------------
(* Answers.                                                                *)

MutPage(units, sizes, offset, budget, limited) ==
  LET rest == SubSeq(units, offset + 1, Len(units))
      n == Max({k \in 0 .. Min({Len(rest), budget.results}) :
                  SizesOf(SubSeq(rest, 1, k), sizes) <= budget.bytes})
  IN [items |-> SubSeq(rest, 1, n),
      next |-> IF n < Len(rest) THEN offset + n ELSE None,
      truncation |-> IF n = Len(rest) THEN None
                     ELSE IF n = budget.results THEN "results" ELSE "bytes"]

(* paginate: as many units as fit.  A page without a unit, though there    *)
(* are some, is an error.                                                  *)
Page(units, sizes, offset, budget, limited) ==
  LET rest == SubSeq(units, offset + 1, Len(units))
      n == Max({k \in 0 .. Min({Len(rest), budget.results}) :
                  SizesOf(SubSeq(rest, 1, k), sizes) <= budget.bytes})
  IN [items |-> SubSeq(rest, 1, n),
      next |-> IF n < Len(rest) THEN offset + n ELSE None,
      truncation |-> IF n = Len(rest) THEN IF limited THEN "depth" ELSE None
                     ELSE IF n = budget.results THEN "results" ELSE "bytes"]

(* evidence_slice and bounded_utf8: how many bytes of the evidence a        *)
(* snippet has, or None for evidence that gives no text.                   *)
SliceLength(content, span) ==
  LET text == TextOf[content]
      start == IF span = None THEN 0 ELSE span[1]
      end == IF span = None THEN text.bytes ELSE span[2]
  IN IF /\ start <= end /\ end <= text.bytes
        /\ text.utf8 /\ start % text.width = 0 /\ end % text.width = 0
     THEN end - start ELSE None

Bounded(content, length, remaining) ==
  LET width == TextOf[content].width
  IN width * (Min({length, remaining}) \div width)

(* One round of the loops of snippets: nothing once the budget is used up, *)
(* for evidence that was seen, for content that the manifest has not, and  *)
(* for what is no text.                                                    *)
AddSnippet(found, unit, evidence, manifest) ==
  LET length == SliceLength(evidence.content, evidence.span)
      used == Bounded(evidence.content, length, found.remaining)
  IN IF \/ found.remaining = 0 \/ evidence = None
        \/ (unit[1] = 1 /\ evidence \in found.seen)
        \/ [path |-> evidence.path, content |-> evidence.content] \notin manifest
        \/ length = None
     THEN found
     ELSE [remaining |-> found.remaining - used, seen |-> found.seen \cup {evidence},
           snippets |-> Append(found.snippets, [of |-> unit, evidence |-> evidence, bytes |-> used,
                                                truncated |-> used < length])]

EvidenceOf(facts, unit) ==
  IF unit[1] = 1 THEN facts.nodes[unit[2]].evidence ELSE facts.entities[unit[2]].evidence

(* snippets, of the nodes or of the entities of a page.                    *)
Snippets(facts, page, class, manifest, found) ==
  FoldLeft(LAMBDA f, u : AddSnippet(f, u, EvidenceOf(facts, u), manifest), found,
           SelectSeq(page.items, LAMBDA u : u[1] = class))

Weight(result, sizes) ==
  Envelope + FoldLeft(LAMBDA sum, d : sum + d, 0, result.diagnostics)
  + SizesOf(result.items, sizes)
  + FoldLeft(LAMBDA sum, snippet : sum + 1 + snippet.bytes, 0, result.snippets)

MutFitLastSnippet(result, sizes, max) ==
  LET last == Last(result.snippets)
      width == TextOf[last.evidence.content].width
      cut(k) == [result EXCEPT !.snippets = Append(Front(@), [last EXCEPT !.bytes = width * k])]
      fitting == Max({0} \cup {k \in 1 .. (last.bytes \div width) - 1 : Weight(cut(k), sizes) <= max})
  IN IF fitting = 0 THEN [result EXCEPT !.snippets = Front(@)] ELSE cut(fitting)

(* fit_last_context_snippet: the last snippet is cut to the characters     *)
(* that fit, and goes when none does.                                      *)
FitLastSnippet(result, sizes, max) ==
  LET last == Last(result.snippets)
      width == TextOf[last.evidence.content].width
      cut(k) == [result EXCEPT !.snippets = Append(Front(@), [last EXCEPT !.bytes = width * k,
                                                                         !.truncated = TRUE])]
      fitting == Max({0} \cup {k \in 1 .. (last.bytes \div width) - 1 : Weight(cut(k), sizes) <= max})
  IN IF fitting = 0 THEN [result EXCEPT !.snippets = Front(@)] ELSE cut(fitting)

RECURSIVE FitResult(_, _, _, _)
(* fit_result_to_budget: diagnostics go first, then snippets, then results *)
(* from the end, and the cursor goes back with them; None when one result  *)
(* is too large.                                                           *)
FitResult(result, sizes, max, offset) ==
  LET rest == [result EXCEPT !.truncation = "bytes"]
  IN IF Weight(result, sizes) <= max THEN result
     ELSE IF result.diagnostics # << >>
     THEN FitResult([rest EXCEPT !.diagnostics = Front(@)], sizes, max, offset)
     ELSE IF result.snippets # << >>
     THEN FitResult(FitLastSnippet(rest, sizes, max), sizes, max, offset)
     ELSE IF Len(result.items) <= 1 THEN None
     ELSE FitResult([rest EXCEPT !.items = Front(@),
                                 !.next = offset + Len(result.items) - 1], sizes, max, offset)

-----------------------------------------------------------------------------
(* The service.  A request in progress goes from stage to stage; late once *)
(* its deadline has passed.                                                *)

NoFacts == [snapshot |-> None, nodes |-> << >>, edges |-> << >>, entities |-> << >>,
            relationships |-> << >>, diagnostics |-> << >>]
Idle == [stage |-> "idle"]
NoTrail == [asked |-> None]

Init ==
  /\ \E pair \in Published :
       store = [rows |-> Snapshots \cup {pair[2]}, marks |-> ToSet(pair), graphView |-> pair[1],
                memoryView |-> pair[2], links |-> {pair}, objects |-> ToSet(pair)]
  /\ request = Idle /\ given = None /\ trail = NoTrail /\ moves = 0

Goto(stage) == request' = [request EXCEPT !.stage = stage]

(* An error ends the request.  The client keeps the pages it has.          *)
Refuse(code) ==
  /\ request' = Idle
  /\ given' = [code |-> code, cursor |-> request.cursor, late |-> request.late]
  /\ UNCHANGED <<store, trail, moves>>

(* query up to the first look at the store.                                *)
Ask(credential, target, op, budget, cursor) ==
  /\ request = Idle
  /\ LET asked == [stage |-> "resolve", target |-> target, op |-> op, budget |-> Clamp(budget),
                   cursor |-> cursor, late |-> FALSE, resolved |-> None, facts |-> NoFacts,
                   linked |-> FALSE, result |-> None,
                   current |-> {<<store.graphView, store.memoryView>>}]
         code == IF ~AuthorizeQuery(credential, target, op) THEN "Unauthorized"
                 ELSE IF ~ValidBody(op, cursor) THEN "InvalidRequest" ELSE "ok"
     IN IF code = "ok" THEN request' = asked /\ given' = None
        ELSE request' = Idle /\ given' = [code |-> code, cursor |-> cursor, late |-> FALSE]
  /\ UNCHANGED <<store, moves>>

(* A client asks something new,                                            *)
Begin ==
  \E c \in Credentials, q \in Questions, b \in Budgets :
    /\ Ask(c, q.target, q.op, b, None)
    /\ trail' = [asked |-> q, target |-> None, depth |-> Clamp(b).depth, items |-> << >>,
                 next |-> None, linked |-> {}, pages |-> 0]

(* or the next page, of what it asked or of what that was resolved to,     *)
(* with another budget if it likes.                                        *)
Continue ==
  \E c \in Credentials, b \in Budgets, q \in Questions :
    /\ trail.asked # None /\ trail.next # None /\ trail.pages < MaxPages
    /\ \E target \in {trail.target, q.target} : Ask(c, target, q.op, b, trail.next)
    /\ UNCHANGED trail

(* The deadline passes.                                                    *)
Late ==
  /\ request # Idle /\ ~request.late
  /\ request' = [request EXCEPT !.late = TRUE]
  /\ UNCHANGED <<store, given, trail, moves>>

(* resolve_target, in one statement, and validate_operation_target.        *)
Resolve ==
  LET asked == request.target
      target == [graph |-> IF asked.graph = "view" THEN store.graphView ELSE asked.graph,
                 memory |-> IF asked.memory = "view" THEN store.memoryView ELSE asked.memory]
      missing == \/ asked.graph = "view" /\ target.graph = None
                 \/ asked.memory = "view" /\ target.memory = None
  IN /\ request.stage = "resolve"
     /\ IF request.late /\ "view" \in {asked.graph, asked.memory} THEN Refuse("BudgetExceeded")
        ELSE IF missing THEN Refuse("NotFound")
        ELSE IF ~TargetFits(target, request.op) THEN Refuse("InvalidRequest")
        ELSE /\ request' = [request EXCEPT !.resolved = target,
                              !.stage = IF target.graph # None THEN "graph" ELSE "memory"]
             /\ UNCHANGED <<store, given, trail, moves>>

(* published_graph_snapshot_bounded and the like: the mark and the record, *)
LoadRecord(stage, target, next) ==
  /\ request.stage = stage
  /\ IF request.late THEN Refuse("BudgetExceeded")
     ELSE IF target \notin store.marks \cap store.rows THEN Refuse("NotFound")
     ELSE Goto(next) /\ UNCHANGED <<store, given, trail, moves>>

(* then the facts, which have to be as many as the record says: a row that *)
(* is gone took its facts with it (ON DELETE CASCADE).                     *)
Loaded(facts, next) ==
  /\ request' = [request EXCEPT !.facts = facts, !.stage = next]
  /\ UNCHANGED <<store, given, trail, moves>>

MutLoadFacts(stage, target, facts, next) ==
  /\ request.stage = stage
  /\ IF request.late THEN Refuse("BudgetExceeded")
     ELSE Loaded(IF target \in store.rows THEN facts ELSE request.facts, next)

LoadFacts(stage, target, facts, next) ==
  /\ request.stage = stage
  /\ IF request.late THEN Refuse("BudgetExceeded")
     ELSE IF target \notin store.rows THEN Refuse("Internal")
     ELSE Loaded(facts, next)

AfterGraph == IF request.resolved.memory # None THEN "memory" ELSE "execute"
AfterMemory == IF request.resolved.graph # None THEN "links" ELSE "execute"

WithGraph(facts, s) ==
  [facts EXCEPT !.snapshot = s, !.nodes = GraphOf[s].nodes, !.edges = GraphOf[s].edges,
                !.diagnostics = @ \o GraphOf[s].diagnostics]
WithMemory(facts, r) ==
  [facts EXCEPT !.entities = MemoryOf[r].entities, !.relationships = MemoryOf[r].relationships,
                !.diagnostics = @ \o MemoryOf[r].diagnostics]
WithLinks(facts, s, r) ==
  [facts EXCEPT !.relationships = @ @@ LinksOf[<<s, r>>].relationships,
                !.diagnostics = @ \o LinksOf[<<s, r>>].diagnostics]

(* load_target.                                                            *)
LoadTarget ==
  LET s == request.resolved.graph
      r == request.resolved.memory
  IN \/ LoadRecord("graph", s, "graph_facts")
     \/ LoadFacts("graph_facts", s, WithGraph(request.facts, s), AfterGraph)
     \/ LoadRecord("memory", r, "memory_facts")
     \/ LoadFacts("memory_facts", r, WithMemory(request.facts, r), AfterMemory)

(* published_memory_repository_links_bounded.  A pair without a link set   *)
(* is answered without.                                                    *)
LoadLinks ==
  LET s == request.resolved.graph
      r == request.resolved.memory
  IN \/ /\ request.stage = "links"
        /\ IF request.late THEN Refuse("BudgetExceeded")
           ELSE Goto(IF {s, r} \subseteq store.marks /\ <<s, r>> \in store.links
                     THEN "link_facts" ELSE "execute")
                /\ UNCHANGED <<store, given, trail, moves>>
     \/ /\ request.stage = "link_facts"
        /\ IF request.late THEN Refuse("BudgetExceeded")
           ELSE IF <<s, r>> \notin store.links THEN Refuse("Internal")
           ELSE /\ request' = [request EXCEPT !.facts = WithLinks(@, s, r), !.linked = TRUE,
                                             !.stage = "execute"]
                /\ UNCHANGED <<store, given, trail, moves>>

(* The facts that an operation looks at: a neighborhood is one of the graph. *)
Scope(facts, op) ==
  IF op.name = "neighborhood"
  THEN [facts EXCEPT !.entities = << >>, !.relationships = << >>] ELSE facts

Units(facts, op, depth) ==
  CASE op.name = "status" -> << >>
    [] op.name = "search" -> SearchCandidates(facts, op)
    [] op.name \in {"neighborhood", "context"} -> WalkUnits(Walk(Scope(facts, op), op, depth))

Limited(facts, op, depth) ==
  op.name \in {"neighborhood", "context"} /\ DepthLimited(Walk(Scope(facts, op), op, depth), depth)

Sizes(facts) ==
  [u \in {<<1, n>> : n \in DOMAIN facts.nodes} \cup {<<2, e>> : e \in DOMAIN facts.edges}
         \cup {<<3, e>> : e \in DOMAIN facts.entities}
         \cup {<<4, r>> : r \in DOMAIN facts.relationships} |->
     CASE u[1] = 1 -> facts.nodes[u[2]].size
       [] u[1] = 2 -> facts.edges[u[2]].size
       [] u[1] = 3 -> facts.entities[u[2]].size
       [] u[1] = 4 -> facts.relationships[u[2]].size]

OffsetOf(req) == CursorOffset(req.cursor, Fingerprint(req.resolved, req.op, req.budget.depth))

(* execute up to the page.  A walk that runs out of time has no units, so  *)
(* that the cursor of a later page is taken for a stale one.               *)
Execute ==
  LET op == request.op
      facts == request.facts
      depth == request.budget.depth
      late == request.late /\ op.name \in {"neighborhood", "context"}
      units == IF late THEN << >> ELSE Units(facts, op, depth)
      offset == OffsetOf(request)
      page == Page(units, Sizes(facts), offset, request.budget,
                   ~late /\ Limited(facts, op, depth))
      kept == Min({Len(facts.diagnostics), request.budget.diagnostics})
  IN /\ request.stage = "execute"
     /\ IF op.name = "search" /\ request.late THEN Refuse("BudgetExceeded")
        ELSE IF op.name = "context" /\ ~SeedsFit(request.resolved, op) THEN Refuse("InvalidRequest")
        ELSE IF offset = None THEN Refuse("StaleCursor")
        ELSE IF offset > Len(units) THEN Refuse("StaleCursor")
        ELSE IF page.items = << >> /\ offset < Len(units) THEN Refuse("BudgetExceeded")
        ELSE /\ request' = [request EXCEPT
                  !.result = page @@ [snippets |-> << >>,
                                      diagnostics |-> SubSeq(facts.diagnostics, 1, kept)],
                  !.stage = IF ~op.snippets THEN "fit"
                            ELSE IF request.resolved.graph # None THEN "graph_snippets"
                            ELSE "memory_snippets"]
             /\ UNCHANGED <<store, given, trail, moves>>

(* repository_manifest or memory_manifest, and the loop of snippets: the   *)
(* job of the target is inspected and its objects are read.                *)
ReadSnippets(stage, target, class, manifest, next) ==
  LET found == [remaining |-> request.budget.snippetBytes - FoldLeft(LAMBDA sum, x : sum + x.bytes,
                                                               0, request.result.snippets),
                seen |-> {}, snippets |-> request.result.snippets]
  IN /\ request.stage = stage
     /\ IF request.late THEN Refuse("BudgetExceeded")
        ELSE IF target \notin store.rows THEN Refuse("Internal")
        ELSE IF target \notin store.objects THEN Refuse("TemporarilyUnavailable")
        ELSE /\ request' = [request EXCEPT !.stage = next, !.result.snippets =
                              Snippets(request.facts, request.result, class, manifest, found).snippets]
             /\ UNCHANGED <<store, given, trail, moves>>

GraphSnippets ==
  ReadSnippets("graph_snippets", request.resolved.graph, 1, GraphOf[request.resolved.graph].files,
               IF request.resolved.memory # None THEN "memory_snippets" ELSE "fit")

MemorySnippets ==
  ReadSnippets("memory_snippets", request.resolved.memory, 3,
               MemoryOf[request.resolved.memory].sources, "fit")

Cursor(req, offset) ==
  IF offset = None THEN None
  ELSE [fingerprint |-> Fingerprint(req.resolved, req.op, req.budget.depth), offset |-> offset]

(* The end of execute, with the last checks of the deadline.  The client   *)
(* adds the page to those it has.                                          *)
Answer ==
  LET result == FitResult(request.result, Sizes(request.facts), request.budget.bytes,
                          OffsetOf(request))
      next == Cursor(request, result.next)
  IN /\ request.stage = "fit"
     /\ IF request.late THEN Refuse("BudgetExceeded")
        ELSE IF result = None THEN Refuse("BudgetExceeded")
        ELSE /\ request' = Idle
             /\ given' = [code |-> "ok", request |-> [request EXCEPT !.result = result]]
             /\ trail' = [trail EXCEPT !.target = request.resolved, !.items = @ \o result.items,
                                       !.next = next, !.linked = @ \cup {request.linked}, !.pages = @ + 1]
             /\ UNCHANGED <<store, moves>>

-----------------------------------------------------------------------------
(* What happens to the store meanwhile (IndexPublication has the details). *)

Change(new) ==
  /\ moves < MaxChanges /\ moves' = moves + 1
  /\ store' = new
  /\ request' = IF request = Idle THEN Idle
                ELSE [request EXCEPT !.current = @ \cup {<<new.graphView, new.memoryView>>}]
  /\ UNCHANGED <<given, trail>>

PublishGraph(s) ==
  /\ s # store.graphView
  /\ Change([store EXCEPT !.rows = @ \cup {s}, !.marks = @ \cup {s}, !.objects = @ \cup {s},
                          !.graphView = s])

(* A revision comes with the link set of a published snapshot, or without; *)
(* one that is published already may get the links of a newer snapshot.    *)
PublishMemory(r, s) ==
  /\ s # None => s \in store.marks
  /\ r # store.memoryView \/ (s # None /\ <<s, r>> \notin store.links)
  /\ Change([store EXCEPT !.rows = @ \cup {r}, !.marks = @ \cup {r}, !.objects = @ \cup {r},
                          !.memoryView = r,
                          !.links = IF s = None THEN @ ELSE @ \cup {<<s, r>>}])

Delete(class) ==
  Change(CASE class = "source" -> [store EXCEPT !.objects = {}]
           [] class = "graph" ->
                [store EXCEPT !.rows = @ \ Snapshots, !.marks = @ \ Snapshots, !.graphView = None,
                              !.links = {}]
           [] class = "memory" ->
                [store EXCEPT !.rows = @ \ Revisions, !.marks = @ \ Revisions, !.memoryView = None,
                              !.links = {}])

Next ==
  \/ Begin \/ Continue \/ Late
  \/ Resolve \/ LoadTarget \/ LoadLinks \/ Execute \/ GraphSnippets \/ MemorySnippets \/ Answer
  \/ \E s \in Snapshots : PublishGraph(s)
  \/ \E r \in Revisions, s \in Snapshots \cup {None} : PublishMemory(r, s)
  \/ \E class \in {"source", "graph", "memory"} : Delete(class)

-----------------------------------------------------------------------------
(* What a target holds, with or without its link set.                      *)
FactsOf(target, linked) ==
  LET graph == IF target.graph = None THEN NoFacts ELSE WithGraph(NoFacts, target.graph)
      both == IF target.memory = None THEN graph ELSE WithMemory(graph, target.memory)
  IN IF linked THEN WithLinks(both, target.graph, target.memory) ELSE both


(* Places that a path of at most d links leads to.                         *)
Adjacent(links, direction, p, q) ==
  \E l \in links : \/ direction # "incoming" /\ l.source = p /\ q \in l.targets
                   \/ direction # "outgoing" /\ l.source = q /\ p \in l.targets

Reached(facts, op, d) ==
  LET links == Links(facts, op)
      seeds == UNION {SeedPlaces(facts, seed) : seed \in op.seeds}
  IN {p \in Places(facts) :
        \E n \in 0 .. d : \E path \in [0 .. n -> Places(facts)] :
          /\ path[0] \in seeds /\ path[n] = p
          /\ \A i \in 1 .. n : Adjacent(links, op.direction, path[i - 1], path[i])}

(* The pages of a walk are what the links lead to within the depth, and    *)
(* say so when there may be more (graph_neighborhood and the context walks). *)
WalksExact ==
  given # None /\ given.code = "ok" /\ given.request.op.name \in {"neighborhood", "context"}
  /\ trail.next = None /\ Cardinality(trail.linked) = 1 =>
    LET op == given.request.op
        facts == Scope(FactsOf(given.request.resolved, given.request.linked), op)
        d == given.request.budget.depth
        near == Reached(facts, op, d - 1)
        units == ToSet(trail.items)
    IN /\ {u \in units : u[1] \in {1, 3}} = Reached(facts, op, d)
       /\ {u \in units : u[1] \in {2, 4}} =
            {l.unit : l \in {k \in Links(facts, op) :
               Outgoing(k, near, op.direction) \/ Incoming(k, near, op.direction)}}
       /\ given.request.result.truncation = None => Reached(facts, op, d + 1) = Reached(facts, op, d)

(* An answer fits its budget; every snippet in it is of a result in it and *)
(* of content the job was given, and one that is not all of its evidence   *)
(* says so (snippets, fit_last_context_snippet).                           *)
SnippetsTrue ==
  given # None /\ given.code = "ok" =>
    LET req == given.request
        result == req.result
        manifest == (IF req.resolved.graph = None THEN {} ELSE GraphOf[req.resolved.graph].files)
                    \cup (IF req.resolved.memory = None THEN {}
                          ELSE MemoryOf[req.resolved.memory].sources)
    IN /\ Weight(result, Sizes(req.facts)) <= req.budget.bytes
       /\ FoldLeft(LAMBDA sum, x : sum + x.bytes, 0, result.snippets) <= req.budget.snippetBytes
       /\ \A i \in DOMAIN result.snippets :
            LET x == result.snippets[i]
            IN /\ x.of \in ToSet(result.items)
               /\ [path |-> x.evidence.path, content |-> x.evidence.content] \in manifest
               /\ x.truncated = (x.bytes < SliceLength(x.evidence.content, x.evidence.span))

=============================================================================
