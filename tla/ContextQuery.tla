----------------------------- MODULE ContextQuery -----------------------------
(***************************************************************************)
(* Reading project memory, and memory together with the repository graph:  *)
(* project_context_search and project_context on the local sidecars, page  *)
(* after page, while both are published anew                               *)
(* (src/src/project_memory: query_sqlite, federation_service,              *)
(* project_memory_runtime.rs, nano/context.rs).                            *)
(*                                                                         *)
(* A combined answer is put together from up to seven sub-queries, each of *)
(* one or more pages; a page of a sub-query is one step.  The repository's *)
(* side of it is what module GraphQuery checks, taken here as a contract.  *)
(* Rows are numbered in the order of their ids; score, rank (kind) and     *)
(* weight (serialized length) of a row are data of its version.            *)
(***************************************************************************)
EXTENDS Integers, Sequences, FiniteSets, FiniteSetsExt, SequencesExt

CONSTANTS Graph,         \* snapshot -> [score, rank, weight : row -> Nat, edges]
          Memory,        \* revision -> the same, and mentions of repository paths
          Links,         \* revision -> snapshot -> its link set, or None
          Questions,     \* what clients ask
          Envelope,      \* what an answer weighs without its items
          MaxCandidates, \* MAX_FEDERATION_CANDIDATES
          MaxWalk,       \* MAX_CONTEXT_CANDIDATES, MAX_CONTEXT_RELATIONSHIPS
          MaxChanges,    \* bound: publications and edits of the sources
          None

VARIABLES published,  \* [repository, memory]: what the views select
          sources,    \* the revision whose content the memory sources still hold
          call,       \* the call in progress
          answers,    \* the client's chain of pages
          changes

vars == <<published, sources, call, answers, changes>>

Least(a, b) == IF a < b THEN a ELSE b
Prefix(seq, n) == SubSeq(seq, 1, Least(Len(seq), n))
After(seq, n) == SubSeq(seq, n + 1, Len(seq))
Ascending(S) == SetToSortSeq(S, <)
EdgesById(S) == SetToSortSeq(S, LAMBDA d, e : d.id < e.id)

Rows(domain, version) == IF domain = "repository" THEN Graph[version] ELSE Memory[version]

-----------------------------------------------------------------------------
(* The two domains.                                                        *)

(* rank_memory_search_hits and search_rows: by score, then kind, then id.  *)
Hits(d) ==
  LET before(m, n) == \/ d.score[m] > d.score[n]
                      \/ d.score[m] = d.score[n] /\ d.rank[m] < d.rank[n]
                      \/ d.score[m] = d.score[n] /\ d.rank[m] = d.rank[n] /\ m < n
  IN SetToSortSeq({n \in DOMAIN d.score : d.score[n] > 0}, before)

(* The adjacency of context_assembly: neighbors in the order of their ids, *)
(* then of the relationships.                                              *)
Neighbors(d, n, direction) ==
  LET out == IF direction \in {"outgoing", "both"}
             THEN {[to |-> e.target, id |-> e.id] : e \in {x \in d.edges : x.source = n}} ELSE {}
      in == IF direction \in {"incoming", "both"}
            THEN {[to |-> e.source, id |-> e.id] : e \in {x \in d.edges : x.target = n}} ELSE {}
  IN SetToSortSeq(out \cup in, LAMBDA x, y : x.to < y.to \/ (x.to = y.to /\ x.id < y.id))

(* One neighbor of the row at the head of the queue.                       *)
Visit(w, x) ==
  IF w.stopped THEN w
  ELSE IF \/ x.to \notin DOMAIN w.depth /\ Cardinality(DOMAIN w.depth) >= MaxWalk
          \/ x.id \notin w.edges /\ Cardinality(w.edges) >= MaxWalk
  THEN [w EXCEPT !.stopped = TRUE]
  ELSE IF x.to \in DOMAIN w.depth THEN [w EXCEPT !.edges = @ \cup {x.id}]
  ELSE [w EXCEPT !.edges = @ \cup {x.id}, !.queue = Append(@, x.to),
                 !.depth = @ @@ (x.to :> w.depth[Head(w.queue)] + 1)]

(* The traversal, after i rows were taken off the queue.                   *)
Traverse(d, seeds, depth, direction) ==
  LET start == [depth |-> [n \in seeds |-> 0], edges |-> {}, queue |-> Ascending(seeds),
                stopped |-> FALSE]
      walk[i \in 0 .. Cardinality(DOMAIN d.score)] ==
        IF i = 0 THEN start
        ELSE LET w == walk[i - 1]
             IN IF w.queue = <<>> \/ w.stopped THEN w
                ELSE LET next == IF w.depth[Head(w.queue)] >= depth THEN w
                                 ELSE FoldLeft(Visit, w, Neighbors(d, Head(w.queue), direction))
                     IN [next EXCEPT !.queue = Tail(@)]
  IN walk[Cardinality(DOMAIN d.score)]

(* The entries of a memory context: entities by depth, kind and id, then   *)
(* the relationships.  Those of a repository context: exact seeds, then by *)
(* selection rank, depth and id; its edges are not part of the answer.     *)
Found(domain, d, exact, w) ==
  LET before(m, n) ==
        LET k(x) == IF domain = "memory" THEN <<w.depth[x], d.rank[x], x>>
                    ELSE <<IF w.depth[x] = 0 THEN 0 ELSE d.rank[x], w.depth[x], x>>
        IN \E i \in 1 .. 3 : k(m)[i] < k(n)[i] /\ \A j \in 1 .. i - 1 : k(m)[j] = k(n)[j]
      rows == SetToSortSeq(DOMAIN w.depth, before)
  IN [i \in DOMAIN rows |->
        [kind |-> "item", key |-> rows[i], exact |-> rows[i] \in exact, weight |-> d.weight[rows[i]]]]
     \o IF domain = "repository" THEN <<>>
        ELSE LET ids == Ascending(w.edges)
             IN [i \in DOMAIN ids |-> [kind |-> "rel", key |-> ids[i], exact |-> FALSE, weight |-> 1]]

Weight(entries) == FoldLeft(LAMBDA sum, e : sum + e.weight, 0, entries)

(* The longest prefix within a budget.                                     *)
Fitting(entries, results, bytes) ==
  Max({k \in 0 .. Least(Len(entries), results) : Weight(Prefix(entries, k)) <= bytes})

(* memory_page and page_info: a cursor needs a page that moved on.         *)
HasCursor(k, rest) == k < Len(rest) /\ k > 0

StopReason(k, rest, q) ==
  IF k = Len(rest) THEN None ELSE IF k = q.results THEN "results" ELSE "bytes"

(* A memory entry that fits no page is an error, a repository row that fits *)
(* none an empty page.                                                     *)
TooLarge(domain, k, rest) == domain = "memory" /\ k = 0 /\ rest # <<>>

(* The page of a sub-query at an offset.                                   *)
DomainPage(domain, entries, offset, q, truncated) ==
  LET rest == After(entries, offset)
      k == Fitting(rest, q.results, q.bytes)
      stop == StopReason(k, rest, q)
  IN IF TooLarge(domain, k, rest) THEN [error |-> "bytes"]
     ELSE [error |-> None, entries |-> Prefix(rest, k), more |-> HasCursor(k, rest),
           reason |-> IF stop = None THEN truncated ELSE stop]

-----------------------------------------------------------------------------
(* Calls.                                                                  *)

Idle == [at |-> "idle"]

Desired(offset, q) == Least(offset + q.results + 1, MaxCandidates)

Domains(q) == IF q.target = "all" THEN {"repository", "memory"} ELSE {q.target}

(* The sub-queries of a call, in the order they are made.                  *)
Plan(q) ==
  (IF q.pinned THEN SelectSeq(<<"pin repository", "pin memory">>,
                              LAMBDA p : \E d \in Domains(q) : p = IF d = "memory" THEN "pin memory"
                                                                   ELSE "pin repository")
   ELSE <<>>)
  \o (IF q.op = "search" THEN SelectSeq(<<"repository", "memory">>, LAMBDA d : d \in Domains(q))
      ELSE IF q.target # "all" THEN <<q.target>>
      ELSE <<"status", "revision", "links", "memory", "memory linked", "repository",
             "repository linked">>)
  \o <<"answer">>

DomainOf(stage) == IF stage \in {"memory", "memory linked", "pin memory", "revision"}
                   THEN "memory" ELSE "repository"

(* repository_only_seeds, memory_only_seeds: a node id means nothing to     *)
(* memory, and a memory entity nothing to the repository.                  *)
SeedsFit(q) ==
  q.op = "context" =>
    /\ q.target = "repository" => q.entities = {}
    /\ q.target = "memory" => ~q.nodes
    /\ q.entities # {} \/ q.rows # {}

(* What a cursor is bound to: everything but the page and the size of one.  *)
Fingerprint(q) == [q EXCEPT !.results = 0, !.bytes = 0]

CursorMatches(cursor, q) == IF cursor = None THEN TRUE ELSE cursor.fingerprint = Fingerprint(q)

Offset == IF call.cursor = None THEN 0 ELSE call.cursor.offset

Begin(q, cursor) ==
  call' = [at |-> "call", q |-> q, cursor |-> cursor, plan |-> Plan(q), links |-> {},
           pin |-> [repository |-> None, memory |-> None], used |-> {}, sub |-> None,
           status |-> [repository |-> None, memory |-> None], got |-> <<>>]

Ask(q) ==
  /\ call = Idle
  /\ answers' = <<>> /\ Begin(q, None)
  /\ UNCHANGED <<published, sources, changes>>

(* The command line and an agent's tools read what is published; Nano pins  *)
(* it.                                                                     *)
AskCli(q) == ~q.pinned /\ Ask(q)
AskTool(q) == ~q.pinned /\ Ask(q)
AskNano(q) == q.pinned /\ Ask(q)

(* A tool's client hands the cursor back, with the same question or another. *)
Continue(q) ==
  /\ call = Idle /\ answers # <<>> /\ Last(answers).cursor # None
  /\ Begin(q, Last(answers).cursor)
  /\ UNCHANGED <<published, sources, answers, changes>>

Go(c) == call' = c /\ UNCHANGED <<published, sources, answers, changes>>

Reply(page) ==
  /\ answers' = Append(answers, page @@ [q |-> call.q])
  /\ call' = Idle
  /\ UNCHANGED <<published, sources, changes>>

Failure(code) ==
  [error |-> code, items |-> <<>>, links |-> {}, rels |-> {}, reason |-> None, cursor |-> None]

At(stage) == call # Idle /\ call.plan # <<>> /\ Head(call.plan) = stage
Done(c) == [c EXCEPT !.plan = Tail(@), !.sub = None]

(* decode_cursor, validate_scope and the seeds, before anything is read.   *)
Refuse ==
  /\ call # Idle /\ call.plan = Plan(call.q)
  /\ ~CursorMatches(call.cursor, call.q) \/ ~SeedsFit(call.q)
  /\ Reply(Failure(IF CursorMatches(call.cursor, call.q) THEN "seeds" ELSE "stale_cursor"))

Accepted == call # Idle /\ CursorMatches(call.cursor, call.q) /\ SeedsFit(call.q)

(* pinned_scope: Nano resolves what is published once for an assembly.     *)
Pin(domain) ==
  /\ Accepted /\ At(IF domain = "memory" THEN "pin memory" ELSE "pin repository")
  /\ IF published[domain] = None THEN Reply(Failure("unavailable"))
     ELSE Go([Done(call) EXCEPT !.pin[domain] = published[domain]])

(* resolve_scope: a pinned version, or the one that is published now.      *)
Selected(domain) == IF call.pin[domain] # None THEN call.pin[domain] ELSE published[domain]

(* repository_status and memory_status of a combined context.              *)
Status ==
  \E stage \in {"status", "revision"} :
    /\ Accepted /\ At(stage)
    /\ LET d == DomainOf(stage)
       IN IF d = "memory" /\ Selected(d) = None THEN Reply(Failure("unavailable"))
          ELSE Go([Done(call) EXCEPT !.status[d] = Selected(d)])

(* exact_links: the set of this revision and this snapshot, if there is one. *)
ExactLinks ==
  /\ Accepted /\ At("links")
  /\ LET s == call.status.repository
         set == IF s = None THEN None ELSE Links[call.status.memory][s]
     IN Go([Done(call) EXCEPT !.links = IF set = None THEN {}
                                        ELSE Range(Prefix(EdgesById(set), MaxCandidates)),
                              !.got = IF set # None /\ Cardinality(set) > MaxCandidates
                                      THEN Append(@, [stage |-> "links", reason |-> "results"])
                                      ELSE @])

-----------------------------------------------------------------------------
(* Sub-queries.                                                            *)

ResolvedLinks == {l \in call.links : l.resolved}
Responses == SelectSeq(call.got, LAMBDA r : r.stage # "links")

(* The items of the memory responses that are seeds.                       *)
SelectedEntities ==
  UNION {{r.items[i].key : i \in {j \in DOMAIN r.items : r.items[j].exact}} :
           r \in {x \in Range(Responses) : DomainOf(x.stage) = "memory"}}

(* The links an assembly crosses: from the repository seeds back to memory, *)
(* and from the selected entities on to the repository.                    *)
CrossLinks(stage) ==
  IF stage = "memory linked"
  THEN IF call.q.direction \in {"incoming", "both"}
       THEN {l \in ResolvedLinks : l.target \in call.q.rows} ELSE {}
  ELSE IF call.q.direction \in {"outgoing", "both"}
       THEN {l \in ResolvedLinks : l.source \in SelectedEntities} ELSE {}

(* The seeds of a sub-query; a memory-only question finds the entities that *)
(* mention a repository path.                                              *)
SeedsOf(stage, version) ==
  CASE stage = "repository" -> call.q.rows
    [] stage = "repository linked" -> {l.target : l \in CrossLinks(stage)}
    [] stage = "memory" -> call.q.entities \cup
         (IF call.q.target = "memory"
          THEN {m.source : m \in {x \in Memory[version].mentions : x.target \in call.q.rows}} ELSE {})
    [] OTHER -> {l.source : l \in CrossLinks(stage)}

HasSeeds(stage) ==
  CASE stage = "repository" -> call.q.rows # {}
    [] stage = "memory" -> call.q.entities # {} \/ (call.q.target = "memory" /\ call.q.rows # {})
    [] OTHER -> CrossLinks(stage) # {}

DepthOf(stage) ==
  IF stage \in {"memory linked", "repository linked"} THEN call.q.depth - 1 ELSE call.q.depth

(* A query asks for a depth of at least one; a depth of zero keeps the     *)
(* seeds of what it finds.                                                 *)
AskedDepth(stage) == IF DepthOf(stage) = 0 THEN 1 ELSE DepthOf(stage)

(* A repository walk says when there was more to reach; memory's does not.  *)
Beyond(d, w, depth) ==
  \E n \in DOMAIN w.depth : /\ w.depth[n] >= depth
                            /\ \E x \in Range(Neighbors(d, n, call.q.direction)) : x.id \notin w.edges

(* Seeds that a memory-only question found through mentions are not exact.  *)
Entries(stage, version) ==
  LET domain == DomainOf(stage)
      d == Rows(domain, version)
      seeds == SeedsOf(stage, version) \cap DOMAIN d.score
      w == Traverse(d, seeds, AskedDepth(stage), call.q.direction)
      hits == Hits(d)
  IN IF call.q.op = "search"
     THEN [list |-> [i \in DOMAIN hits |-> [kind |-> "item", key |-> hits[i], exact |-> FALSE,
                                            weight |-> d.weight[hits[i]]]],
           reason |-> None]
     ELSE [list |-> Found(domain, d,
                          IF stage = "memory" THEN seeds \cap call.q.entities ELSE seeds, w),
           reason |-> IF w.stopped THEN IF domain = "memory" THEN "results" ELSE "capability"
                      ELSE IF domain = "repository" /\ Beyond(d, w, AskedDepth(stage)) THEN "depth"
                      ELSE None]

ItemsOf(entries) == SelectSeq(entries, LAMBDA e : e.kind = "item")
RelsOf(entries) == {e.key : e \in {x \in Range(entries) : x.kind = "rel"}}

(* A domain's answer: every item carries the version it was read from.      *)
Response(stage, version, taken, page) ==
  LET kept == IF call.q.op = "context" /\ DepthOf(stage) = 0
              THEN SelectSeq(taken, LAMBDA e : e.kind = "item" /\ e.exact) ELSE taken
  IN [stage |-> stage, version |-> version, reason |-> page.reason, more |-> page.more,
      items |-> [i \in DOMAIN ItemsOf(kept) |->
                   [domain |-> DomainOf(stage), key |-> ItemsOf(kept)[i].key,
                    exact |-> ItemsOf(kept)[i].exact, weight |-> ItemsOf(kept)[i].weight,
                    from |-> version]],
      rels |-> RelsOf(kept)]

(* attach_snippet refuses an entity whose source no longer hashes to what  *)
(* was indexed.                                                            *)
SnippetsStale(stage, version) ==
  call.q.op = "context" /\ DomainOf(stage) = "memory" /\ call.q.snippets /\ sources # version

(* One page of a sub-query.  A cursor is bound to the version it was made   *)
(* for, so that the pages of a sub-query are those of one version.         *)
SubQuery(stage) ==
  /\ LET version == Selected(DomainOf(stage))
         sub == IF call.sub = None THEN [version |-> version, taken |-> <<>>] ELSE call.sub
     IN IF version = None THEN Reply(Failure("unavailable"))
        ELSE IF sub.version # version THEN Reply(Failure("stale_cursor"))
        ELSE \E found \in {Entries(stage, version)} :
             \E page \in {DomainPage(DomainOf(stage), found.list, Len(sub.taken), call.q,
                                     found.reason)} :
               IF page.error # None THEN Reply(Failure(page.error))
               ELSE IF SnippetsStale(stage, version) /\ ItemsOf(page.entries) # <<>>
               THEN Reply(Failure("content_changed"))
               ELSE LET taken == sub.taken \o page.entries
                        next == [call EXCEPT !.used = @ \cup
                                   IF stage \in {"memory linked", "repository linked"}
                                   THEN CrossLinks(stage) ELSE {}]
                    IN IF /\ page.more /\ Len(ItemsOf(taken)) < Desired(Offset, call.q)
                          /\ ItemsOf(page.entries) # <<>>
                       THEN Go([next EXCEPT !.sub = [version |-> version, taken |-> taken]])
                       ELSE Go([Done(next) EXCEPT
                                  !.got = Append(@, Response(stage, version, taken, page))])

(* repository_search and memory_search.                                    *)
SubSearch(stage) == Accepted /\ At(stage) /\ call.q.op = "search" /\ SubQuery(stage)

(* repository_context and memory_context: nothing to do without a seed.    *)
SubContext(stage) ==
  /\ Accepted /\ At(stage) /\ call.q.op = "context"
  /\ IF HasSeeds(stage) THEN SubQuery(stage) ELSE Go(Done(call))

-----------------------------------------------------------------------------
(* Putting the answer together.                                            *)

(* federated_search_order and federated_context_order.                     *)
Before(x, y) ==
  LET k(i) == IF call.q.op = "search"
              THEN <<0 - Rows(i.domain, i.from).score[i.key], IF i.domain = "memory" THEN 1 ELSE 0, i.key>>
              ELSE <<IF i.exact THEN 0 ELSE 1, IF i.domain = "memory" THEN 1 ELSE 0, i.key>>
  IN \E j \in 1 .. 3 : k(x)[j] < k(y)[j] /\ \A l \in 1 .. j - 1 : k(x)[l] = k(y)[l]

Same(x, y) == x.domain = y.domain /\ x.key = y.key

(* sort_by, then dedup_by: of neighbors in the sorted list with one key the *)
(* first is kept.                                                          *)
MergedOf(responses) ==
  LET all == FlattenSeq([i \in DOMAIN responses |-> responses[i].items])
      sorted == SetToSortSeq(Range(all), Before)
  IN FoldLeft(LAMBDA list, x : IF list # <<>> /\ Same(Last(list), x) THEN list ELSE Append(list, x),
              <<>>, sorted)

(* The state of a domain: of its first response, or of its status.         *)
StateOf(domain) ==
  LET of == SelectSeq(Responses, LAMBDA r : DomainOf(r.stage) = domain)
  IN IF of = <<>> THEN call.status[domain] ELSE of[1].version

RevisionKey == [repository |-> StateOf("repository"), memory |-> StateOf("memory")]

(* stronger_truncation.                                                    *)
Gravity(reason) ==
  CHOOSE i \in 1 .. 5 : <<"bytes", "results", "depth", "capability", None>>[i] = reason
Stronger(reasons) == CHOOSE r \in reasons \cup {None} :
                       \A o \in reasons : Gravity(r) <= Gravity(o)

(* What truncated a call before its page is cut: the links, the cap on      *)
(* candidates, and, for a context, the strongest of its sub-queries.       *)
BeforePage ==
  LET capped == /\ Desired(Offset, call.q) = MaxCandidates
                /\ \E r \in Range(Responses) : r.more
      linksCut == \E r \in Range(call.got) : r.stage = "links"
  IN IF linksCut \/ capped THEN "results"
     ELSE IF call.q.op = "search" THEN None
     ELSE Stronger({r.reason : r \in Range(Responses)})

(* retain_bounded: as many as are asked for and fit.                       *)
RetainBounded(list, room) == Prefix(list, Least(call.q.results, room))

(* What may be said of the returned items: the crossed links and the       *)
(* relationships with an end among them.                                   *)
Supplements(items) ==
  LET ids == {items[i].key : i \in {j \in DOMAIN items : items[j].domain = "memory"}}
      room == call.q.bytes - Weight(items)
      edges == UNION {Memory[r.version].edges : r \in {x \in Range(Responses) :
                                                        DomainOf(x.stage) = "memory"}}
      rels == Ascending({e.id : e \in {x \in edges :
                /\ {x.source, x.target} \cap ids # {}
                /\ \E r \in Range(Responses) : x.id \in r.rels}})
      links == EdgesById({l \in call.used : l.source \in ids})
      keptRels == RetainBounded(rels, room)
      keptLinks == RetainBounded(links, room - Len(keptRels))
  IN [rels |-> keptRels, links |-> keptLinks,
      cut |-> Len(keptRels) < Len(rels) \/ Len(keptLinks) < Len(links)]

(* The encoded answer, its envelope included, against the budget.          *)
Encoded(items, links, rels) == Envelope + Weight(items) + Len(links) + Len(rels)
Fits(page) == Encoded(page.items, page.links, page.rels) <= call.q.bytes

(* fit_context_collection: the longest prefix of a list of supplements      *)
(* that the budget leaves room for, the rest of the answer being kept.     *)
FitCollection(page, field) ==
  LET bare == [page EXCEPT ![field] = <<>>]
      room == call.q.bytes - Encoded(bare.items, bare.links, bare.rels)
  IN IF Fits(page) THEN page
     ELSE [bare EXCEPT ![field] = Prefix(page[field], Max({0, room})), !.reason = "bytes"]

(* fit_federated_context_items and the end of fit_federated_search_response: *)
(* the longest prefix of the items, at least one.                          *)
FitItems(page) ==
  LET fits == {k \in 1 .. Len(page.items) : Envelope + Weight(Prefix(page.items, k)) <= call.q.bytes}
  IN IF Fits(page) THEN page
     ELSE IF fits = {} THEN [page EXCEPT !.reason = "error"]
     ELSE [page EXCEPT !.items = Prefix(@, Max(fits)), !.reason = "bytes"]

(* fit_federated_context_response: the answer gives up links, then         *)
(* relationships, then items.                                              *)
FitContext(page) == FitItems(FitCollection(FitCollection(page, "links"), "rels"))

(* fit_federated_search_response.                                          *)
FitSearch(page) == FitItems(page)

(* federated_page.                                                         *)
NextCursor(reason, k, total) ==
  IF /\ Offset + k < total /\ k > 0 /\ reason \in {"results", "bytes"}
  THEN [fingerprint |-> Fingerprint(call.q), versions |-> RevisionKey, offset |-> Offset + k]
  ELSE None

(* The page of a search: its weight matters only once it is encoded.       *)
SearchPage(rest) ==
  LET k == Least(Len(rest), call.q.results)
  IN FitSearch([items |-> Prefix(rest, k), links |-> <<>>, rels |-> <<>>,
                reason |-> IF k = Len(rest) THEN BeforePage ELSE "results"])

ContextPage(rest) ==
  LET k == Fitting(rest, call.q.results, call.q.bytes)
      items == Prefix(rest, k)
      s == Supplements(items)
  IN FitContext([items |-> items, links |-> s.links, rels |-> s.rels,
                 reason |-> IF k = 0 /\ rest # <<>> THEN "error" ELSE IF s.cut THEN "bytes"
                            ELSE IF k = Len(rest) THEN BeforePage ELSE StopReason(k, rest, call.q)])

Answer ==
  /\ Accepted /\ At("answer")
  /\ IF call.cursor # None /\ call.cursor.versions # RevisionKey THEN Reply(Failure("stale_cursor"))
     ELSE \E merged \in {MergedOf(Responses)} :
          \E rest \in {After(merged, Offset)} :
          IF Offset > Len(merged) THEN Reply(Failure("stale_cursor"))
          ELSE \E fit \in {IF call.q.op = "search" THEN SearchPage(rest) ELSE ContextPage(rest)} :
               IF fit.reason = "error" THEN Reply(Failure("bytes"))
               ELSE Reply([error |-> None, items |-> fit.items, links |-> Range(fit.links),
                             rels |-> Range(fit.rels), reason |-> fit.reason,
                             cursor |-> NextCursor(fit.reason, Len(fit.items), Len(merged)),
                             versions |-> RevisionKey])

(* max_duration_ms runs out: whatever sub-query notices first, the call as  *)
(* a whole has no time left either and ends in an error.                   *)
Expire == Accepted /\ Reply(Failure("duration"))

-----------------------------------------------------------------------------
(* The rest of the project.                                                *)

Change == changes < MaxChanges /\ changes' = changes + 1 /\ UNCHANGED <<call, answers>>

Publish(domain, version) ==
  /\ version # published[domain] /\ Change
  /\ published' = [published EXCEPT ![domain] = version]
  /\ sources' = IF domain = "memory" THEN version ELSE sources

(* A memory source is edited or archived: it holds no indexed revision.    *)
EditSource == sources # None /\ Change /\ sources' = None /\ UNCHANGED published

Init ==
  /\ published \in [repository : DOMAIN Graph \cup {None}, memory : DOMAIN Memory \cup {None}]
  /\ sources = published.memory
  /\ call = Idle /\ answers = <<>> /\ changes = 0

Next ==
  \/ \E q \in Questions : AskCli(q) \/ AskTool(q) \/ AskNano(q) \/ Continue(q)
  \/ Refuse \/ Status \/ ExactLinks \/ Answer \/ Expire
  \/ \E d \in {"repository", "memory"} : Pin(d)
  \/ \E stage \in {"repository", "memory", "repository linked", "memory linked"} : SubSearch(stage) \/ SubContext(stage)
  \/ \E s \in DOMAIN Graph : Publish("repository", s)
  \/ \E r \in DOMAIN Memory : Publish("memory", r)
  \/ EditSource

Spec == Init /\ [][Next]_vars
-----------------------------------------------------------------------------
(* Properties.                                                             *)

Returned == FlattenSeq([i \in DOMAIN answers |-> answers[i].items])

(* The rows at most n edges away.                                          *)
Ball(d, seeds, n, direction) ==
  LET reached[i \in 0 .. n] ==
        IF i = 0 THEN seeds \cap DOMAIN d.score
        ELSE reached[i - 1] \cup
             {m \in DOMAIN d.score : \E e \in d.edges, u \in reached[i - 1] :
                \/ direction \in {"outgoing", "both"} /\ e.source = u /\ e.target = m
                \/ direction \in {"incoming", "both"} /\ e.target = u /\ e.source = m}
  IN reached[n]

(* What a question is about, domain by domain, in one snapshot and one      *)
(* revision.                                                               *)
Matching(q, v) ==
  UNION {{[domain |-> d, key |-> n] : n \in {m \in DOMAIN Rows(d, v[d]).score :
                                                    Rows(d, v[d]).score[m] > 0}} : d \in Domains(q)}

Around(q, v) ==
  LET resolved == IF q.target # "all" \/ v.repository = None THEN {}
                  ELSE IF Links[v.memory][v.repository] = None THEN {}
                  ELSE {l \in Links[v.memory][v.repository] : l.resolved}
      back == IF q.direction = "outgoing" THEN {} ELSE {l.source : l \in {x \in resolved : x.target \in q.rows}}
      entities == IF q.target = "memory"
                  THEN q.entities \cup {m.source : m \in {x \in Memory[v.memory].mentions : x.target \in q.rows}}
                  ELSE q.entities
      on == IF q.direction = "incoming" THEN {}
            ELSE {l.target : l \in {x \in resolved : x.source \in back \cup entities}}
      near(d, seeds, linked) ==
        {[domain |-> d, key |-> n] :
           n \in Ball(Rows(d, v[d]), seeds, q.depth, q.direction)
                 \cup Ball(Rows(d, v[d]), linked, q.depth - 1, q.direction)}
  IN (IF v.repository # None THEN near("repository", q.rows, on) ELSE {})
     \cup (IF v.memory # None THEN near("memory", entities, back) ELSE {})

Reference(q, v) == IF q.op = "search" THEN Matching(q, v) ELSE Around(q, v)

(* The sub-queries list their rows in the order of the answer.             *)
Aligned ==
  /\ \A r \in Range(Responses) : \A i, j \in DOMAIN r.items : i < j => Before(r.items[i], r.items[j])
  /\ \A p, r \in Range(Responses) : \A x \in Range(p.items), y \in Range(r.items) :
       Same(x, y) => x.exact = y.exact

(* Nothing was published between the steps of this call.                   *)
OneVersion ==
  /\ \A r \in Range(Responses) : r.version = StateOf(DomainOf(r.stage))
  /\ \A d \in DOMAIN call.status : call.status[d] \in {None, StateOf(d)}



(* Combined results are deduplicated, and results that run out give the    *)
(* deterministic prefix: no item is returned twice along a chain of pages. *)
(* The code cuts every page from a longer list that is sorted anew, and    *)
(* compares neighbors only.                                                *)
EachItemOnce ==
  \A i, j \in DOMAIN Returned : Same(Returned[i], Returned[j]) => i = j
=============================================================================
