---------------------------- MODULE MCQueryData ----------------------------
(***************************************************************************)
(* What the instances of MCQueries ask, and of what.                       *)
(***************************************************************************)
EXTENDS Integers, TLC

CONSTANTS s1, s2, s3, r1, r2, f1, f2, oldText, newText, binary,
          b1, b2, b3, spec, draft, done, closed, task, None

(* The repository graph: two snapshots and the requests of a client.       *)

MCContents ==
  oldText :> [size |-> 2, utf8 |-> TRUE] @@ newText :> [size |-> 1, utf8 |-> TRUE]
  @@ binary :> [size |-> 1, utf8 |-> FALSE]

GraphEdge(id, source, target, kind, resolution) ==
  [id |-> id, source |-> source, target |-> target, kind |-> kind, resolution |-> resolution]

(* A cycle, a node reached along two edges, a node without evidence, an    *)
(* unresolved node and an edge that leaves the repository.                 *)
First ==
  [nodes |-> 1 .. 5,
   kind |-> <<"module", "module", "document", "manifest", "module">>,
   path |-> <<f1, f1, f2, None, f2>>,
   resolution |-> <<"resolved", "resolved", "resolved", "resolved", "unresolved">>,
   weight |-> <<1, 1, 2, 1, 1>>,
   edges |-> {GraphEdge(1, 1, 2, "contains", "resolved"), GraphEdge(2, 2, 3, "imports", "resolved"),
              GraphEdge(3, 3, 1, "mentions", "resolved"), GraphEdge(4, 1, 4, "depends_on", "resolved"),
              GraphEdge(5, 4, 5, "imports", "unresolved"), GraphEdge(6, 5, None, "imports", "external"),
              GraphEdge(7, 1, 3, "mentions", "resolved")},
   files |-> (f1 :> oldText @@ f2 :> oldText)]

Second ==
  [nodes |-> {1, 3},
   kind |-> First.kind, path |-> First.path, resolution |-> First.resolution,
   weight |-> First.weight,
   edges |-> {GraphEdge(3, 3, 1, "mentions", "resolved")},
   files |-> (f1 :> newText @@ f2 :> binary)]

MCGraphs == s1 :> First @@ s2 :> Second

MCLimits == [results |-> 6, bytes |-> 7, depth |-> 2, snippet |-> 3]

GraphAsked(op, snapshot, params, results, bytes, depth, snippets, frozen) ==
  [op |-> op, snapshot |-> snapshot, params |-> params, snippets |-> snippets, frozen |-> frozen,
   budget |-> [results |-> results, bytes |-> bytes, depth |-> depth]]

Found(matches) == [matches |-> matches]
From(seeds, direction, unresolved) ==
  [seeds |-> seeds, direction |-> direction, kinds |-> {}, unresolved |-> unresolved,
   external |-> unresolved]

MCRequests ==
  {GraphAsked("status", "published", Found(<<>>), 1, 1, 1, 0, FALSE),
   GraphAsked("search", "published", Found(<<3, 1, 2>>), 1, 7, 1, 0, FALSE),
   GraphAsked("search", "published", Found(<<3, 1, 2>>), 9, 2, 1, 0, FALSE),
   GraphAsked("search", s1, Found(<<1, 2, 3>>), 2, 1, 1, 0, FALSE),
   GraphAsked("show", s1, Found(<<3, 5>>), 1, 7, 1, 0, FALSE),
   GraphAsked("show", s2, Found(<<5>>), 1, 7, 1, 0, FALSE),
   GraphAsked("neighborhood", s1, From(<<{1}>>, "both", TRUE), 6, 9, 1, 0, FALSE),
   GraphAsked("neighborhood", "published", From(<<{3}>>, "outgoing", TRUE), 4, 6, 9, 0, FALSE),
   GraphAsked("context", s1, From(<<{1}>>, "outgoing", TRUE), 1, 9, 2, 0, FALSE),
   GraphAsked("context", "published", From(<<{1, 3}>>, "both", FALSE), 9, 2, 1, 0, FALSE),
   GraphAsked("context", "published", From(<<{3}, {5}>>, "incoming", FALSE), 9, 9, 2, 3, FALSE),
   GraphAsked("context", s1, From(<<{3}>>, "incoming", FALSE), 9, 9, 2, 9, FALSE),
   GraphAsked("context", s2, From(<<{3}>>, "both", FALSE), 9, 9, 1, 2, TRUE)}

-----------------------------------------------------------------------------
(* Combined queries: two snapshots, two revisions and the links between    *)
(* them.                                                                   *)

Edge(id, source, target) == [id |-> id, source |-> source, target |-> target]
Link(id, source, target, resolved) ==
  [id |-> id, source |-> source, target |-> target, resolved |-> resolved]

MCGraph ==
  s1 :> [score |-> <<2, 1, 0, 1>>, rank |-> <<1, 1, 2, 2>>, weight |-> <<1, 1, 1, 2>>,
         edges |-> {Edge(1, 1, 2), Edge(2, 2, 3), Edge(3, 3, 1), Edge(4, 1, 4)}]
  @@ s2 :> [score |-> <<1, 3>>, rank |-> <<1, 1>>, weight |-> <<1, 1>>, edges |-> {Edge(1, 2, 1)}]

MCMemory ==
  r1 :> [score |-> <<2, 0, 1>>, rank |-> <<1, 1, 2>>, weight |-> <<1, 1, 1>>,
         edges |-> {Edge(1, 1, 2), Edge(2, 2, 3), Edge(3, 1, 3)},
         mentions |-> {[source |-> 1, target |-> 1], [source |-> 2, target |-> 3]}]
  @@ r2 :> [score |-> <<1, 1, 1>>, rank |-> <<3, 2, 1>>, weight |-> <<1, 2, 1>>, edges |-> {Edge(1, 2, 1)},
            mentions |-> {[source |-> 2, target |-> 1]}]

MCLinks ==
  r1 :> (s1 :> {Link(1, 1, 1, TRUE), Link(2, 2, 3, TRUE), Link(3, 3, 2, FALSE)}
         @@ s2 :> {Link(1, 1, 1, TRUE)})
  @@ r2 :> (s1 :> {Link(4, 2, 4, TRUE)} @@ s2 :> None)

Asked(op, target, pinned, rows, entities, direction, depth, results, bytes) ==
  [op |-> op, target |-> target, pinned |-> pinned, rows |-> rows, nodes |-> FALSE,
   entities |-> entities, direction |-> direction, depth |-> depth, results |-> results,
   bytes |-> bytes, snippets |-> FALSE]

MCQuestions ==
  {Asked("search", "all", FALSE, {}, {}, "both", 1, 2, 9),
   Asked("search", "memory", TRUE, {}, {}, "both", 1, 1, 9),
   Asked("search", "repository", FALSE, {}, {}, "both", 1, 2, 3),
   Asked("context", "all", TRUE, {1}, {}, "both", 1, 2, 9),
   Asked("context", "all", TRUE, {}, {1}, "outgoing", 2, 3, 6),
   Asked("context", "all", FALSE, {3}, {2}, "incoming", 1, 9, 9),
   [Asked("context", "memory", FALSE, {1}, {}, "both", 1, 2, 5) EXCEPT !.snippets = TRUE],
   [Asked("context", "memory", TRUE, {1}, {}, "both", 1, 2, 5) EXCEPT !.nodes = TRUE],
   Asked("context", "repository", TRUE, {1}, {}, "outgoing", 2, 1, 4)}

-----------------------------------------------------------------------------
(* Project memory: two or three indexers of one specification, whose       *)
(* outcome mentions a file and a function; the file goes and comes back,   *)
(* the function gets a namesake.                                           *)

Lib == "src/lib.rs"
Run == "rust:function:run"
MCStructureOf == (draft :> "open") @@ (done :> "ticked") @@ (closed :> "ticked")
MCOutcomeOf == (draft :> None) @@ (done :> "short") @@ (closed :> "long")
MCReferences == {[kind |-> "path", name |-> Lib], [kind |-> "symbol", name |-> Run]}
MCMentionedIn == (None :> {}) @@ ("short" :> {}) @@ ("long" :> MCReferences)
MCOriginOf == task :> [baseline |-> s1, view |-> s2]
MCMilestoneOf == task :> spec
MCFilesIn ==
  (s1 :> ((spec :> 1) @@ (Lib :> 1))) @@ (s2 :> (spec :> 1)) @@ (s3 :> (spec :> 2))
MCNodesFor == (s1 :> (Run :> 1)) @@ (s2 :> (Run :> 2)) @@ (s3 :> (Run :> 0))
Bounds(edits, archives, tasks, moves, losses, collections, crashes, full) ==
  [edits |-> edits, archives |-> archives, tasks |-> tasks, moves |-> moves,
   losses |-> losses, collections |-> collections, crashes |-> crashes,
   full |-> full]
Project(text, archives) ==
  [specs |-> spec :> text, archives |-> {[spec |-> spec, outcome |-> o] : o \in archives},
   tasks |-> {}]
MCPrograms ==
  {[sources |-> Project(closed, {}), builds |-> {b1, b2}, compatible |-> FALSE,
    bounds |-> Bounds(2, 1, 0, 0, 0, 0, 1, TRUE)],
   [sources |-> Project(closed, {"long"}), builds |-> {b1, b2}, compatible |-> TRUE,
    bounds |-> Bounds(0, 0, 1, 2, 1, 1, 0, FALSE)],
   [sources |-> Project(closed, {"short"}), builds |-> {b1, b2, b3}, compatible |-> TRUE,
    bounds |-> Bounds(2, 0, 0, 0, 0, 0, 0, FALSE)]}
=============================================================================
