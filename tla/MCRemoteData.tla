---------------------------- MODULE MCRemoteData ----------------------------
(***************************************************************************)
(* What the service of distributed queries is asked about: a snapshot with  *)
(* a cycle, an edge out of the repository and evidence in wide characters; *)
(* one with a binary file, an edge to nothing and a result larger than a   *)
(* page; a revision whose entities are linked to both; and one whose       *)
(* entity is too large and whose link is to another snapshot.              *)
(***************************************************************************)
EXTENDS Integers, TLC

CONSTANTS s1, s2, r1, r2, f1, f2, oldText, newText, binary, None

Seen(path, content, span) == [path |-> path, content |-> content, span |-> span]
RemoteNode(kind, key, evidence, tests, size) ==
  [kind |-> kind, key |-> key, evidence |-> evidence, tests |-> tests, size |-> size]
RemoteEdge(source, to, target, kind) ==
  [source |-> source, to |-> to, target |-> target, kind |-> kind, size |-> 1]
Related(source, to, at, snapshot, resolved) ==
  [source |-> source, to |-> to, at |-> at, snapshot |-> snapshot, resolved |-> resolved,
   kind |-> "mentions", size |-> 1]

MCTextOf ==
  oldText :> [bytes |-> 6, width |-> 2, utf8 |-> TRUE]
  @@ newText :> [bytes |-> 3, width |-> 1, utf8 |-> TRUE]
  @@ binary :> [bytes |-> 2, width |-> 1, utf8 |-> FALSE]

MCGraphOf ==
  s1 :> [nodes |-> <<RemoteNode("module", "a", Seen(<<f1>>, oldText, None), {"prefix", "contains"}, 1),
                     RemoteNode("module", "b", Seen(<<f1, f2>>, newText, <<1, 3>>), {"path"}, 2),
                     RemoteNode("document", None, None, {"contains"}, 1),
                     RemoteNode("document", "b", Seen(<<f1, f2>>, newText, <<1, 3>>), {}, 1)>>,
         edges |-> <<RemoteEdge(1, "node", 2, "imports"), RemoteEdge(2, "node", 3, "imports"),
                     RemoteEdge(3, "node", 1, "mentions"), RemoteEdge(3, "external", None, "imports"),
                     RemoteEdge(4, "node", 3, "imports")>>,
         files |-> {[path |-> <<f1>>, content |-> oldText], [path |-> <<f1, f2>>, content |-> newText]},
         diagnostics |-> <<2>>]
  @@ s2 :> [nodes |-> <<RemoteNode("module", "a", Seen(<<f1>>, binary, None), {"id"}, 1),
                        RemoteNode("module", "b", Seen(<<f1, f2>>, newText, None), {"path"}, 6)>>,
            edges |-> <<RemoteEdge(1, "unresolved", None, "imports"), RemoteEdge(2, "node", 1, "imports")>>,
            files |-> {[path |-> <<f1>>, content |-> binary], [path |-> <<f1, f2>>, content |-> newText]},
            diagnostics |-> <<>>]

MCMemoryOf ==
  r1 :> [entities |-> <<[kind |-> "milestone", evidence |-> Seen(<<"spec">>, newText, <<0, 3>>),
                         tests |-> {"title", "contains"}, size |-> 1],
                        [kind |-> "task", evidence |-> None, tests |-> {"contains"}, size |-> 1]>>,
         relationships |-> <<Related(1, "entity", 2, None, TRUE), Related(2, "path", <<f1>>, s1, FALSE)>>,
         sources |-> {[path |-> <<"spec">>, content |-> newText]}, diagnostics |-> <<1>>]
  @@ r2 :> [entities |-> <<[kind |-> "milestone", evidence |-> Seen(<<"spec">>, oldText, <<0, 4>>),
                            tests |-> {"prefix"}, size |-> 7]>>,
            relationships |-> <<>>, sources |-> {}, diagnostics |-> <<>>]

LinkRows(relationships) == [relationships |-> relationships, diagnostics |-> <<1>>]
MCLinksOf ==
  <<s1, r1>> :> LinkRows(3 :> Related(1, "node", 3, s1, TRUE) @@ 4 :> Related(2, "symbol", "b", s1, TRUE))
  @@ <<s2, r1>> :> LinkRows(3 :> Related(1, "path", <<f1>>, s2, TRUE))
  @@ <<s1, r2>> :> LinkRows(1 :> Related(1, "node", 2, s1, TRUE))
  @@ <<s2, r2>> :> LinkRows(1 :> Related(1, "node", 2, s1, TRUE))

Operation(name, seeds, direction) ==
  [name |-> name, seeds |-> seeds, direction |-> direction, kinds |-> {}, paths |-> {},
   memoryKinds |-> {}, edgeKinds |-> {}, relationshipKinds |-> {}, unresolved |-> FALSE,
   external |-> FALSE, snippets |-> FALSE]
Seed(of, value) == [of |-> of, value |-> value]
Of(graph, memory) == [graph |-> graph, memory |-> memory]
Question(target, op) == [target |-> target, op |-> op]

MCRemoteQuestions ==
  {Question(Of("view", "view"), Operation("status", {}, "both")),
   Question(Of("view", "view"), [Operation("search", {}, "both") EXCEPT !.paths = {<<f1>>}]),
   Question(Of("view", None), Operation("neighborhood", {Seed("node", 1), Seed("node", 9)}, "outgoing")),
   Question(Of("view", "view"),
            [Operation("context", {Seed("entity", 1)}, "outgoing") EXCEPT !.unresolved = TRUE]),
   Question(Of(s1, r1),
            [Operation("context", {Seed("symbol", "b"), Seed("path", <<f1>>)}, "incoming")
               EXCEPT !.external = TRUE, !.snippets = TRUE]),
   Question(Of(None, "view"),
            [Operation("context", {Seed("entity", 1)}, "both") EXCEPT !.snippets = TRUE]),
   Question(Of(None, r1), Operation("neighborhood", {Seed("node", 1)}, "both"))}

RemoteBudget(results, bytes, depth, snippetBytes) ==
  [results |-> results, bytes |-> bytes, depth |-> depth, diagnostics |-> 2, snippetBytes |-> snippetBytes]
MCBudgets == {RemoteBudget(2, 99, 9, 3), RemoteBudget(9, 6, 2, 9)}
MCRemoteLimits == RemoteBudget(6, 14, 2, 8)
MCCredentials ==
  {[class |-> "QueryAgent", scope |-> <<"tenant", "project">>],
   [class |-> "ProjectOperator", scope |-> <<"tenant", "project", "repository">>]}
=============================================================================
