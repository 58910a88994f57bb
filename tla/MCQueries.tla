------------------------------ MODULE MCQueries ------------------------------
(***************************************************************************)
(* TLC instances of what answers questions: queries of the repository      *)
(* graph, of memory and of both, on this machine and through the service   *)
(* of distributed indexing, and the index of project memory.  They share   *)
(* no state; a behaviour is one of a single part, and the variables of the *)
(* others are None.                                                        *)
(***************************************************************************)
EXTENDS Integers, FiniteSets, TLC

CONSTANTS Parts, None,
          s1, s2, s3, r1, r2, f1, f2, oldText, newText, binary,
          b1, b2, b3, spec, draft, done, closed, task

VARIABLES part,
          sidecar, disk, query, pages, changes,
          published, content, call, answers, publications,
          sources, db, graph, proc, left, clock, history,
          store, request, given, trail, moves

graphVars == <<sidecar, disk, query, pages, changes>>
contextVars == <<published, content, call, answers, publications>>
memoryVars == <<sources, db, graph, proc, left, clock, history>>
remoteVars == <<store, request, given, trail, moves>>
vars == <<part, graphVars, contextVars, memoryVars, remoteVars>>

Data == INSTANCE MCQueryData
RemoteData == INSTANCE MCRemoteData

GraphQueries == INSTANCE GraphQuery
           WITH Graphs <- Data!MCGraphs, Requests <- Data!MCRequests, Limits <- Data!MCLimits,
                Contents <- Data!MCContents, MaxCandidates <- 5, MaxChanges <- 2

ContextQueries == INSTANCE ContextQuery
             WITH Graph <- Data!MCGraph, Memory <- Data!MCMemory, Links <- Data!MCLinks,
                  Questions <- Data!MCQuestions, Envelope <- 1, MaxCandidates <- 6, MaxWalk <- 4,
                  MaxChanges <- 3, sources <- content, changes <- publications

MemoryIndex == INSTANCE ProjectMemory
            WITH Builds <- {b1, b2, b3}, Specs <- {spec}, Texts <- {draft, done, closed},
                 Tasks <- {task}, Snapshots <- {s1, s2, s3}, StructureOf <- Data!MCStructureOf,
                 OutcomeOf <- Data!MCOutcomeOf, References <- Data!MCReferences,
                 MentionedIn <- Data!MCMentionedIn, OriginOf <- Data!MCOriginOf,
                 MilestoneOf <- Data!MCMilestoneOf, FilesIn <- Data!MCFilesIn,
                 NodesFor <- Data!MCNodesFor, Programs <- Data!MCPrograms

RemoteQueries == INSTANCE RemoteQuery
            WITH Snapshots <- {s1, s2}, Revisions <- {r1, r2}, GraphOf <- RemoteData!MCGraphOf,
                 MemoryOf <- RemoteData!MCMemoryOf, LinksOf <- RemoteData!MCLinksOf,
                 TextOf <- RemoteData!MCTextOf, Credentials <- RemoteData!MCCredentials,
                 Repository <- <<"tenant", "project", "repository">>,
                 Published <- {<<s1, r1>>, <<s2, r2>>}, Questions <- RemoteData!MCRemoteQuestions,
                 Budgets <- RemoteData!MCBudgets, Limits <- RemoteData!MCRemoteLimits,
                 Envelope <- 1, MaxChanges <- 1, MaxPages <- 3

Init ==
  /\ part \in Parts
  /\ IF part = "graph" THEN GraphQueries!Init
     ELSE sidecar = None /\ disk = None /\ query = None /\ pages = None /\ changes = None
  /\ IF part = "context" THEN ContextQueries!Init
     ELSE /\ published = None /\ content = None /\ call = None /\ answers = None
          /\ publications = None
  /\ IF part = "memory" THEN MemoryIndex!Init
     ELSE /\ sources = None /\ db = None /\ graph = None /\ proc = None /\ left = None
          /\ clock = None /\ history = None
  /\ IF part = "remote" THEN RemoteQueries!Init
     ELSE store = None /\ request = None /\ given = None /\ trail = None /\ moves = None

Next ==
  \/ part = "graph" /\ GraphQueries!Next /\ UNCHANGED <<part, contextVars, memoryVars, remoteVars>>
  \/ part = "context" /\ ContextQueries!Next /\ UNCHANGED <<part, graphVars, memoryVars, remoteVars>>
  \/ part = "memory" /\ MemoryIndex!Next /\ UNCHANGED <<part, graphVars, contextVars, remoteVars>>
  \/ part = "remote" /\ RemoteQueries!Next /\ UNCHANGED <<part, graphVars, contextVars, memoryVars>>

Spec == Init /\ [][Next]_vars

Indexers == Permutations({b1, b2})

-----------------------------------------------------------------------------

(* What an answer about the repository says is so: walks are exact, and    *)
(* source text is that of the snapshot (expand_context, neighborhood and   *)
(* load_snippets here; the walks and snippets of distributed/api_sqlite).  *)
GraphAnswersTrue ==
  /\ part = "graph" => GraphQueries!WalksExact /\ GraphQueries!SnippetsVerified
  /\ part = "remote" => RemoteQueries!WalksExact /\ RemoteQueries!SnippetsTrue


(* Published memory is what was extracted from its sources, never goes     *)
(* back in time, and its links say what the repository graph has           *)
(* (complete_build and publish of project_memory).                         *)
MemoryTrue ==
  part = "memory" =>
    MemoryIndex!RevisionsTrue /\ MemoryIndex!PublicationsFollowSources /\ MemoryIndex!LinksTrue
=============================================================================
