------------------------------ MODULE MCSessions ------------------------------
(***************************************************************************)
(* TLC instances of what runs for as long as a session: the approval lock, *)
(* the engine of Nano with its journal, its definitions, MCP peers and     *)
(* direct tools, and the agent processes of HQ.  They share no state; a    *)
(* behaviour is one of a single part, and the variables of the others are  *)
(* None (those of the lock as they are at first).                          *)
(***************************************************************************)
EXTENDS ApprovalLock, Integers, Sequences, TLC

CONSTANTS Parts, None, c1, c2, c3, p1, p2, h1, h2, Empty, Mixed

VARIABLES part,
          eng, disk, world, phase, env,
          program, project, engine, op, link, snap, ui, keys, stop, ghost,
          config, session, entries, active, client, proxy, catalog, seen,
          at, call, count, tools, held, lock, cmd, joining, check, stopping,
          plan, launch, runs, hq, io, inode, names, failures, crashes, stops

sessionVars == <<eng, disk, world, phase, env>>
definitionVars == <<program, project, engine, op, link, snap, ui, keys, stop, ghost>>
peerVars == <<config, session, entries, active, client, proxy, catalog, seen>>
directVars == <<at, call, count, tools, held, lock, cmd, joining, check, stopping>>
processVars == <<plan, launch, runs, hq, io, inode, names, failures, crashes, stops>>
all == <<part, vars, sessionVars, definitionVars, peerVars, directVars, processVars>>

MCProcessOf == (c1 :> p1) @@ (c2 :> p1) @@ (c3 :> p2)

-----------------------------------------------------------------------------
(* Long conversations in one run, and effects interrupted and recovered    *)
(* over several runs.                                                      *)
Talks ==
  [runs |-> 1, faults |-> 0, inputs |-> 1, rejects |-> 0, over |-> {0}, errors |-> TRUE,
   menu |-> {<<"read", "read">>, <<"bogus">>},
   finish |-> {"final", "empty", "calls", "length", "mismatch"}]

Works ==
  [runs |-> 2, faults |-> 2, inputs |-> 0, rejects |-> 1, over |-> {1}, errors |-> FALSE,
   menu |-> {<<"patch">>, <<"exec">>, <<"submit">>}, finish |-> {"calls"}]

Session ==
  INSTANCE NanoSession
    WITH MaxTurns <- 4, MaxTokens <- 40, MaxCalls <- 4, MaxRetries <- 1, MaxIdle <- 2,
         Window <- 11, Margin <- 1, MaxOutput <- 2, SummaryCap <- 1, Automatic <- TRUE,
         Scenarios <- {Talks, Works}

-----------------------------------------------------------------------------
Proposal(kind, spec, origin) == [op |-> kind, spec |-> spec, origin |-> origin, valid |-> TRUE]

Task ==
  [mode |-> "task", goal |-> 1, selected |-> "a", text |-> <<"y">>,
   calls |-> <<Proposal("enqueue", None, TRUE)>>, keys |-> {"enter", "esc", "ctrl-c"},
   typing |-> 2, fragile |-> FALSE, others |-> {}, timed |-> FALSE]

DefinitionPrograms ==
  {[Task EXCEPT !.others = {"milestone", "lock"}],
   [Task EXCEPT !.keys = {"enter", "y", "n", "ctrl-c"}, !.typing = 3],
   [Task EXCEPT !.goal = 2, !.timed = TRUE, !.keys = {"enter"},
                !.calls = <<Proposal("enqueue", None, FALSE), Proposal("enqueue", None, TRUE)>>],
   [Task EXCEPT !.mode = "archive", !.others = {"run", "selection"}, !.keys = {"enter"},
                !.calls = <<Proposal("archive", "b", FALSE), Proposal("archive", "a", FALSE)>>],
   [Task EXCEPT !.mode = "spec", !.fragile = TRUE,
                !.calls = <<[Proposal("create", None, FALSE) EXCEPT !.valid = FALSE],
                            Proposal("create", None, FALSE)>>],
   [Task EXCEPT !.mode = "plan", !.goal = 0, !.text = << >>, !.typing = 3,
                !.keys = {"y", "enter", "esc"}, !.timed = TRUE,
                !.calls = <<Proposal("create", None, FALSE)>>]}

Definitions == INSTANCE NanoDefinitions WITH Programs <- DefinitionPrograms, TypeAhead <- 2

-----------------------------------------------------------------------------
Tool(name, schema) == [name |-> name, schema |-> schema]
OnePage(offered) == [tools |-> offered, next |-> None]

T == <<"t">>
U == <<"u">>
First == <<"a", "t">>

Server ==
  [id |-> <<"a">>, allow |-> {T}, managed |-> FALSE, ends |-> FALSE,
   catalogs |-> <<<<OnePage(<<Tool(T, "x"), Tool(U, "x")>>)>>>>]

Use(servers, wanted) == [servers |-> servers, calls |-> wanted, taskless |-> FALSE, stops |-> FALSE]

Configs ==
  {[Use(<<Server>>, <<First, First>>) EXCEPT !.stops = TRUE],
   Use(<<[Server EXCEPT !.ends = TRUE]>>, <<First, First>>),
   \* a second page, then a changed schema, and an unknown tool
   Use(<<[Server EXCEPT !.allow = {T, U},
                        !.catalogs = <<<<[tools |-> <<Tool(T, "x")>>, next |-> 2],
                                         OnePage(<<Tool(U, "x")>>)>>,
                                       <<OnePage(<<Tool(T, "y")>>)>>>>]>>,
       <<First, <<"a", "v">>, <<"a", "u">>>>),
   \* the same name twice, a loop of pages, an unsafe schema
   Use(<<[Server EXCEPT !.catalogs = <<<<OnePage(<<Tool(T, "x")>>)>>,
                                       <<OnePage(<<Tool(T, "x"), Tool(T, "x")>>)>>>>]>>, <<First>>),
   Use(<<[Server EXCEPT !.catalogs = <<<<[tools |-> << >>, next |-> 1]>>,
                                       <<[tools |-> <<Tool(T, "unsafe")>>, next |-> None]>>>>]>>,
       <<First>>),
   \* two servers whose provider names collide, and one that a taskless session drops
   Use(<<Server, [Server EXCEPT !.id = << >>, !.allow = {First},
                                !.catalogs = <<<<OnePage(<<Tool(First, "x")>>)>>>>]>>, <<First>>),
   [Use(<<Server, [Server EXCEPT !.id = <<"b">>, !.managed = TRUE]>>, <<First, <<"b", "t">>>>)
      EXCEPT !.taskless = TRUE],
   Use(<<Server, [Server EXCEPT !.id = <<"b">>]>>, <<First, <<"b", "t">>>>)}

Peers ==
  INSTANCE NanoPeers
    WITH MaxServers <- 2, MaxTools <- 2, MaxPages <- 2, CatalogFrame <- 3, CallFrame <- 2,
         Reserved <- {}, ghost <- seen

-----------------------------------------------------------------------------
Direct ==
  INSTANCE NanoDirect
    WITH Commands <- 1 .. 3, CheckCommands <- 2, Concurrent <- 2, Calls <- 5,
         calls <- count, stop <- stopping

-----------------------------------------------------------------------------
Executor(h, n, native) ==
  [hq |-> h, name |-> n, role |-> "executor", native |-> native, task |-> TRUE, refuses |-> FALSE]
Interactive(h, n) == [Executor(h, n, TRUE) EXCEPT !.task = FALSE]

Launching(git, hqs, faulty, crashing, stopped, of) ==
  [git |-> git, hqs |-> hqs, faults |-> faulty, crashes |-> crashing, stops |-> stopped, of |-> of]

(* Two HQ processes, no Git: a task executor and a direct session compete, *)
(* and either HQ may die at any time.  One HQ: an agent is stopped and      *)
(* started again under its name; a program is not there.                   *)
Launches ==
  {Launching(FALSE, {h1, h2}, 1, 0, 0, 1 :> Executor(h1, "a", FALSE) @@ 2 :> Interactive(h2, "b")),
   Launching(FALSE, {h1, h2}, 0, 1, 0, 1 :> Executor(h1, "a", TRUE) @@ 2 :> Executor(h2, "b", FALSE)),
   Launching(TRUE, {h1}, 0, 0, 1, 1 :> Interactive(h1, "a") @@ 2 :> Interactive(h1, "a")),
   Launching(TRUE, {h1}, 1, 0, 0,
             1 :> [Interactive(h1, "a") EXCEPT !.refuses = TRUE] @@ 2 :> Executor(h1, "b", FALSE)
             @@ 3 :> [Executor(h1, "a", FALSE) EXCEPT !.role = "supervisor"])}

Agents ==
  INSTANCE AgentProcesses
    WITH Launches <- 1 .. 3, Hqs <- {h1, h2}, Names <- {"a", "b"}, Inodes <- 1 .. 5,
         Programs <- Launches, program <- plan, faults <- failures

-----------------------------------------------------------------------------
NoSession == eng = None /\ disk = None /\ world = None /\ phase = None /\ env = None
NoDefinition ==
  /\ program = None /\ project = None /\ engine = None /\ op = None /\ link = None
  /\ snap = None /\ ui = None /\ keys = None /\ stop = None /\ ghost = None
NoPeer ==
  /\ config = None /\ session = None /\ entries = None /\ active = None /\ client = None
  /\ proxy = None /\ catalog = None /\ seen = None
NoDirect ==
  /\ at = None /\ call = None /\ count = None /\ tools = None /\ held = None /\ lock = None
  /\ cmd = None /\ joining = None /\ check = None /\ stopping = None
NoProcess ==
  /\ plan = None /\ launch = None /\ runs = None /\ hq = None /\ io = None /\ inode = None
  /\ names = None /\ failures = None /\ crashes = None /\ stops = None

MCInit ==
  /\ part \in Parts /\ Init
  /\ IF part = "session" THEN Session!Init ELSE NoSession
  /\ IF part = "definition" THEN Definitions!Init ELSE NoDefinition
  /\ IF part = "peers" THEN Peers!Init ELSE NoPeer
  /\ IF part = "direct" THEN Direct!Init ELSE NoDirect
  /\ IF part = "agents" THEN Agents!Init ELSE NoProcess

OfLock == part = "lock" /\ UNCHANGED <<part, sessionVars, definitionVars, peerVars, directVars, processVars>>
OfSession == part = "session" /\ UNCHANGED <<part, vars, definitionVars, peerVars, directVars, processVars>>
OfDefinition == part = "definition" /\ UNCHANGED <<part, vars, sessionVars, peerVars, directVars, processVars>>
OfPeers == part = "peers" /\ UNCHANGED <<part, vars, sessionVars, definitionVars, directVars, processVars>>
OfDirect == part = "direct" /\ UNCHANGED <<part, vars, sessionVars, definitionVars, peerVars, processVars>>
OfAgents == part = "agents" /\ UNCHANGED <<part, vars, sessionVars, definitionVars, peerVars, directVars>>

MCNext ==
  \/ OfLock /\ Next
  \/ OfSession /\ Session!Next
  \/ OfDefinition /\ Definitions!Next
  \/ OfPeers /\ Peers!Next
  \/ OfDirect /\ Direct!Next
  \/ OfAgents /\ Agents!Next

(* The fairness of each part is the one its module states.                 *)
MCSpec == MCInit /\ [][MCNext]_all

EngineSpec ==
  MCSpec /\ WF_all(OfSession /\ Session!Engine) /\ WF_all(OfSession /\ Session!Deadline)

ProcessSpec ==
  /\ MCSpec
  /\ \A c \in Calls : WF_all(OfLock /\ Advance(c))
  /\ WF_all(OfDefinition /\ Definitions!Session) /\ WF_all(OfDefinition /\ Definitions!Refresh)
  /\ WF_all(OfDefinition /\ Definitions!ReadKey) /\ WF_all(OfDefinition /\ Definitions!Tick)
  /\ WF_all(OfDefinition /\ Definitions!Unlock)
  /\ \A l \in 1 .. 3 : WF_all(OfAgents /\ l \in DOMAIN plan.of /\ Agents!LaunchStep(l))
  /\ \A w \in Agents!Writers : WF_all(OfAgents /\ Agents!WriterStep(w))
  /\ \A h \in {h1, h2} : WF_all(OfAgents /\ (Agents!ClearRegistry(h) \/ Agents!Stopped(h)))

-----------------------------------------------------------------------------
(* While an approval integrates, its marker and its locked owner file are  *)
(* there and its process is on record, and an entry of the registry never  *)
(* outlives its operation (lock.rs).                                       *)
LockHolds == LockIsVisible /\ OwnerLockNeverBlocks /\ RegistryAccurate

(* Between groups the engine of Nano is what its journal replays to, the    *)
(* journal refuses nothing that the engine or a recovery appends, and so   *)
(* the turns of a work phase stay within their limit over crashes and      *)
(* restarts, and a summary leaves room for the request it was made for     *)
(* (journal.rs, resume.rs, budget and compaction of engine.rs).            *)
JournalIsTheSession ==
  part = "session" =>
    /\ Session!JournalAccepts /\ Session!EngineMatchesJournal
    /\ Session!PhaseBudget /\ Session!CompactionPaysOff

(* A definition takes effect only when it was confirmed, and once, and what *)
(* the journal says of a proposal is what happened to it, also when the    *)
(* session is stopped in the middle (frontend.rs, supervisor.rs).          *)
DefinitionsTrue ==
  part = "definition" => Definitions!ConfirmedEffects /\ Definitions!ResultsTrue

(* What is recorded of a call of an MCP tool is what happened to it, a peer *)
(* in doubt is not used again and no fitting answer is refused.            *)
PeerCallsTrue ==
  part = "peers" => Peers!PeerOutcomesTrue /\ Peers!DoubtClosesPeer /\ Peers!RepliesFit

(* Nothing that a direct session started writes in the project while an    *)
(* approval integrates there.                                              *)
WritersHoldLock == part = "direct" => Direct!WritersHoldLock

(* Every child of HQ has an owner and the project one executor at work.    *)
OneCanonicalWriter ==
  part = "agents" => Agents!NoStrayChild /\ Agents!OneCanonicalWriter

(* A recorded outcome of a Nano call is true of the workspace and of       *)
(* SQLite, and a new run starts only after one whose effects are settled   *)
(* and whose stop another process can get past (recover_previous).         *)
EffectsSettled ==
  [][part = "session" => Session!OutcomesTrue' /\ Session!RunStarts]_all

(* A session ends although the model, a tool and the user may stay silent. *)
SessionEnds == []<>(part = "session" => ~Session!Running)

(* Nobody waits for ever: what crashed approvals leave lets another one in *)
(* or all have given up, a stopped definition ends and gives the terminal  *)
(* back, and the row of a run whose child has gone is settled.             *)
WaitsEnd ==
  /\ SomeoneEnters
  /\ (part = "definition" /\ stop.cancelled)
       ~> (part = "definition" => engine.at = "ended" /\ ui.at = "gone")
  /\ \A l \in 1 .. 3 : []<>(part = "agents" => Agents!RunSettled(l))

=============================================================================
