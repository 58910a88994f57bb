------------------------------- MODULE NanoPeers -------------------------------
(***************************************************************************)
(* External MCP tools in a Nano session (src/src/nano/mcp.rs): discovery    *)
(* pins the tools that the configuration allows, a call lists the catalog  *)
(* again before it is made, and a peer whose answer is in doubt is closed.  *)
(*                                                                         *)
(* Between the client and a server runs a proxy of two threads: one sets   *)
(* the frame limit by the request that it forwards, the other applies it   *)
(* to the frames that come back.  The sizes of frames are small numbers.   *)
(* A server answers in order; it may be slow, end, send an oversized frame *)
(* or change its catalog at any time.  The MCP client library is external: *)
(* it matches an answer with its request, and closing it ends the proxy.   *)
(***************************************************************************)
EXTENDS Integers, Sequences, FiniteSets, FiniteSetsExt

CONSTANTS Configs,      \* servers with what they allow and what they list, calls
          MaxServers, MaxTools, MaxPages,
          CatalogFrame, CallFrame,      \* MAX_CATALOG_FRAME_BYTES, MAX_CALL_FRAME_BYTES
          Reserved,     \* provider names of native tools
          None

VARIABLES config,       \* the configuration file and the calls of the model
          session,      \* where the session is in its discovery or call
          entries,      \* provider name |-> server, tool and pinned schema
          active,       \* the server that execute is using
          client,       \* server |-> state of its client
          proxy,        \* server |-> the proxy and the frames on their way
          catalog,      \* server |-> which of its catalogs it lists now
          ghost         \* what ran and what was recorded, for the properties

vars == <<config, session, entries, active, client, proxy, catalog, ghost>>

Servers == DOMAIN config.servers

(* load_scoped: a taskless session leaves the peers of a managed binding   *)
(* out; ids are unique and something is allowed.                           *)
Scoped(c) ==
  [c EXCEPT !.servers = SelectSeq(@, LAMBDA s : ~(c.taskless /\ s.managed))]

LoadScoped(servers) ==
  /\ Len(servers) <= MaxServers
  /\ \A i, j \in DOMAIN servers : servers[i].id = servers[j].id => i = j
  /\ \A i \in DOMAIN servers : Cardinality(servers[i].allow) \in 1 .. MaxTools

(* provider_name: the names of the server and of the tool, joined.         *)
ProviderName(s, tool) == config.servers[s].id \o tool

(* safe_schema and the other limits of a schema.                           *)
SafeSchema(schema) == schema # "unsafe"

(* tools/list: the page that a server has for a cursor now, None for the    *)
(* first.                                                                  *)
Page(s, cursor) ==
  LET pages == config.servers[s].catalogs[catalog[s]]
  IN IF cursor = None THEN pages[1] ELSE IF cursor \in DOMAIN pages THEN pages[cursor] ELSE [tools |-> << >>, next |-> None]

-----------------------------------------------------------------------------
(* One page of a listing.                                                  *)

(* The tools of a page that discovery takes.                               *)
Offered(s, page) == {i \in DOMAIN page.tools : page.tools[i].name \in config.servers[s].allow}

(* Why discover refuses a page.                                            *)
Refuses(s, page, found) ==
  \/ Len(page.tools) > MaxTools
  \/ \E i \in Offered(s, page) :
       LET tool == page.tools[i]
       IN \/ tool.name \in Reserved \/ tool.name \in found
          \/ \E j \in Offered(s, page) : j < i /\ page.tools[j].name = tool.name
          \/ ProviderName(s, tool.name) \in Reserved \cup DOMAIN entries
          \/ ~SafeSchema(tool.schema)
  \/ Cardinality(DOMAIN entries) + Cardinality(Offered(s, page)) > MaxTools

(* The entries that a page adds.                                           *)
Pinned(s, page) ==
  LET names == {ProviderName(s, page.tools[i].name) : i \in Offered(s, page)}
      Of(name) == CHOOSE i \in Offered(s, page) : ProviderName(s, page.tools[i].name) = name
  IN [name \in DOMAIN entries \cup names |->
        IF name \in names
        THEN [server |-> s, tool |-> page.tools[Of(name)].name,
              schema |-> page.tools[Of(name)].schema]
        ELSE entries[name]]

(* Whether a listing goes on: there is a next page, it is not one that was  *)
(* read before, and the pages are not used up.                             *)
Continues(cursors, page) ==
  page.next \notin cursors /\ Cardinality(cursors) < MaxPages

(* current_schema, one page: what it has found so far, or "failed".        *)
Schemas(page, tool, found) ==
  LET at == {i \in DOMAIN page.tools : page.tools[i].name = tool}
  IN IF \/ Len(page.tools) > MaxTools
        \/ Cardinality(at) > 1 \/ (at # {} /\ found # None) THEN "failed"
     ELSE IF at = {} THEN found ELSE page.tools[CHOOSE i \in at : TRUE].schema

-----------------------------------------------------------------------------
(* The proxy and the server behind it.                                     *)

Frame(kind, id, cursor) == [kind |-> kind, id |-> id, cursor |-> cursor]

Request(s, frame) == proxy' = [proxy EXCEPT ![s].requests = Append(@, frame)]

FrameLimit(kind) == IF kind = "call" THEN CallFrame ELSE CatalogFrame

MutForward(s) ==
  /\ proxy[s].up /\ proxy[s].requests # << >>
  /\ LET frame == Head(proxy[s].requests)
     IN proxy' = [proxy EXCEPT ![s] = [@ EXCEPT
          !.limit = IF frame.kind = "call" THEN CallFrame ELSE @,
          !.requests = Tail(@), !.inbox = Append(@, frame)]]
  /\ UNCHANGED <<config, session, entries, active, client, catalog, ghost>>

(* forward_peer_requests: the limit is set before the request is passed on. *)
Forward(s) ==
  /\ proxy[s].up /\ proxy[s].requests # << >>
  /\ LET frame == Head(proxy[s].requests)
     IN proxy' = [proxy EXCEPT ![s] = [@ EXCEPT
          !.limit = FrameLimit(frame.kind),
          !.requests = Tail(@), !.inbox = Append(@, frame)]]
  /\ UNCHANGED <<config, session, entries, active, client, catalog, ghost>>

(* The server handles a request.                                           *)
Serve(s) ==
  /\ proxy[s].up /\ proxy[s].inbox # << >>
  /\ LET frame == Head(proxy[s].inbox)
         fits == FrameLimit(frame.kind)
     IN \E answer \in IF frame.kind = "call" THEN {"ok", "error", "invalid"} ELSE {"ok"},
           size \in {1, fits, fits + 1} :
          /\ proxy' = [proxy EXCEPT ![s] = [@ EXCEPT
               !.inbox = Tail(@),
               !.outbox = Append(@, [id |-> frame.id, answer |-> answer, size |-> size,
                                            fits |-> size <= fits,
                                            page |-> IF frame.kind = "call" THEN None
                                                     ELSE Page(s, frame.cursor)])]]
          /\ ghost' = IF frame.kind = "list" THEN ghost
                      ELSE [ghost EXCEPT !.ran[frame.cursor] = @ + 1,
                                         !.answers[frame.cursor] = answer]
  /\ UNCHANGED <<config, session, entries, active, client, catalog>>

Down(p) == [p EXCEPT !.up = FALSE, !.requests = << >>, !.inbox = << >>, !.outbox = << >>]

(* forward_peer_responses and read_frame: a frame over the limit of the     *)
(* moment ends the proxy and its server.                                   *)
Return(s) ==
  /\ proxy[s].up /\ proxy[s].outbox # << >>
  /\ LET frame == Head(proxy[s].outbox)
     IN IF frame.size > proxy[s].limit
        THEN /\ proxy' = [proxy EXCEPT ![s] = Down(@)]
             /\ ghost' = [ghost EXCEPT !.refused = @ \/ frame.fits]
        ELSE /\ proxy' = [proxy EXCEPT ![s] = [@ EXCEPT !.outbox = Tail(@), !.answered = frame]]
             /\ UNCHANGED ghost
  /\ UNCHANGED <<config, session, entries, active, client, catalog>>

ServerEnds(s) ==
  /\ proxy[s].up /\ config.servers[s].ends /\ proxy' = [proxy EXCEPT ![s] = Down(@)]
  /\ UNCHANGED <<config, session, entries, active, client, catalog, ghost>>

CatalogChanges(s) ==
  /\ catalog[s] < Len(config.servers[s].catalogs) /\ catalog' = [catalog EXCEPT ![s] = @ + 1]
  /\ UNCHANGED <<config, session, entries, active, client, proxy, ghost>>

-----------------------------------------------------------------------------
(* The session.                                                            *)

Waiting(s) == session.at \in {"discover", "list", "call"} /\ session.server = s

Answered(s) ==
  Waiting(s) /\ proxy[s].answered # None /\ proxy[s].answered.id = session.request

(* disconnect: the client is given to a task of its own, which goes on     *)
(* when the wait for it is over or dropped.                                *)
Disconnected(clients, S) ==
  [s \in Servers |-> IF s \in S /\ clients[s] = "open" THEN "closing" ELSE clients[s]]

(* shutdown, and drop: every client is disconnected.                       *)
Over == /\ session' = [session EXCEPT !.at = "over"] /\ active' = None
        /\ client' = Disconnected(client, Servers)

(* discover connects to the next server, or all of them are done.          *)
Connect ==
  /\ session.at = "connect"
  /\ IF session.server = Len(config.servers)
     THEN /\ session' = [session EXCEPT !.at = "idle"] /\ UNCHANGED <<active, client, proxy>>
     ELSE LET s == session.server + 1
          IN \/ /\ client' = [client EXCEPT ![s] = "open"] /\ UNCHANGED active
                /\ session' = [session EXCEPT !.at = "discover", !.server = s, !.found = {},
                                              !.request = @ + 1, !.cursors = {None}]
                /\ proxy' = [proxy EXCEPT ![s] = [@ EXCEPT !.up = TRUE,
                               !.requests = <<Frame("list", session.request + 1, None)>>]]
             \/ Over /\ UNCHANGED proxy
  /\ UNCHANGED <<config, entries, catalog, ghost>>

(* discover takes a page of the catalog.                                   *)
DiscoverPage(s) ==
  /\ session.at = "discover" /\ Answered(s)
  /\ LET page == proxy[s].answered.page
         found == session.found \cup {page.tools[i].name : i \in Offered(s, page)}
     IN IF Refuses(s, page, session.found) THEN Over /\ UNCHANGED <<entries, proxy>>
        ELSE /\ entries' = Pinned(s, page)
             /\ IF Continues(session.cursors, page)
                THEN /\ session' = [session EXCEPT !.request = @ + 1, !.found = found,
                                                   !.cursors = @ \cup {page.next}]
                     /\ Request(s, Frame("list", session.request + 1, page.next))
                     /\ UNCHANGED <<active, client>>
                ELSE IF page.next = None /\ found = config.servers[s].allow
                THEN session' = [session EXCEPT !.at = "connect"]
                     /\ UNCHANGED <<active, client, proxy>>
                ELSE Over /\ UNCHANGED proxy
  /\ UNCHANGED <<config, catalog, ghost>>

(* discover fails: the server is lost, the time is over, the session is    *)
(* stopped.                                                                *)
DiscoverFails ==
  /\ session.at = "discover" /\ (~proxy[session.server].up \/ config.stops)
  /\ Over /\ UNCHANGED <<config, entries, proxy, catalog, ghost>>

Record(outcome) == ghost' = [ghost EXCEPT !.outcomes[session.call] = outcome]

Finish(outcome) ==
  /\ session' = [session EXCEPT !.at = "idle"]
  /\ active' = None
  /\ Record(outcome)

MutDoubt(s) == Finish("unknown") /\ UNCHANGED client

(* execute, when the outcome is unknown: the peer is closed.               *)
Doubt(s) == Finish("unknown") /\ client' = Disconnected(client, {s})

(* execute: validate, and the catalog once more.                           *)
Execute ==
  /\ session.at = "idle" /\ session.call < Len(config.calls)
  /\ LET c == session.call + 1
         name == config.calls[c]
     IN IF name \notin DOMAIN entries \/ client[entries[name].server] # "open"
        THEN /\ session' = [session EXCEPT !.call = c]
             /\ ghost' = [ghost EXCEPT !.outcomes[c] = "failed"]
             /\ UNCHANGED <<active, proxy>>
        ELSE LET s == entries[name].server
             IN /\ active' = s
                /\ session' = [session EXCEPT !.at = "list", !.call = c, !.server = s,
                                 !.schema = None, !.request = @ + 1, !.cursors = {None}]
                /\ IF proxy[s].up THEN Request(s, Frame("list", session.request + 1, None))
                   ELSE UNCHANGED proxy
                /\ UNCHANGED ghost
  /\ UNCHANGED <<config, entries, client, catalog>>

Entry == entries[config.calls[session.call]]

(* execute: a page of current_schema; after the last one the call is made  *)
(* if the schema is the pinned one.                                        *)
SchemaPage(s) ==
  /\ session.at = "list" /\ Answered(s)
  /\ LET page == proxy[s].answered.page
         schema == Schemas(page, Entry.tool, session.schema)
     IN IF schema # "failed" /\ Continues(session.cursors, page)
        THEN /\ session' = [session EXCEPT !.request = @ + 1, !.schema = schema,
                                           !.cursors = @ \cup {page.next}]
             /\ Request(s, Frame("list", session.request + 1, page.next))
             /\ UNCHANGED <<active, ghost>>
        ELSE IF page.next = None /\ schema = Entry.schema
        THEN /\ session' = [session EXCEPT !.at = "call", !.request = @ + 1]
             /\ Request(s, Frame("call", session.request + 1, session.call))
             /\ UNCHANGED <<active, ghost>>
        ELSE Finish("failed") /\ UNCHANGED proxy
  /\ UNCHANGED <<config, entries, client, catalog>>

(* execute: the answer of the call.                                        *)
CallAnswered(s) ==
  /\ session.at = "call" /\ Answered(s)
  /\ LET frame == proxy[s].answered
     IN CASE frame.answer = "ok" -> Finish("success") /\ UNCHANGED client
          [] frame.answer = "error" -> Finish("failed") /\ UNCHANGED client
          [] frame.answer = "invalid" -> Doubt(s)
  /\ UNCHANGED <<config, entries, proxy, catalog>>

MutRequestFails(s) ==
  /\ Waiting(s) /\ session.at # "discover" /\ (~proxy[s].up \/ config.stops)
  /\ Finish("failed") /\ client' = Disconnected(client, {s})
  /\ UNCHANGED <<config, entries, proxy, catalog>>

(* execute: the peer is lost, or the client gives up.  While the catalog is *)
(* listed nothing has been asked of the tool and the client is kept.       *)
RequestFails(s) ==
  /\ Waiting(s) /\ session.at # "discover" /\ (~proxy[s].up \/ config.stops)
  /\ \/ session.at = "list" /\ Finish("failed") /\ UNCHANGED client
     \/ session.at = "call" /\ Doubt(s)
  /\ UNCHANGED <<config, entries, proxy, catalog>>

(* The timeout of the call, or the engine drops it and calls interrupted.  *)
Interrupt(s) ==
  /\ active = s /\ config.stops
  /\ Doubt(s)
  /\ UNCHANGED <<config, entries, proxy, catalog>>

(* The task that closes a client ends, and the proxy with it.              *)
Closed(s) ==
  /\ client[s] = "closing"
  /\ client' = [client EXCEPT ![s] = "closed"]
  /\ proxy' = [proxy EXCEPT ![s] = Down(@)]
  /\ UNCHANGED <<config, session, entries, active, catalog, ghost>>

Shutdown ==
  /\ session.at = "idle" /\ Over
  /\ UNCHANGED <<config, entries, proxy, catalog, ghost>>

Init ==
  /\ config \in {Scoped(c) : c \in Configs}
  /\ LoadScoped(config.servers)
  /\ session = [at |-> "connect", server |-> 0, call |-> 0, request |-> 0, cursors |-> {},
                found |-> {}, schema |-> None]
  /\ entries = << >> /\ active = None
  /\ client = [s \in Servers |-> "absent"]
  /\ proxy = [s \in Servers |-> [up |-> FALSE, limit |-> CatalogFrame, requests |-> << >>,
                                 inbox |-> << >>, outbox |-> << >>, answered |-> None]]
  /\ catalog = [s \in Servers |-> 1]
  /\ ghost = [ran |-> [c \in DOMAIN config.calls |-> 0],
              answers |-> [c \in DOMAIN config.calls |-> None],
              outcomes |-> [c \in DOMAIN config.calls |-> None], refused |-> FALSE]

Next ==
  \/ Connect \/ DiscoverFails \/ Execute \/ Shutdown
  \/ \E s \in Servers :
       \/ Forward(s) \/ Serve(s) \/ Return(s) \/ ServerEnds(s) \/ CatalogChanges(s)
       \/ DiscoverPage(s) \/ SchemaPage(s) \/ CallAnswered(s) \/ RequestFails(s)
       \/ Interrupt(s) \/ Closed(s)

Spec == Init /\ [][Next]_vars

-----------------------------------------------------------------------------
(* What is recorded of a call is what happened to it: after a success the   *)
(* tool ran once and answered, after a failure it did not run or said so   *)
(* itself, and no call ever runs twice (execute and interrupted).          *)
PeerOutcomesTrue ==
  \A c \in DOMAIN config.calls :
    /\ ghost.ran[c] <= 1
    /\ ghost.outcomes[c] = "success" => ghost.ran[c] = 1 /\ ghost.answers[c] = "ok"
    /\ ghost.outcomes[c] = "failed" => ghost.ran[c] = 0 \/ ghost.answers[c] = "error"

Unanswered(s) ==
  \E frames \in {proxy[s].requests, proxy[s].inbox} :
    \E i \in DOMAIN frames : frames[i].kind = "call"

(* A peer that may still be busy with a call is not used again: between    *)
(* calls an open client has no call on its way, also when the engine has   *)
(* dropped execute in the middle (execute, disconnect and interrupted).    *)
DoubtClosesPeer ==
  session.at = "idle" =>
    \A s \in Servers : client[s] = "open" => ~Unanswered(s)

(* No answer within the limit of its own request is refused: the frame     *)
(* limit that the two threads of the proxy share is the one of the request *)
(* that is being answered (forward_peer_requests, read_frame).             *)
RepliesFit == ~ghost.refused

=============================================================================
