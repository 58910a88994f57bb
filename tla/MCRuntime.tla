------------------------------ MODULE MCRuntime ------------------------------
(***************************************************************************)
(* TLC instances of what works on a project's tasks from outside Nano: the *)
(* MCP tools (one Executor, and rivals), the files and the registration of *)
(* a project, and the two screens that take a person's answers.  They      *)
(* share no state; a behaviour is one of a single part, and the variables  *)
(* of the others are None.                                                 *)
(***************************************************************************)
EXTENDS MCProjectFiles

CONSTANTS Parts, e1, e2, s1, specA, specB, t1, t2

VARIABLES part,
          task, now, question, answer, request, response, toolCalls, joined, answered, asks,
          typed, merged, delivered, resets,
          bound, selection, files, edits, watcher, sent, tasks, app, inputs, hq, answers,
          budget, ui, toHq, toUi, view, control, pipe, agent, journal, mailbox, observed, run

callVars == <<task, now, question, answer, request, response, toolCalls, joined, answered, asks,
              typed, merged, delivered, resets>>
fileVars == <<vars, registry>>
screenVars == <<bound, selection, files, edits, watcher, sent, tasks, app, inputs, hq, answers>>
talkVars == <<budget, ui, toHq, toUi, view, control, pipe, agent, journal, mailbox, observed, run>>
all == <<part, callVars, fileVars, screenVars, talkVars>>

-----------------------------------------------------------------------------
(* One Executor whose calls end before their leases, and nobody resets.    *)
OneExecutor ==
  INSTANCE ToolCalls
    WITH LeaseTtl <- 2, MaxCheckRetries <- 2, MaxReviewCycles <- 2, MaxExecutorDispatches <- 0,
         MaxTime <- 2, MaxAsks <- 2, MaxResets <- 0, SlowCalls <- FALSE,
         Executors <- {e1}, Supervisor <- s1, calls <- toolCalls, asked <- answered

Rivals ==
  INSTANCE ToolCalls
    WITH LeaseTtl <- 1, MaxCheckRetries <- 2, MaxReviewCycles <- 1, MaxExecutorDispatches <- 0,
         MaxTime <- 1, MaxAsks <- 1, MaxResets <- 1, SlowCalls <- FALSE,
         Executors <- {e1, e2}, Supervisor <- s1, calls <- toolCalls, asked <- answered

(* Edits of two specifications, and questions of two tasks answered from    *)
(* one editor.                                                             *)
Screen ==
  INSTANCE HqDashboard
    WITH Specs <- {specA, specB}, Tasks <- {t1, t2},
         Bounds <- {[edits |-> 4, asked |-> 0, typed |-> 0],
                    [edits |-> 0, asked |-> 3, typed |-> 2]}

Quiet == [inputs |-> 2, turns |-> 1, deltas |-> 0, detach |-> 0, attach |-> 0, cancel |-> 0,
          kills |-> 0, refusals |-> 0, journalFailures |-> 0]

Talk ==
  INSTANCE NanoConversation
    WITH Inputs <- {1, 2}, QueueSize <- 1,
         Programs <- {Quiet,
                      [Quiet EXCEPT !.detach = 1, !.attach = 1],
                      [Quiet EXCEPT !.inputs = 1, !.cancel = 1, !.journalFailures = 1],
                      [Quiet EXCEPT !.inputs = 1, !.kills = 1, !.refusals = 1],
                      [Quiet EXCEPT !.inputs = 1, !.deltas = 1, !.turns = 2]}

-----------------------------------------------------------------------------
NoCalls ==
  /\ task = None /\ now = None /\ question = None /\ answer = None /\ request = None
  /\ response = None /\ toolCalls = None /\ joined = None /\ answered = None /\ asks = None
  /\ typed = None /\ merged = None /\ delivered = None /\ resets = None
NoFiles ==
  /\ calls = None /\ pc = None /\ local = None /\ db = None /\ fs = None /\ old = None
  /\ troubles = None /\ chosen = None
  /\ asked = None /\ at = None /\ got = None /\ ref = None /\ metadata = None
  /\ database = None /\ crashes = None
NoScreen ==
  /\ bound = None /\ selection = None /\ files = None /\ edits = None /\ watcher = None
  /\ sent = None /\ tasks = None /\ app = None /\ inputs = None /\ hq = None /\ answers = None
NoTalk ==
  /\ budget = None /\ ui = None /\ toHq = None /\ toUi = None /\ view = None /\ control = None
  /\ pipe = None /\ agent = None /\ journal = None /\ mailbox = None /\ observed = None
  /\ run = None

RuntimeInit ==
  /\ part \in Parts
  /\ IF part = "executor" THEN OneExecutor!Init
     ELSE IF part = "rivals" THEN Rivals!Init ELSE NoCalls
  /\ IF part = "files" THEN MCInit ELSE NoFiles
  /\ IF part = "screen" THEN Screen!Init ELSE NoScreen
  /\ IF part = "talk" THEN Talk!Init ELSE NoTalk

RuntimeNext ==
  \/ part = "executor" /\ OneExecutor!Next /\ UNCHANGED <<part, fileVars, screenVars, talkVars>>
  \/ part = "rivals" /\ Rivals!Next /\ UNCHANGED <<part, fileVars, screenVars, talkVars>>
  \/ part = "files" /\ MCNext /\ UNCHANGED <<part, callVars, screenVars, talkVars>>
  \/ /\ part = "screen" /\ Screen!Next
     /\ UNCHANGED <<part, bound, callVars, fileVars, talkVars>>
  \/ part = "talk" /\ Talk!Next /\ UNCHANGED <<part, callVars, fileVars, screenVars>>

RuntimeSpec == RuntimeInit /\ [][RuntimeNext]_all

-----------------------------------------------------------------------------
(* An agent that waits gets the answer to the question it asked last, and  *)
(* a task is Complete only with its patch in the canonical checkout.       *)
ToolAnswersTrue ==
  /\ part = "executor" => OneExecutor!AnswersMatch
  /\ part = "rivals" => Rivals!CompleteMeansIntegrated

Lifecycle ==
  INSTANCE TaskLifecycle
    WITH status <- IF part = "executor" THEN task.status ELSE "pending",
         paused <- IF part = "executor" THEN OneExecutor!PausedStack(task) ELSE <<>>




(* What a person is told of an input is true, and one that is pending is   *)
(* somewhere.                                                              *)
InputsAccountedFor ==
  part = "talk" => Talk!ReceiptsTrue /\ Talk!PendingIsAccountedFor
=============================================================================
