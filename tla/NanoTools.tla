------------------------------- MODULE NanoTools -------------------------------
(***************************************************************************)
(* The native tools of a Nano session on one workspace: files, patches,    *)
(* commands, the evidence the model is shown, and the repository overlay   *)
(* (src/src/nano/native.rs, coding.rs, refresh.rs, working_set.rs,         *)
(* context.rs, tools.rs, and the use the engine makes of them).            *)
(*                                                                         *)
(* The session makes one call at a time.  Other programs edit the same     *)
(* files at any time, the commands of the session run beside it, and the   *)
(* session is cancelled, or its process ends, between any two steps.  A    *)
(* patch is one step per file system effect.                               *)
(***************************************************************************)
EXTENDS NanoFiles, NanoCommands

CONSTANTS Programs,      \* what the sessions that are looked at may do
          RefreshLimit,  \* attempts of Refresh
          SelectionLimit, \* ENTRIES of the working set
          PageSize       \* the output a caller asks for

VARIABLES
  program,    \* the one of Programs that runs
  files,      \* the workspace
  temps,      \* the staged files beside them
  host,       \* the session process
  cancelled,  \* cancellation, or the deadline, of the session
  op,         \* the call in progress
  pending,    \* the intent in the journal that has no result
  recorded,   \* the commands whose start is in the journal
  messages,   \* the calls of the transcript
  shown,      \* the last preparation
  refresh,    \* Refresh, and prefetch_invalidated
  overlay,    \* the published view of the task
  cache,      \* QueryCache: the snapshot of the cached answer
  own,        \* the files whose content is this session's work
  edits       \* the number of edits by others, and by commands

sessionVars == <<program, host, cancelled, op, pending, recorded, messages, shown>>
viewVars == <<refresh, overlay, cache>>
fileVars == <<files, temps, own, edits>>
vars == <<sessionVars, viewVars, fileVars, commandVars>>

NoOp ==
  [pc |-> "idle", call |-> None, plans |-> << >>, k |-> 1, states |-> << >>,
   failure |-> None, wrote |-> << >>, raced |-> {}, search |-> NoSearch, edits |-> 0,
   outcome |-> None, sources |-> {}, span |-> None, ran |-> FALSE, writers |-> FALSE]

NoRefresh == [dirty |-> FALSE, attempts |-> 0, task |-> None, stale |-> FALSE, failed |-> FALSE]

Init ==
  /\ program \in Programs
  /\ files = program.files /\ temps = {} /\ own = {} /\ edits = 0
  /\ host = "up" /\ cancelled = FALSE
  /\ op = NoOp /\ pending = None /\ recorded = {} /\ messages = << >>
  /\ shown = [at |-> 0, kept |-> {}, prefetch |-> FALSE]
  /\ refresh = NoRefresh
  /\ overlay = [snapshot |-> 0, files |-> program.files]
  /\ cache = None
  /\ CommandsInit

(* The step of a call at pc that leaves the session otherwise alone.       *)
Step(pc) == host = "up" /\ op.pc = pc

-----------------------------------------------------------------------------
(* The engine around a call.                                               *)

(* The intent, with the effect plan of a patch, is in the journal first.   *)
Intent(call) ==
  /\ Step("idle") /\ ~cancelled
  /\ Len(messages) < Len(program.calls) /\ call \in program.calls[Len(messages) + 1]
  /\ op' = [NoOp EXCEPT !.pc = "intent", !.call = call]
  /\ pending' = [name |-> call.name, started |-> FALSE,
                 plan |-> IF call.name = "apply_patch" THEN EffectPlan(files, call.edits)
                          ELSE None]
  /\ UNCHANGED <<program, host, cancelled, recorded, messages, shown>>
  /\ UNCHANGED <<viewVars, fileVars, commandVars>>

Mutating(call) == call.name \in {"exec", "apply_patch"}

FirstPc(call) ==
  CASE Mutating(call) \/ call.name = "repository_search" -> "settle"
    [] call.name = "search_text" -> "search"
    [] OTHER -> "read"

(* Authorization, ToolStarted, and the first checks of execute.            *)
Begin ==
  /\ Step("intent")
  /\ IF cancelled
     THEN /\ op' = [op EXCEPT !.pc = "result", !.outcome = "failed"]
          /\ UNCHANGED pending
     ELSE /\ op' = [op EXCEPT !.pc = FirstPc(op.call),
                              !.search = IF op.call.name = "search_text"
                                         THEN StartSearch(op.call.starts, op.call.query, op.call.max)
                                         ELSE @,
                              !.edits = edits]
          /\ pending' = [pending EXCEPT !.started = TRUE]
  /\ UNCHANGED <<program, host, cancelled, recorded, messages, shown>>
  /\ UNCHANGED <<viewVars, fileVars, commandVars>>

(* A call is dropped where it waits once the session is cancelled: what it *)
(* did is unknown.                                                         *)
Waits == op.pc \in {"settle", "search"} \/ (op.pc = "check" /\ op.k > 1)

Drop ==
  /\ host = "up" /\ cancelled /\ Waits
  /\ op' = [op EXCEPT !.pc = "result", !.outcome = "unknown", !.ran = FALSE]
  /\ UNCHANGED <<program, host, cancelled, pending, recorded, messages, shown>>
  /\ UNCHANGED <<viewVars, fileVars, commandVars>>

Edited(call) == {call.edits[i].path : i \in Positions(call.edits)}

(* settle: the outcome of the refresh is taken.                            *)
SettledRefresh(r) ==
  IF r.task \notin {"published", "failed"} THEN r
  ELSE [r EXCEPT !.task = None, !.stale = @ /\ r.task # "published", !.failed = r.task = "failed"]

(* take_pending.                                                           *)
Scheduled(r, writers) ==
  IF writers \/ r.task # None \/ r.attempts >= RefreshLimit \/ ~r.dirty THEN r
  ELSE [r EXCEPT !.task = "running", !.attempts = @ + 1, !.dirty = FALSE]

PrepareRefresh(r, writers) == Scheduled(SettledRefresh(r), writers)

(* The result is in the journal and in the transcript.  A patch or a       *)
(* command that was not dropped has asked for a refresh before.            *)
Record ==
  /\ Step("result")
  /\ messages' = Append(messages,
       [name |-> op.call.name, outcome |-> op.outcome, sources |-> op.sources, span |-> op.span,
        snapshot |-> IF op.call.name = "repository_search" THEN overlay.snapshot ELSE None,
        edited |-> IF op.call.name = "apply_patch" THEN Edited(op.call) ELSE {}])
  /\ pending' = None
  /\ recorded' = IF op.call.name = "exec" /\ op.outcome = "success"
                 THEN recorded \cup {attempts} ELSE recorded
  /\ refresh' = IF op.ran THEN PrepareRefresh(refresh, Writers # {}) ELSE refresh
  /\ op' = [NoOp EXCEPT !.pc = IF cancelled \/ op.outcome = "unknown" THEN "shutdown" ELSE "idle"]
  /\ UNCHANGED <<program, host, cancelled, shown, overlay, cache>>
  /\ UNCHANGED <<fileVars, commandVars>>

Outcome(outcome, sources) ==
  op' = [op EXCEPT !.pc = "result", !.outcome = outcome, !.sources = sources]

-----------------------------------------------------------------------------
(* Reads, searches and the tools of commands.                              *)

Read ==
  /\ Step("read") /\ op.call.name \in {"read_file", "repository_fallback"}
  /\ LET result == ReadFile(files, op.call.path, op.call.line, op.call.lines)
     IN IF cancelled \/ result.code # "ok" THEN Outcome("failed", {})
        ELSE op' = [op EXCEPT !.pc = "result", !.outcome = "success", !.sources = {result.source},
                              !.span = <<result.start, result.returned>>]
  /\ UNCHANGED <<program, host, cancelled, pending, recorded, messages, shown>>
  /\ UNCHANGED <<viewVars, fileVars, commandVars>>

LoadInstructions ==
  /\ Step("read") /\ op.call.name = "load_instructions"
  /\ LET result == Instructions(files, op.call.guidance, op.call.skills)
     IN IF result.code # "ok" THEN Outcome("failed", {}) ELSE Outcome("success", {})
  /\ UNCHANGED <<program, host, cancelled, pending, recorded, messages, shown>>
  /\ UNCHANGED <<viewVars, fileVars, commandVars>>

(* One entry of the search; a search that is stopped says so.              *)
Search ==
  /\ Step("search")
  /\ IF op.search.pending = {}
     THEN Outcome("success", {})
     ELSE op' = [op EXCEPT !.search = IF cancelled
                                      THEN [Truncated(@) EXCEPT !.pending = {}]
                                      ELSE SearchEntry(files, @)]
  /\ UNCHANGED <<program, host, cancelled, pending, recorded, messages, shown>>
  /\ UNCHANGED <<viewVars, fileVars, commandVars>>

(* read_process and read_output of a command of this session.              *)
ReadCommand ==
  /\ Step("read") /\ op.call.name \in {"read_process", "read_output"}
  /\ LET c == op.call.command
     IN IF entry[c] = Absent THEN Outcome("failed", {})
        ELSE op' = [op EXCEPT !.pc = "result", !.outcome = "success",
                              !.span = IF op.call.name = "read_output" THEN Page(c, 0, PageSize)
                                       ELSE ProcessStatus(c)]
  /\ UNCHANGED <<program, host, cancelled, pending, recorded, messages, shown>>
  /\ UNCHANGED <<viewVars, fileVars, commandVars>>

StopCommand ==
  /\ Step("read") /\ op.call.name = "stop_process"
  /\ Outcome(IF entry[op.call.command] = Absent THEN "failed" ELSE "success", {})
  /\ StopCommands({op.call.command}) /\ UNCHANGED closed
  /\ UNCHANGED <<program, host, cancelled, pending, recorded, messages, shown>>
  /\ UNCHANGED <<viewVars, fileVars>>

-----------------------------------------------------------------------------
(* What a mutation does to the views, and graph queries.                   *)

MutInvalidated(r) == r

(* invalidate_unknown, after the refresh in progress was settled.          *)
Invalidated(r) == [r EXCEPT !.dirty = TRUE, !.stale = TRUE]

BeforeMutation ==
  /\ Step("settle") /\ Mutating(op.call) /\ refresh.task # "running"
  /\ refresh' = Invalidated(SettledRefresh(refresh))
  /\ cache' = None
  /\ op' = [op EXCEPT !.pc = IF op.call.name = "exec" THEN "exec" ELSE "preflight",
                      !.ran = TRUE]
  /\ UNCHANGED <<program, host, cancelled, pending, recorded, messages, shown, overlay>>
  /\ UNCHANGED <<fileVars, commandVars>>

(* A graph query: an overlay that is to be refreshed is not asked.  The    *)
(* answer comes from the cache if it was asked for the same snapshot.      *)
Query ==
  /\ Step("settle") /\ op.call.name = "repository_search" /\ refresh.task # "running"
  /\ refresh' = SettledRefresh(refresh)
  /\ IF refresh.dirty
     THEN Outcome("failed", {}) /\ UNCHANGED cache
     ELSE /\ Outcome("success", {Source(p, overlay.files[p]) :
                                   p \in {q \in Paths : overlay.files[q] # None}})
          /\ cache' = overlay.snapshot
  /\ UNCHANGED <<program, host, cancelled, pending, recorded, messages, shown, overlay>>
  /\ UNCHANGED <<fileVars, commandVars>>

(* The refresh: the files as they are become the view of the task, or it   *)
(* fails.                                                                  *)
RunRefresh(outcome) ==
  /\ host = "up" /\ refresh.task = "running"
  /\ refresh' = [refresh EXCEPT !.task = outcome]
  /\ overlay' = IF outcome = "failed" THEN overlay
                ELSE [snapshot |-> overlay.snapshot + 1, files |-> files]
  /\ UNCHANGED cache /\ UNCHANGED <<sessionVars, fileVars, commandVars>>

-----------------------------------------------------------------------------
(* apply_patch.                                                            *)

PatchFails(code) == op' = [op EXCEPT !.failure = code, !.pc = "result",
                                     !.outcome = PatchOutcome(op.states, code)]

PatchStep(pc) ==
  /\ Step(pc)
  /\ UNCHANGED <<program, host, cancelled, pending, recorded, messages, shown>>
  /\ UNCHANGED <<viewVars, commandVars>>

(* prepare: one edit after the other, none of them applied before all of   *)
(* them were looked at.                                                    *)
Preflight ==
  /\ PatchStep("preflight")
  /\ LET edit == op.call.edits[op.k]
         code == IF cancelled THEN "Interrupted" ELSE EditCode(files, op.plans, edit)
         plans == Append(op.plans, Plan(edit))
         last == op.k = Len(op.call.edits)
     IN IF code # "ok" THEN PatchFails(code)
        ELSE op' = [op EXCEPT !.plans = plans, !.k = IF last THEN 1 ELSE @ + 1,
                              !.pc = IF last THEN "check" ELSE "preflight",
                              !.states = NotApplied(plans), !.wrote = [i \in Positions(plans) |-> << >>]]
  /\ UNCHANGED fileVars

ThePlan == op.plans[op.k]

(* The first look at the base, and the staged file.                        *)
Check ==
  /\ PatchStep("check")
  /\ LET code == IF cancelled THEN "Interrupted" ELSE BaseCode(files, ThePlan.path, ThePlan.before)
     IN IF code # "ok" THEN PatchFails(code) /\ UNCHANGED temps
        ELSE \/ /\ op' = [op EXCEPT !.pc = "staged"]
                /\ temps' = IF ThePlan.after = None THEN temps ELSE temps \cup {ThePlan.path}
             \/ PatchFails("Io") /\ UNCHANGED temps
  /\ UNCHANGED <<files, own, edits>>

MutRecheck ==
  /\ PatchStep("staged")
  /\ op' = [op EXCEPT !.pc = "publish"]
  /\ UNCHANGED <<files, temps, own, edits>>

(* The second look; the staged file goes when it is not published.         *)
Recheck ==
  /\ PatchStep("staged")
  /\ LET code == BaseCode(files, ThePlan.path, ThePlan.before)
     IN IF code # "ok" THEN PatchFails(code) /\ temps' = temps \ {ThePlan.path}
        ELSE op' = [op EXCEPT !.pc = "publish"] /\ UNCHANGED temps
  /\ UNCHANGED <<files, own, edits>>

(* A link needs a free name, and an unlink a file.                         *)
CanPublish(plan) ==
  /\ plan.before = None => files[plan.path] = None
  /\ plan.after = None => files[plan.path] # None

(* The effect on the file: what it replaces is kept for the properties.    *)
Effect(state) ==
  /\ files' = [files EXCEPT ![ThePlan.path] = ThePlan.after]
  /\ own' = own \cup {ThePlan.path}
  /\ op' = [op EXCEPT !.states[op.k] = state,
                      !.wrote[op.k] = <<files[ThePlan.path]>>,
                      !.failure = IF state = "applied" THEN None ELSE "Io",
                      !.k = IF state = "applied" THEN @ + 1 ELSE @,
                      !.outcome = IF state = "applied" THEN "success" ELSE "unknown",
                      !.pc = IF state = "applied" /\ op.k < Len(op.plans) THEN "check" ELSE "result"]

(* publish, delete: the file is changed and synced.                        *)
Publish ==
  /\ PatchStep("publish") /\ CanPublish(ThePlan)
  /\ Effect("applied")
  /\ temps' = temps \ {ThePlan.path}
  /\ UNCHANGED edits

(* The change failed before it was made.                                   *)
PublishFails ==
  /\ PatchStep("publish")
  /\ PatchFails("Io")
  /\ temps' = temps \ {ThePlan.path}
  /\ UNCHANGED <<files, own, edits>>

(* It was made, and removing the other name of a new file, or syncing the  *)
(* directory, failed.                                                      *)
PublishUnconfirmed ==
  /\ PatchStep("publish") /\ CanPublish(ThePlan)
  /\ Effect("durability_unconfirmed")
  /\ temps' \in {temps \ {ThePlan.path}} \cup (IF ThePlan.before = None THEN {temps} ELSE {})
  /\ UNCHANGED edits

-----------------------------------------------------------------------------
(* exec.                                                                   *)

ExecStarts ==
  /\ Step("exec")
  /\ IF cancelled \/ ExecRefused
     THEN Outcome("failed", {}) /\ UNCHANGED commandVars
     ELSE op' = [op EXCEPT !.pc = "spawn"] /\ PrepareSpool(FALSE)
  /\ UNCHANGED <<program, host, cancelled, pending, recorded, messages, shown>>
  /\ UNCHANGED <<viewVars, fileVars>>

ExecSpawns ==
  /\ Step("spawn")
  /\ \/ Outcome("success", {}) /\ Spawn(attempts)
     \/ Outcome("unknown", {}) /\ UNCHANGED commandVars
  /\ UNCHANGED <<program, host, cancelled, pending, recorded, messages, shown>>
  /\ UNCHANGED <<viewVars, fileVars>>

(* An edit between the second look of a patch and its effect is a race     *)
(* that is lost; it is remembered for the properties.                      *)
Races(p) ==
  /\ op' = IF op.pc = "publish" /\ ThePlan.path = p THEN [op EXCEPT !.raced = @ \cup {op.k}] ELSE op
  /\ UNCHANGED <<program, host, cancelled, pending, recorded, messages, shown>>

(* The work of a running command, which may write a file.                  *)
CommandWrites(c, p) ==
  /\ Alive(c) /\ edits < program.maxEdits /\ p \in program.edited
  /\ \E text \in program.texts \ {files[p]} : files' = [files EXCEPT ![p] = text]
  /\ own' = own \cup {p} /\ edits' = edits + 1
  /\ Races(p)
  /\ UNCHANGED temps /\ UNCHANGED <<viewVars, commandVars>>

(* Another program edits a file.                                           *)
ExternalEdit(p) ==
  /\ edits < program.maxEdits /\ p \in program.edited
  /\ \E text \in program.texts \ {files[p]} : files' = [files EXCEPT ![p] = text]
  /\ own' = own \ {p} /\ edits' = edits + 1
  /\ Races(p)
  /\ UNCHANGED temps /\ UNCHANGED <<viewVars, commandVars>>

Stopping(c) == IF entry[c].cancel \/ cancelled THEN {"cancelled"} ELSE {"timed_out", "exited", "unknown"}

Supervise(c) ==
  /\ host = "up"
  /\ \/ Capture(c) \/ CaptureOverflows(c) \/ Drain(c) \/ Finish(c)
     \/ \E reason \in {"cancelled", "timed_out"} :
          /\ At(c, "run") /\ (reason = "cancelled" => entry[c].cancel \/ cancelled)
          /\ CaptureInterrupted(c, reason)
     \/ \E reason \in {"cancelled", "timed_out", "exited", "unknown"} :
          /\ At(c, "run") /\ reason \in Stopping(c)
          /\ LoopEnds(c, reason)
     \/ \E written \in BOOLEAN : CleanupFails(c, written)
  /\ UNCHANGED <<sessionVars, viewVars, fileVars>>

Process(c) ==
  /\ \/ proc[c] # Absent /\ proc[c].written < program.maxOutput /\ Emit(c)
     \/ Exit(c)
  /\ UNCHANGED <<sessionVars, viewVars, fileVars>>

-----------------------------------------------------------------------------
(* The preparation of the context of the next request.                     *)

(* The reasons to withhold a piece of evidence (prepare).                  *)
Withheld(i, writers) ==
  LET m == messages[i]
  IN \/ writers
     \/ m.snapshot # None /\ m.snapshot # overlay.snapshot
     \/ \E j \in i + 1 .. Len(messages) :
          \/ messages[j].name = "exec"
          \/ messages[j].edited \cap {s.path : s \in m.sources} # {}
     \/ \E s \in m.sources :
          EvidenceDigest(files, s.path, FileLimit).digest # s.digest

Evidence == {i \in Positions(messages) :
               messages[i].outcome = "success" /\ messages[i].sources # {}}

(* evidence: its identity covers the answer and where it came from.        *)
Identity(i) == <<messages[i].name, messages[i].sources, messages[i].span, messages[i].snapshot>>

(* The latest pieces that are not withheld, up to the limit.  One that is  *)
(* there already becomes a reference to it, and so does one that overlaps  *)
(* it, which is merged into it.                                            *)
Selected(writers) ==
  LET fit == {i \in Evidence : ~Withheld(i, writers)}
      newest(i) == Max({j \in fit : Identity(j) = Identity(i)})
  IN {i \in fit : Cardinality({Identity(j) : j \in {k \in fit : k > newest(i)}}) < SelectionLimit}

(* prepare_context: the writers are counted, and the refresh that is       *)
(* waiting is started and awaited.                                         *)
PrepareContext ==
  /\ Step("idle") /\ ~cancelled
  /\ shown.at < Len(messages)
  /\ refresh' = PrepareRefresh(refresh, Writers # {})
  /\ op' = [op EXCEPT !.pc = "prepare", !.writers = Writers # {}]
  /\ UNCHANGED <<program, host, cancelled, pending, recorded, messages, shown, overlay, cache>>
  /\ UNCHANGED <<fileVars, commandVars>>

(* The prefetch is the answer of a graph query that was not made stale,    *)
(* and its files are compared as well.                                     *)
PrefetchReady(r) ==
  /\ ~op.writers /\ ~r.stale /\ ~r.dirty
  /\ \A p \in Paths : overlay.files[p] # None =>
       EvidenceDigest(files, p, FileLimit).digest = overlay.files[p]

ContextPrepared ==
  /\ Step("prepare") /\ refresh.task # "running"
  /\ LET r == SettledRefresh(refresh)
     IN /\ refresh' = Scheduled(r, op.writers)
        /\ shown' = [at |-> Len(messages), kept |-> Selected(op.writers),
                     prefetch |-> PrefetchReady(r)]
  /\ op' = NoOp
  /\ UNCHANGED <<program, host, cancelled, pending, recorded, messages, overlay, cache>>
  /\ UNCHANGED <<fileVars, commandVars>>

-----------------------------------------------------------------------------
(* The end of the session.                                                 *)

Cancel ==
  /\ host = "up" /\ ~cancelled /\ program.cancels
  /\ cancelled' = TRUE
  /\ UNCHANGED <<program, host, op, pending, recorded, messages, shown>>
  /\ UNCHANGED <<viewVars, fileVars, commandVars>>

(* The session is over: cancelled, in doubt, or the model has finished.    *)
Shutdown ==
  /\ Step("shutdown") \/ (Step("idle") /\ (cancelled \/ Len(messages) = Len(program.calls)))
  /\ StopCommands(Commands) /\ closed' = TRUE
  /\ op' = [NoOp EXCEPT !.pc = "join"]
  /\ UNCHANGED <<program, host, cancelled, pending, recorded, messages, shown>>
  /\ UNCHANGED <<viewVars, fileVars>>

Join ==
  /\ Step("join")
  /\ \E late \in SUBSET Commands : JoinCommands(late)
  /\ op' = [NoOp EXCEPT !.pc = "final"]
  /\ UNCHANGED <<program, host, cancelled, pending, recorded, messages, shown>>
  /\ UNCHANGED <<viewVars, fileVars>>

(* A session whose commands are known to have stopped refreshes the        *)
(* overlay once more.  One whose effects are in doubt ends in doubt.       *)
EndSession ==
  /\ Step("final") /\ refresh.task # "running"
  /\ LET r == PrepareRefresh(refresh, FALSE)
     IN IF Writers # {} \/ \E i \in Positions(messages) : messages[i].outcome = "unknown"
        THEN host' = "doubt" /\ UNCHANGED refresh
        ELSE refresh' = r /\ host' = IF r.task = "running" THEN "up" ELSE "ended"
  /\ UNCHANGED <<program, cancelled, op, pending, recorded, messages, shown, overlay, cache>>
  /\ UNCHANGED <<fileVars, commandVars>>

(* The process of the session ends.  In the middle of output::prepare some *)
(* of the files may be there.                                              *)
Crash ==
  /\ host = "up" /\ program.crashes
  /\ host' = "down" /\ op' = NoOp
  /\ IF op.pc = "exec" /\ ~ExecRefused
     THEN \/ CommandsCrash
          \/ /\ entry' = [c \in Commands |-> Absent] /\ charged' = 0 /\ closed' = FALSE
             /\ attempts' = NextId
             /\ spool' = [spool EXCEPT ![NextId] = [state |-> "none", stateBytes |-> 0,
                                                    complete |-> FALSE, bytes |-> 0]]
             /\ UNCHANGED proc
     ELSE CommandsCrash
  /\ refresh' = NoRefresh /\ cache' = None
  /\ UNCHANGED <<program, cancelled, pending, recorded, messages, shown, overlay>>
  /\ UNCHANGED fileVars

(* pending of the next session: what the call that has no result did.      *)
PendingOutcome ==
  IF pending = None THEN None
  ELSE IF ~pending.started THEN "failed"
  ELSE CASE pending.name = "apply_patch" ->
              IF pending.plan = None THEN "unknown" ELSE PatchState(files, pending.plan)
         [] pending.name \in {"exec", "stop_process"} -> "unknown"
         [] OTHER -> "failed"

(* recover_previous: the next session works on when nothing is in doubt.   *)
Recover ==
  /\ host \in {"down", "ended", "doubt"}
  /\ host' = IF \/ host = "doubt" \/ PendingOutcome = "unknown" \/ Unresolved(recorded)
                \/ \E i \in Positions(messages) : messages[i].outcome = "unknown"
             THEN "refused" ELSE "resumed"
  /\ op' = [NoOp EXCEPT !.outcome = PendingOutcome]
  /\ UNCHANGED <<program, cancelled, pending, recorded, messages, shown>>
  /\ UNCHANGED <<viewVars, fileVars, commandVars>>

-----------------------------------------------------------------------------
Session ==
  \/ \E call \in UNION Range(program.calls) : Intent(call)
  \/ Begin \/ Drop \/ Record
  \/ Read \/ LoadInstructions \/ Search \/ ReadCommand \/ StopCommand
  \/ BeforeMutation \/ Query
  \/ Preflight \/ Check \/ Recheck \/ Publish \/ PublishFails \/ PublishUnconfirmed
  \/ ExecStarts \/ ExecSpawns
  \/ PrepareContext \/ ContextPrepared
  \/ Cancel \/ Shutdown \/ Join \/ EndSession \/ Crash \/ Recover

Next ==
  \/ Session
  \/ \E outcome \in {"published", "failed"} : RunRefresh(outcome)
  \/ \E c \in Commands : Supervise(c) \/ Process(c) \/ \E p \in Paths : CommandWrites(c, p)
  \/ \E p \in Paths : ExternalEdit(p)

Spec == Init /\ [][Next]_vars

-----------------------------------------------------------------------------
Answered(name) == host = "up" /\ op.pc = "result" /\ op.call.name = name

(* What apply_patch answers is what it did: a success wrote every file and *)
(* a failure none, neither leaves a staged file behind, and an edit made   *)
(* by another program is overwritten only if it came after the second look *)
(* at the file (commit_plans).                                             *)
PatchAnswersTrue ==
  Answered("apply_patch") =>
    /\ op.outcome = "success" => \A k \in Positions(op.plans) : op.wrote[k] # << >>
    /\ op.outcome = "failed" => \A k \in Positions(op.wrote) : op.wrote[k] = << >>
    /\ op.outcome \in {"success", "failed"} => temps = {}
    /\ \A k \in Positions(op.wrote) :
         op.wrote[k] # << >> /\ k \notin op.raced => op.wrote[k] = <<op.plans[k].before>>

(* The names below the start of a search.                                  *)
Below(names) ==
  names \cup UNION {{n \in Entries[d] : Accepted(n)} : d \in names \cap DOMAIN Entries}

(* A search that is not truncated has found every matching line of every   *)
(* readable file below its start, whichever of its limits came close, if   *)
(* nobody edited a file while it ran (search_text).                        *)
SearchesComplete ==
  Answered("search_text") /\ op.outcome = "success" /\ ~op.search.truncated /\ op.edits = edits =>
    {[path |-> h.path, line |-> h.line] : h \in op.search.matches} =
      UNION {{[path |-> p, line |-> i] : i \in {j \in Positions(files[p]) : files[p][j] = op.search.query}} :
             p \in {q \in Below(Below(Below(op.call.starts))) \cap Paths : files[q] # None}}

(* A session that goes on after another has no command of the other beside *)
(* it, and nothing the other did is in doubt: each file of a patch that    *)
(* was cut short is as if the patch had been made, or each as if it had    *)
(* not (recover_previous).                                                 *)
RecoveryIsSafe ==
  host = "resumed" =>
    /\ \A c \in Commands : ~Alive(c)
    /\ \A i \in Positions(messages) : messages[i].outcome # "unknown"

(* The evidence a preparation keeps is what the files hold then, with no   *)
(* command of the session at work; and a graph query that is answered sees *)
(* every file as the session itself left it, unless the last refresh       *)
(* failed (prepare_context, execute).                                      *)
PreparesAndQueries ==
  /\ shown' # shown =>
       \A i \in shown'.kept :
         /\ \A s \in messages[i].sources : files[s.path] = s.digest
         /\ \A c \in Commands : ~Alive(c)
  /\ op.pc = "settle" /\ op.call.name = "repository_search" /\ op'.outcome = "success" =>
       refresh'.failed \/ \A p \in own : overlay.files[p] = files[p]

EvidenceIsCurrent == [][PreparesAndQueries]_vars
=============================================================================
