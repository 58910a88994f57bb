------------------------------ MODULE NanoDirect ------------------------------
(***************************************************************************)
(* A direct session: a native agent that works in the project directory    *)
(* without a task (src/src/nano/interactive.rs, checks.rs, binding.rs) and *)
(* shares it with the approvals of tasks by the canonical approval lock.    *)
(*                                                                         *)
(* The lock is reference counted: the tools hold it for the time of a call, *)
(* the guard for the next command, and every command until its supervisor   *)
(* knows that it has stopped.  It is returned with the last reference.      *)
(***************************************************************************)
EXTENDS Integers, Sequences, FiniteSets, FiniteSetsExt

CONSTANTS Commands,   \* 1 .. n, in the order they are started
          CheckCommands, \* how many commands a check runs
          Concurrent, \* commands that may be writing at once
          Calls,      \* bound on the tool calls of a session
          None

VARIABLES
  at,      \* where the session is
  call,    \* the tool call it is in
  calls,   \* how many it has made
  tools,   \* whether the tools, and the guard for a command, have the lock
  held,    \* the commands that hold a reference to it
  lock,    \* "free", "session" or "approval"
  cmd,     \* Commands |-> [alive, status, task, handle], or None
  joining, \* the command whose supervisor is being waited for
  check,   \* the pending check: [left, alive, failed], or None
  stop     \* the cancellation of the session

vars == <<at, call, calls, tools, held, lock, cmd, joining, check, stop>>

Writing == {"exec", "apply_patch", "check"}

Init ==
  /\ at = "idle" /\ call = None /\ calls = 0
  /\ tools = FALSE /\ held = {} /\ lock = "free"
  /\ cmd = [c \in Commands |-> None]
  /\ joining = None /\ check = None /\ stop = FALSE

Started == {c \in Commands : cmd[c] # None}

(* potentially_active_writers.                                             *)
Writers == {c \in Started : cmd[c].status \in {"running", "unknown"}}

(* The lock file goes with the last reference.                             *)
Keep(byTools, commands) ==
  /\ tools' = byTools /\ held' = commands
  /\ lock' = IF ~byTools /\ commands = {} /\ lock = "session" THEN "free" ELSE lock

(* release_workspace_if_quiet.                                             *)
ReleaseIfQuiet == IF check = None THEN Keep(FALSE, held) ELSE UNCHANGED <<tools, held, lock>>

Return == at' = "idle" /\ call' = None /\ ReleaseIfQuiet

-----------------------------------------------------------------------------
(* execute.                                                                *)

(* authorize_taskless_run_at: the run is found to be active and bound to    *)
(* this agent, role and directory, or it is not; HQ may have settled it.   *)
Bindings == {"active", "inactive"}

(* The host denies a call whose run is not; one that may write needs the    *)
(* lock.                                                                   *)
Execute(kind) ==
  /\ at = "idle" /\ ~stop /\ calls < Calls
  /\ calls' = calls + 1
  /\ \E run \in Bindings :
       IF run = "inactive" THEN UNCHANGED <<at, call>>
       ELSE /\ call' = kind
            /\ at' = IF kind \in Writing /\ ~tools THEN "acquire" ELSE "ready"
  /\ UNCHANGED <<tools, held, lock, cmd, joining, check, stop>>

(* The reference that a running command still holds, or the lock itself,   *)
(* for as long as it takes; a cancelled wait fails the call.               *)
Acquire ==
  /\ at = "acquire"
  /\ \/ /\ ~stop /\ (held # {} \/ lock = "free")
        /\ lock' = "session" /\ tools' = TRUE /\ UNCHANGED held
        /\ at' = "ready" /\ UNCHANGED call
     \/ /\ stop \/ held = {}
        /\ at' = "idle" /\ call' = None /\ UNCHANGED <<tools, held, lock>>
  /\ UNCHANGED <<calls, cmd, joining, check, stop>>

MutSpawned(c) == Keep(FALSE, held)

(* exec: the guard goes to the supervisor of the command.                  *)
Spawned(c) == Keep(FALSE, IF tools THEN held \cup {c} ELSE held)

Running == [alive |-> TRUE, status |-> "running", task |-> "on", handle |-> TRUE]

Exec ==
  /\ at = "ready" /\ call = "exec"
  /\ at' = "idle" /\ call' = None
  /\ IF Cardinality(Writers) >= Concurrent \/ Started = Commands
     THEN ReleaseIfQuiet /\ UNCHANGED cmd
     ELSE LET c == Min(Commands \ Started)
          IN Spawned(c) /\ cmd' = [cmd EXCEPT ![c] = Running]
  /\ UNCHANGED <<calls, joining, check, stop>>

ApplyPatch ==
  /\ at = "ready" /\ call = "apply_patch"
  /\ Return
  /\ UNCHANGED <<calls, cmd, joining, check, stop>>

(* The tools of commands that only look, and stop_process.                 *)
ReadProcess ==
  /\ at = "ready" /\ call = "read"
  /\ Return
  /\ UNCHANGED <<calls, cmd, joining, check, stop>>

StopProcess(c) ==
  /\ at = "ready" /\ call = "stop" /\ c \in Started
  /\ Return
  /\ cmd' = IF cmd[c].status = "running" THEN [cmd EXCEPT ![c].alive = FALSE] ELSE cmd
  /\ UNCHANGED <<calls, joining, check, stop>>

-----------------------------------------------------------------------------
(* quiesce, of a check and of the end of the session.                      *)

StopRunning ==
  [c \in Commands |-> IF c \in Started /\ cmd[c].status = "running"
                      THEN [cmd[c] EXCEPT !.alive = FALSE] ELSE cmd[c]]

Handles == {c \in Started : cmd[c].handle}

Quiesce(to) == at' = to /\ cmd' = StopRunning

Join(here) ==
  /\ at = here /\ joining = None /\ Handles # {}
  /\ joining' = Min(Handles)
  /\ cmd' = [cmd EXCEPT ![joining'].handle = FALSE]
  /\ UNCHANGED <<at, call, calls, tools, held, lock, check, stop>>

(* The supervisor is done, or is aborted when the grace period is over.    *)
Joined ==
  /\ joining # None
  /\ cmd' = IF cmd[joining].task = "on" THEN [cmd EXCEPT ![joining].task = "aborted"] ELSE cmd
  /\ joining' = None
  /\ UNCHANGED <<at, call, calls, tools, held, lock, check, stop>>

AllJoined(here) == at = here /\ joining = None /\ Handles = {}

-----------------------------------------------------------------------------
(* check.                                                                  *)

StartCheck ==
  /\ at = "ready" /\ call = "check"
  /\ Quiesce("quiesce")
  /\ UNCHANGED <<call, calls, tools, held, lock, joining, check, stop>>

(* Writers that could not be stopped refuse the check.                     *)
QuiesceFails ==
  /\ AllJoined("quiesce") /\ Writers # {}
  /\ Return
  /\ UNCHANGED <<calls, cmd, joining, check, stop>>

SpawnCheck ==
  /\ AllJoined("quiesce") /\ Writers = {}
  /\ at' = "check"
  /\ check' = [left |-> CheckCommands, alive |-> FALSE, over |-> FALSE]
  /\ UNCHANGED <<call, calls, tools, held, lock, cmd, joining, stop>>

(* checks::run, in a task of its own: one command after the other.         *)
CheckSpawns ==
  /\ check # None /\ ~check.alive /\ ~check.over /\ check.left > 0 /\ ~stop
  /\ check' = [check EXCEPT !.alive = TRUE, !.left = @ - 1]
  /\ UNCHANGED <<at, call, calls, tools, held, lock, cmd, joining, stop>>

(* The command exits, or is interrupted or writes too much and is stopped; *)
(* it has been reaped either way.                                          *)
CheckExits ==
  /\ check # None /\ check.alive
  /\ \E failed \in BOOLEAN :
       check' = [check EXCEPT !.alive = FALSE, !.over = failed \/ stop]
  /\ UNCHANGED <<at, call, calls, tools, held, lock, cmd, joining, stop>>

CheckOver == check # None /\ ~check.alive /\ (check.over \/ check.left = 0 \/ stop)

CheckReturns ==
  /\ at = "check" /\ CheckOver
  /\ check' = None
  /\ at' = "idle" /\ call' = None /\ Keep(FALSE, held)
  /\ UNCHANGED <<calls, cmd, joining, stop>>

-----------------------------------------------------------------------------
(* The supervisors of the commands.                                        *)

ProcessExits(c) ==
  /\ c \in Started /\ cmd[c].alive
  /\ cmd' = [cmd EXCEPT ![c].alive = FALSE]
  /\ UNCHANGED <<at, call, calls, tools, held, lock, joining, check, stop>>

(* The end of a command, or that it is not known to have stopped.          *)
Settle(c) ==
  /\ c \in Started /\ cmd[c].task = "on" /\ cmd[c].status = "running"
  /\ \/ ~cmd[c].alive /\ cmd' = [cmd EXCEPT ![c].status = "exited"]
     \/ cmd' = [cmd EXCEPT ![c].status = "unknown", ![c].task = "done"]
  /\ UNCHANGED <<at, call, calls, tools, held, lock, joining, check, stop>>

(* held.take(): only of a command that is known to have stopped.           *)
DropGuard(c) ==
  /\ c \in Started /\ cmd[c].task = "on" /\ cmd[c].status = "exited"
  /\ cmd' = [cmd EXCEPT ![c].task = "done"]
  /\ Keep(tools, held \ {c})
  /\ UNCHANGED <<at, call, calls, joining, check, stop>>

-----------------------------------------------------------------------------
(* The end.                                                                *)

Cancel ==
  /\ ~stop /\ at # "gone"
  /\ stop' = TRUE
  /\ UNCHANGED <<at, call, calls, tools, held, lock, cmd, joining, check>>

(* The call is dropped where it waits; a supervisor that is being waited   *)
(* for goes on by itself.                                                  *)
Interrupt ==
  /\ stop /\ at \in {"quiesce", "check"}
  /\ at' = "unwinding" /\ joining' = None
  /\ UNCHANGED <<call, calls, tools, held, lock, cmd, check, stop>>

(* interrupted: the pending check is joined.                               *)
Interrupted ==
  /\ at = "unwinding" /\ (check = None \/ CheckOver)
  /\ check' = None
  /\ at' = "idle" /\ call' = None
  /\ UNCHANGED <<calls, tools, held, lock, cmd, joining, stop>>

(* shutdown, from between two calls.                                       *)
Shutdown ==
  /\ at = "idle" /\ (stop \/ calls = Calls)
  /\ stop' = TRUE
  /\ Quiesce("closing")
  /\ UNCHANGED <<call, calls, tools, held, lock, joining, check>>

Closed ==
  /\ AllJoined("closing")
  /\ at' = "ended"
  /\ IF Writers = {} THEN Keep(FALSE, held) ELSE UNCHANGED <<tools, held, lock>>
  /\ UNCHANGED <<call, calls, cmd, joining, check, stop>>

(* The tools are dropped: the commands are stopped, then the guards go.    *)
DropTools ==
  /\ at = "ended"
  /\ at' = "gone"
  /\ cmd' = [c \in Commands |-> IF c \in Started THEN [cmd[c] EXCEPT !.alive = FALSE] ELSE None]
  /\ Keep(FALSE, {})
  /\ UNCHANGED <<call, calls, joining, check, stop>>

-----------------------------------------------------------------------------
(* An approval of another process.                                         *)

Approve ==
  /\ \/ lock = "free" /\ lock' = "approval"
     \/ lock = "approval" /\ lock' = "free"
  /\ UNCHANGED <<at, call, calls, tools, held, cmd, joining, check, stop>>

Next ==
  \/ \E kind \in Writing \cup {"read", "stop"} : Execute(kind)
  \/ Acquire \/ Exec \/ ApplyPatch \/ ReadProcess \/ StartCheck \/ QuiesceFails \/ SpawnCheck
  \/ CheckSpawns \/ CheckExits \/ CheckReturns
  \/ \E c \in Commands : StopProcess(c) \/ ProcessExits(c) \/ Settle(c) \/ DropGuard(c)
  \/ Join("quiesce") \/ Join("closing") \/ Joined
  \/ Cancel \/ Interrupt \/ Interrupted \/ Shutdown \/ Closed \/ DropTools
  \/ Approve

Spec == Init /\ [][Next]_vars

-----------------------------------------------------------------------------

(* Nothing that the session started writes in the project while an approval *)
(* integrates there: a command whose answer came long ago, a check that was *)
(* cancelled, a process that could not be stopped.  And the session does    *)
(* not sit on the lock: between two calls it has it only for commands that  *)
(* are not known to have stopped.                                          *)
WritersHoldLock ==
  /\ (\/ \E c \in Started : cmd[c].alive
      \/ check # None /\ check.alive
      \/ at = "ready" /\ call = "apply_patch") => lock = "session"
  /\ (lock = "session") <=> (tools \/ held # {})
  /\ (at = "idle" /\ ~stop) => ~tools /\ \A c \in held : cmd[c].task # "done" \/ cmd[c].status = "unknown"
=============================================================================
