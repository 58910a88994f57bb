------------------------------ MODULE NanoCommands ------------------------------
(***************************************************************************)
(* The commands a Nano session starts, and their output on disk            *)
(* (src/src/nano/commands.rs, commands/output.rs, commands/backend.rs,     *)
(* effect_recovery.rs).                                                    *)
(*                                                                         *)
(* Every command has a process of the operating system (proc), an entry of *)
(* the session with the task that supervises it (entry), and files in the  *)
(* private directory of the session (spool) that outlive both.  Standard   *)
(* output and standard error are one stream here.  Output is counted in     *)
(* chunks, the unit a supervisor reads.                                    *)
(***************************************************************************)
EXTENDS Integers, FiniteSets, FiniteSetsExt

CONSTANTS Commands,      \* process ids, p1, p2, ... in the order of their attempts
          Concurrent, ProcessLimit, ProcessOutput, TotalOutput, StateBytes, \* Limits
          PipeCapacity,  \* chunks a pipe holds
          Absent         \* no process, entry or file

VARIABLES proc, entry, spool, charged, attempts, closed

commandVars == <<proc, entry, spool, charged, attempts, closed>>

Completions == {"running", "exited", "timed_out", "cancelled", "output_limit", "unknown"}

(* proc: alive, and what it has written and the supervisor has not read.   *)
Processes == [alive : BOOLEAN, pipe : 0 .. PipeCapacity, written : Nat]

(* entry: the published snapshot, whether its stop was asked for, and the  *)
(* supervisor: where it is, the snapshot it works on, and whether a        *)
(* capture was cut short.  guard is the host's workspace guard.            *)
EntryRecords == [status : Completions, bytes : Nat, complete : BOOLEAN, cancel : BOOLEAN,
             task : {"run", "cleanup", "done", "aborted"}, reason : Completions,
             captured : Nat, interrupted : BOOLEAN, guard : BOOLEAN]

(* spool: the state file, and the bytes of the output files.               *)
Spools == [state : Completions \cup {"none"}, stateBytes : Nat, complete : BOOLEAN, bytes : Nat]

CommandsTypeOK ==
  /\ proc \in [Commands -> Processes \cup {Absent}]
  /\ entry \in [Commands -> EntryRecords \cup {Absent}]
  /\ spool \in [Commands -> Spools \cup {Absent}]
  /\ charged \in Nat /\ attempts \in 0 .. ProcessLimit /\ closed \in BOOLEAN

CommandsInit ==
  /\ proc = [c \in Commands |-> Absent]
  /\ entry = [c \in Commands |-> Absent]
  /\ spool = [c \in Commands |-> Absent]
  /\ charged = 0 /\ attempts = 0 /\ closed = FALSE

Alive(c) == proc[c] # Absent /\ proc[c].alive

(* ProcessTree::stop: the process group is killed; its pipe keeps what was  *)
(* written.                                                                *)
Stopped(p) == [p EXCEPT !.alive = FALSE]

PotentiallyWriting(e) == e # Absent /\ e.status \in {"running", "unknown"}

(* potentially_active_writers.                                             *)
Writers == {c \in Commands : PotentiallyWriting(entry[c])}

(* reserve.                                                                *)
CanReserve(bytes) == charged + bytes <= TotalOutput

-----------------------------------------------------------------------------
(* exec.                                                                   *)

ExecRefused ==
  \/ closed
  \/ attempts >= ProcessLimit
  \/ Cardinality(Writers) >= Concurrent
  \/ ~CanReserve(StateBytes)

NextId == attempts + 1

(* output::prepare: the output files and the state file, in this order.    *)
(* partial is the end of the process before the state file is there.       *)
PrepareSpool(partial) ==
  /\ ~ExecRefused
  /\ charged' = charged + StateBytes
  /\ attempts' = NextId
  /\ spool' = [spool EXCEPT ![NextId] =
                 [state |-> IF partial THEN "none" ELSE "unknown", stateBytes |-> 0,
                  complete |-> FALSE, bytes |-> 0]]
  /\ UNCHANGED <<proc, entry, closed>>

(* spawn, and the supervisor of the process.                               *)
Spawn(c) ==
  /\ proc' = [proc EXCEPT ![c] = [alive |-> TRUE, pipe |-> 0, written |-> 0]]
  /\ entry' = [entry EXCEPT ![c] =
                 [status |-> "running", bytes |-> 0, complete |-> FALSE, cancel |-> FALSE,
                  task |-> "run", reason |-> "running", captured |-> 0,
                  interrupted |-> FALSE, guard |-> TRUE]]
  /\ UNCHANGED <<spool, charged, attempts, closed>>

-----------------------------------------------------------------------------
(* The process.                                                            *)

Emit(c) ==
  /\ Alive(c) /\ proc[c].pipe < PipeCapacity
  /\ proc' = [proc EXCEPT ![c].pipe = @ + 1, ![c].written = @ + 1]
  /\ UNCHANGED <<entry, spool, charged, attempts, closed>>

Exit(c) ==
  /\ Alive(c)
  /\ proc' = [proc EXCEPT ![c] = Stopped(@)]
  /\ UNCHANGED <<entry, spool, charged, attempts, closed>>

-----------------------------------------------------------------------------
(* supervise.                                                              *)

At(c, task) == entry[c] # Absent /\ entry[c].task = task

(* capture: as much of a chunk as the limits of the process and of the     *)
(* session leave room for.                                                 *)
Room(c) ==
  Min({Max({0, ProcessOutput - entry[c].captured}), Max({0, TotalOutput - charged}), 1})

(* A chunk is read, and n of what may be kept is written.                  *)
Written(c, n) ==
  /\ proc' = [proc EXCEPT ![c].pipe = @ - 1]
  /\ charged' = charged + Room(c)
  /\ spool' = [spool EXCEPT ![c].bytes = @ + n]

(* The loop leaves with a reason, and the tree is stopped.                 *)
Leave(c, reason, interrupted) ==
  entry' = [entry EXCEPT ![c].task = "cleanup", ![c].reason = reason,
                         ![c].interrupted = interrupted]

Capture(c) ==
  /\ At(c, "run") /\ proc[c].pipe > 0 /\ Room(c) = 1
  /\ Written(c, 1)
  /\ entry' = [entry EXCEPT ![c].captured = @ + 1, ![c].bytes = @ + 1]
  /\ UNCHANGED <<attempts, closed>>

CaptureOverflows(c) ==
  /\ At(c, "run") /\ proc[c].pipe > 0 /\ Room(c) = 0
  /\ Leave(c, "output_limit", FALSE)
  /\ proc' = [proc EXCEPT ![c] = [Stopped(@) EXCEPT !.pipe = @ - 1]]
  /\ UNCHANGED <<spool, charged, attempts, closed>>

(* The stop or the deadline wins against a capture that has reserved its   *)
(* room and may have written it.                                           *)
CaptureInterrupted(c, reason) ==
  /\ At(c, "run") /\ proc[c].pipe > 0
  /\ \E n \in 0 .. Room(c) :
       /\ charged' = charged + Room(c)
       /\ spool' = [spool EXCEPT ![c].bytes = @ + n]
  /\ Leave(c, reason, TRUE)
  /\ proc' = [proc EXCEPT ![c] = [Stopped(@) EXCEPT !.pipe = @ - 1]]
  /\ UNCHANGED <<attempts, closed>>

(* The loop ends between two reads: stopped, out of time, or exited.       *)
LoopEnds(c, reason) ==
  /\ At(c, "run")
  /\ reason = "exited" => ~Alive(c)
  /\ Leave(c, reason, FALSE)
  /\ proc' = [proc EXCEPT ![c] = Stopped(@)]
  /\ UNCHANGED <<spool, charged, attempts, closed>>

Draining(c) == ~entry[c].interrupted /\ entry[c].reason \notin {"output_limit", "unknown"}

(* The tail of the pipes after the process is gone.                        *)
Drain(c) ==
  /\ At(c, "cleanup") /\ Draining(c) /\ proc[c].pipe > 0
  /\ Written(c, Room(c))
  /\ entry' = IF Room(c) = 1 THEN [entry EXCEPT ![c].captured = @ + 1]
              ELSE [entry EXCEPT ![c].reason = "output_limit"]
  /\ UNCHANGED <<attempts, closed>>

Drained(c) == ~Draining(c) \/ proc[c].pipe = 0


OutputComplete(c) == Draining(c) /\ proc[c].pipe = 0

(* The last snapshot is sent and the task ends; the guard goes when the    *)
(* process is known to have stopped.                                       *)
Send(c, status, complete, bytes) ==
  entry' = [entry EXCEPT ![c] =
              [@ EXCEPT !.status = status, !.complete = complete, !.task = "done",
                        !.bytes = bytes, !.guard = status = "unknown"]]

(* finish: the state file holds the snapshot with the real lengths.        *)
Finish(c) ==
  /\ At(c, "cleanup") /\ Drained(c)
  /\ spool' = [spool EXCEPT ![c].state = entry[c].reason, ![c].complete = OutputComplete(c),
                            ![c].stateBytes = spool[c].bytes]
  /\ Send(c, entry[c].reason, OutputComplete(c), spool[c].bytes)
  /\ UNCHANGED <<proc, charged, attempts, closed>>

(* The cleanup takes too long or fails, before or after the state file was *)
(* written.                                                                *)
CleanupFails(c, written) ==
  /\ At(c, "cleanup") /\ (written => Drained(c))
  /\ spool' = IF written
              THEN [spool EXCEPT ![c].state = entry[c].reason, ![c].complete = OutputComplete(c),
                                 ![c].stateBytes = spool[c].bytes]
              ELSE spool
  /\ Send(c, "unknown", FALSE, entry[c].bytes)
  /\ UNCHANGED <<proc, charged, attempts, closed>>

-----------------------------------------------------------------------------
(* The other tools.                                                        *)

Stops(c) == entry[c] # Absent /\ entry[c].status = "running"

(* stop_process, and the first half of quiesce for every command.          *)
StopCommands(commands) ==
  LET stopped == {c \in commands : Stops(c)}
  IN /\ entry' = [c \in Commands |-> IF c \in stopped THEN [entry[c] EXCEPT !.cancel = TRUE]
                                     ELSE entry[c]]
     /\ proc' = [c \in Commands |-> IF c \in stopped THEN Stopped(proc[c]) ELSE proc[c]]
     /\ UNCHANGED <<spool, charged, attempts>>

(* The second half: the tasks that have not ended by the deadline are      *)
(* aborted, and no longer publish anything.                                *)
JoinCommands(late) ==
  /\ late \subseteq {c \in Commands : At(c, "run") \/ At(c, "cleanup")}
  /\ \A c \in Commands \ late : ~(At(c, "run") \/ At(c, "cleanup"))
  /\ entry' = [c \in Commands |-> IF c \in late THEN [entry[c] EXCEPT !.task = "aborted"]
                                  ELSE entry[c]]
  /\ proc' = [c \in Commands |-> IF c \in late THEN Stopped(proc[c]) ELSE proc[c]]
  /\ UNCHANGED <<spool, charged, attempts, closed>>

(* read_process: a command whose task is gone is not known to run.         *)
ProcessStatus(c) ==
  IF At(c, "aborted") /\ entry[c].status = "running" THEN "unknown" ELSE entry[c].status

(* page: a page of the output that is there.                               *)
Page(c, offset, max) ==
  LET next == offset + Min({entry[c].bytes - offset, max})
  IN [next |-> next, complete |-> entry[c].complete /\ next = entry[c].bytes,
      truncated |-> next < entry[c].bytes \/ ~entry[c].complete]

-----------------------------------------------------------------------------
(* The end of the session process: everything it kept in memory is gone,   *)
(* and the process groups of its commands are not.                         *)
CommandsCrash ==
  /\ entry' = [c \in Commands |-> Absent]
  /\ charged' = 0 /\ closed' = FALSE
  /\ UNCHANGED <<proc, spool, attempts>>

MutSettled(c) == spool[c].state # "none" /\ spool[c].stateBytes <= spool[c].bytes

(* unresolved_commands: whether a command of an earlier session may still  *)
(* have effects, from its files alone.                                     *)
Settled(c) ==
  /\ spool[c].state \in {"exited", "cancelled", "timed_out"}
  /\ spool[c].complete
  /\ spool[c].stateBytes = spool[c].bytes

Unresolved(expected) ==
  LET present == {c \in Commands : spool[c] # Absent}
  IN ~(expected \subseteq present) \/ \E c \in present : ~Settled(c)

-----------------------------------------------------------------------------
(* The output kept on disk never exceeds what the session was charged,     *)
(* which never exceeds its allowance, however its supervisors interleave,  *)
(* and no command keeps more than its own share.  An output that is said   *)
(* to be complete is everything the process wrote.                         *)
SpoolsBounded ==
  LET running == {c \in Commands : entry[c] # Absent}
  IN /\ charged <= TotalOutput
     /\ running # {} =>
          MapThenSumSet(LAMBDA c : spool[c].bytes + StateBytes, running) <= charged
     /\ \A c \in running : spool[c].bytes <= ProcessOutput
     /\ \A c \in Commands : spool[c] # Absent /\ spool[c].complete
                              => spool[c].bytes = proc[c].written
=============================================================================
