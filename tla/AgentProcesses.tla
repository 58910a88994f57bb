---------------------------- MODULE AgentProcesses ----------------------------
(***************************************************************************)
(* HQ starting and stopping agents (src/src/hq/agent_manager.rs, with the   *)
(* run rows of src/src/project/runs.rs and the agent registry of            *)
(* src/src/state/agents.rs).                                               *)
(*                                                                         *)
(* A launch is one call of spawn_headless and, once it has succeeded, the   *)
(* handle, the wait thread and the exit task it leaves behind.  Launches    *)
(* are numbered, and the number stands for the run id and for the pid of   *)
(* the child.  Each HQ process launches one agent at a time, while the      *)
(* tasks of earlier launches go on; several HQ processes may share the     *)
(* project.  agents.json and its temporary file are names of inodes, since *)
(* every writer goes through the same temporary name.                      *)
(***************************************************************************)
EXTENDS Integers, FiniteSets, FiniteSetsExt

CONSTANTS Launches, Hqs, Names, Inodes,
          Programs,     \* [git, hqs, faults, crashes, stops, of : launches -> launch]
          Empty, Mixed, \* a file just truncated, and two writes on top of each other
          None

(* What is launched.  refuses: the evaluation cannot be captured or the    *)
(* program cannot be started.  A managed executor has a task ...           *)
HeadlessExecutor(h, n, native) ==
  [hq |-> h, name |-> n, role |-> "executor", native |-> native, task |-> TRUE, refuses |-> FALSE]

(* ... which a session that a person opens need not have.                  *)
NativeInteractiveExecutor(h, n, task) ==
  [HeadlessExecutor(h, n, TRUE) EXCEPT !.task = task]

HeadlessSupervisor(h, n, native) ==
  [HeadlessExecutor(h, n, native) EXCEPT !.role = "supervisor"]

Writers == Launches \cup Hqs

VARIABLES
  program,
  launch,   \* launch |-> [pc, child, reserved, recorded]
  runs,     \* launch |-> the row of runs, or None
  hq,       \* HQ |-> "starting", "idle", "launching", "stopping" or "dead"
  io,       \* writer |-> where it is in updating the registry
  inode,    \* inode |-> what it holds
  names,    \* [json, tmp] |-> inode or None
  faults, crashes, stops

vars == <<program, launch, runs, hq, io, inode, names, faults, crashes, stops>>

Of(l) == program.of[l]

Idle == [at |-> "idle", kind |-> None, fd |-> None, registry |-> None]

NoEntries == [n \in Names |-> None]

Init ==
  /\ program \in Programs
  /\ launch = [l \in Launches |->
                 [pc |-> IF l \in DOMAIN program.of THEN "waiting" ELSE "failed",
                  child |-> "none", reserved |-> FALSE, recorded |-> FALSE]]
  /\ runs = [l \in Launches |-> None]
  /\ hq = [h \in Hqs |-> IF h \in program.hqs THEN "starting" ELSE "dead"]
  /\ io = [w \in Writers |-> Idle]
  /\ inode = [i \in Inodes |-> Empty]
  /\ names = [json |-> None, tmp |-> None]
  /\ faults = program.faults /\ crashes = program.crashes /\ stops = program.stops

-----------------------------------------------------------------------------
(* Processes.                                                              *)

(* kill(pid, 0) finds a child that has exited and was not waited for.       *)
ChildPresent(l) == launch[l].child \notin {"none", "gone"}

(* process_is_alive of the pid of a run: the HQ that reserved it, or the    *)
(* child.                                                                  *)
PidIsAlive(l) ==
  \/ runs[l].pid = "hq" /\ hq[Of(l).hq] # "dead"
  \/ runs[l].pid = "child" /\ ChildPresent(l)

At(l, pc) == launch[l].pc = pc

Set(l, pc) == launch' = [launch EXCEPT ![l] = [@ EXCEPT !.pc = pc]]

SetChild(l, pc, child) ==
  launch' = [launch EXCEPT ![l] = [@ EXCEPT !.pc = pc, !.child = child]]

Live(l) == l \in DOMAIN program.of /\ hq[Of(l).hq] # "dead"

Files == <<io, inode, names>>

Budgets == <<faults, crashes, stops>>

(* A call to the database or the log that fails.                           *)
Fails == faults > 0 /\ faults' = faults - 1 /\ UNCHANGED <<crashes, stops>>

-----------------------------------------------------------------------------
(* The run rows.                                                           *)

(* The executor works in the project directory itself: in a project without *)
(* Git every executor does, otherwise a direct native session only.        *)
Canonical(l) == Of(l).role = "executor" /\ (~program.git \/ (Of(l).native /\ ~Of(l).task))

(* When spawn_headless asks for a reservation.                             *)
Reserves(l) == Canonical(l) /\ (Of(l).native \/ Of(l).task)

SharedWorkspace(l) == Of(l).task \/ ~program.git

Rows == {l \in Launches : runs[l] # None}

MutOccupied(l) ==
  \E m \in Rows : /\ Of(m).role = "executor" /\ runs[m].status = "running"
                  /\ SharedWorkspace(l) \/ ~Of(m).task
                  /\ runs[m].pid = "child" /\ PidIsAlive(m)

(* The query of reserve_executor_session_at.                               *)
Occupied(l) ==
  \E m \in Rows : /\ Of(m).role = "executor" /\ runs[m].status = "running"
                  /\ SharedWorkspace(l) \/ ~Of(m).task
                  /\ PidIsAlive(m)

Row(status, pid) == [status |-> status, pid |-> pid]

(* record_run_finished and the drop of a reservation.                      *)
Settled(l) == [runs EXCEPT ![l] = Row("settled", None)]

-----------------------------------------------------------------------------
(* agents.json: read_agents, an update, write_agents.                      *)

Readable == names.json = None \/ inode[names.json] \notin {Empty, Mixed}

Registry == IF names.json = None THEN NoEntries ELSE inode[names.json]

(* reconcile_agent_pids: entries of processes that are not there.          *)
Reconciled(registry) ==
  [n \in Names |-> IF registry[n] # None /\ ChildPresent(registry[n]) THEN registry[n] ELSE None]

(* What each caller makes of the registry it has read.                     *)
Update(w, kind, registry) ==
  CASE kind = "register" -> [registry EXCEPT ![Of(w).name] = w]
    [] kind = "unregister" -> [registry EXCEPT ![Of(w).name] = IF @ = w THEN None ELSE @]
    [] kind = "suspend" -> [registry EXCEPT ![Of(w).name] = None]
    [] kind = "stop" -> NoEntries
    [] kind = "reconcile" -> Reconciled(registry)

(* The setup failure and the start of HQ only write what they changed.     *)
WritesAlways(kind) == kind \in {"register", "suspend", "stop"}

Begin(w, kind) == io' = [io EXCEPT ![w] = [Idle EXCEPT !.at = "read", !.kind = kind]]

Finish(w, result) == io' = [io EXCEPT ![w] = [Idle EXCEPT !.at = result]]

WriterLives(w) == IF w \in Hqs THEN hq[w] # "dead" ELSE Live(w)

ReadAgents(w) ==
  /\ WriterLives(w) /\ io[w].at = "read"
  /\ IF ~Readable THEN Finish(w, "failed")
     ELSE LET updated == Update(w, io[w].kind, Registry)
          IN IF updated = Registry /\ ~WritesAlways(io[w].kind) THEN Finish(w, "ok")
             ELSE io' = [io EXCEPT ![w] = [@ EXCEPT !.at = "open", !.registry = updated]]
  /\ UNCHANGED <<program, launch, runs, hq, inode, names, faults, crashes, stops>>

InUse == {names.json, names.tmp} \cup {io[w].fd : w \in Writers}

(* write_agents: create or truncate the temporary file, ...                *)
OpenTmp(w) ==
  /\ WriterLives(w) /\ io[w].at = "open"
  /\ \E i \in {IF names.tmp # None THEN names.tmp ELSE Min(Inodes \ InUse)} :
       /\ names' = [names EXCEPT !.tmp = i]
       /\ inode' = [inode EXCEPT ![i] = Empty]
       /\ io' = [io EXCEPT ![w] = [@ EXCEPT !.at = "fill", !.fd = i]]
  /\ UNCHANGED <<program, launch, runs, hq, faults, crashes, stops>>

(* ... write it from its start, whatever name the file has by then and     *)
(* whoever wrote to it since (a shorter text leaves the end of a longer    *)
(* one), ...                                                               *)
FillTmp(w) ==
  /\ WriterLives(w) /\ io[w].at = "fill"
  /\ LET old == inode[io[w].fd]
         new == io[w].registry
     IN \E text \in IF old \in {Empty, new} THEN {new} ELSE {new, Mixed} :
          inode' = [inode EXCEPT ![io[w].fd] = text]
  /\ io' = [io EXCEPT ![w] = [@ EXCEPT !.at = "rename", !.fd = None]]
  /\ UNCHANGED <<program, launch, runs, hq, names, faults, crashes, stops>>

(* ... and rename whatever has the temporary name now.                     *)
RenameTmp(w) ==
  /\ WriterLives(w) /\ io[w].at = "rename"
  /\ IF names.tmp = None THEN Finish(w, "failed") /\ UNCHANGED names
     ELSE Finish(w, "ok") /\ names' = [json |-> names.tmp, tmp |-> None]
  /\ inode' = [i \in Inodes |-> IF i \in InUse' THEN inode[i] ELSE Empty]
  /\ UNCHANGED <<program, launch, runs, hq, faults, crashes, stops>>

Updated(w) == io[w].at \in {"ok", "failed"}

-----------------------------------------------------------------------------
(* A launch.                                                               *)

(* prepare_headless_slot has found no live agent of that name; then the     *)
(* reservation, or its refusal.                                            *)
Reserve(l) ==
  /\ Live(l) /\ At(l, "waiting") /\ hq[Of(l).hq] = "idle"
  /\ \A m \in DOMAIN program.of : Of(m).hq = Of(l).hq =>
       /\ m < l => ~At(m, "waiting")
       /\ Of(m).name = Of(l).name => ~At(m, "running")
  /\ IF Reserves(l) /\ Occupied(l)
     THEN Set(l, "failed") /\ UNCHANGED <<runs, hq>>
     ELSE /\ launch' = [launch EXCEPT ![l] = [@ EXCEPT !.pc = "spawn", !.reserved = Reserves(l)]]
          /\ runs' = IF Reserves(l) THEN [runs EXCEPT ![l] = Row("running", "hq")] ELSE runs
          /\ hq' = [hq EXCEPT ![Of(l).hq] = "launching"]
  /\ UNCHANGED <<program, io, inode, names, faults, crashes, stops>>

(* A native agent waits for the start command, an external one is at work  *)
(* at once.                                                                *)
Spawn(l) ==
  /\ Live(l) /\ At(l, "spawn")
  /\ IF Of(l).refuses THEN Set(l, "release")
     ELSE SetChild(l, "record", IF Of(l).native THEN "listening" ELSE "working")
  /\ UNCHANGED <<program, runs, hq, io, inode, names, faults, crashes, stops>>

(* stream_prompt_to_stdin to a child that has gone.                        *)
PromptFails(l) ==
  /\ Live(l) /\ At(l, "record") /\ ~Of(l).native /\ launch[l].child = "zombie"
  /\ Set(l, "drop")
  /\ UNCHANGED <<program, runs, hq, io, inode, names, faults, crashes, stops>>

(* record_run_started: the row is the child's from here on.                *)
RecordStarted(l) ==
  /\ Live(l) /\ At(l, "record")
  /\ runs' = [runs EXCEPT ![l] = Row("running", "child")]
  /\ launch' = [launch EXCEPT ![l] = [@ EXCEPT !.pc = "attach", !.recorded = TRUE]]
  /\ UNCHANGED <<program, hq, io, inode, names, faults, crashes, stops>>

(* record_run_started_for_task_with_id_best_effort: the row could not be   *)
(* written, which some agents may go without.                              *)
StartUnrecorded(l) ==
  /\ Live(l) /\ At(l, "record") /\ Fails
  /\ Set(l, IF Of(l).native \/ launch[l].reserved THEN "drop" ELSE "attach")
  /\ UNCHANGED <<program, runs, hq, io, inode, names>>

(* The setup begins: the log and the threads that read the output.         *)
Attach(l) ==
  /\ Live(l) /\ At(l, "attach")
  /\ \/ /\ Set(l, IF Of(l).native THEN "handshake" ELSE "register")
        /\ IF Of(l).native THEN UNCHANGED io ELSE Begin(l, "register")
        /\ UNCHANGED Budgets
     \/ Fails /\ Set(l, "kill") /\ UNCHANGED io
  /\ UNCHANGED <<program, runs, hq, inode, names>>

(* spawn_native_log_reader: the child has said that it is ready.  The end   *)
(* of its output, and anything that is not the protocol, for which it is   *)
(* killed, drop the channel.                                               *)
SaysReady(l) == launch[l].child = "listening"

(* Ready, or the dropped channel or the timeout.                           *)
Handshake(l) ==
  /\ Live(l) /\ At(l, "handshake")
  /\ \/ SaysReady(l) /\ Set(l, "register") /\ Begin(l, "register")
     \/ Set(l, "kill") /\ UNCHANGED io
  /\ UNCHANGED <<program, runs, hq, inode, names, faults, crashes, stops>>

(* After the registry: the start command, and success.                     *)
Start(l) ==
  /\ Live(l) /\ At(l, "register") /\ Updated(l)
  /\ io' = [io EXCEPT ![l] = Idle]
  /\ IF io[l].at = "failed" \/ (Of(l).native /\ launch[l].child # "listening")
     THEN Set(l, "kill") /\ UNCHANGED hq
     ELSE /\ launch' = [launch EXCEPT ![l] =
               [@ EXCEPT !.pc = "running", !.reserved = FALSE,
                         !.child = IF @ = "listening" THEN "working" ELSE @]]
          /\ hq' = [hq EXCEPT ![Of(l).hq] = "idle"]
  /\ UNCHANGED <<program, runs, inode, names, faults, crashes, stops>>

MutKill(l) ==
  /\ Live(l) /\ At(l, "kill")
  /\ Set(l, "unregister")
  /\ Begin(l, "unregister")
  /\ UNCHANGED <<program, runs, hq, inode, names, faults, crashes, stops>>

(* The setup failed: SetupChild is dropped, which kills and waits; the     *)
(* entry goes if it is still this child's; the run is finished.            *)
Kill(l) ==
  /\ Live(l) /\ At(l, "kill")
  /\ SetChild(l, "unregister", "gone")
  /\ Begin(l, "unregister")
  /\ UNCHANGED <<program, runs, hq, inode, names, faults, crashes, stops>>

FinishFailed(l) ==
  /\ Live(l) /\ At(l, "unregister") /\ Updated(l)
  /\ io' = [io EXCEPT ![l] = Idle]
  /\ Set(l, "release")
  /\ \/ runs' = (IF launch[l].recorded THEN Settled(l) ELSE runs) /\ UNCHANGED Budgets
     \/ launch[l].recorded /\ Fails /\ UNCHANGED runs
  /\ UNCHANGED <<program, hq, inode, names>>

(* The early returns: the child goes before the reservation, which was     *)
(* made before it.                                                         *)
DropChild(l) ==
  /\ Live(l) /\ At(l, "drop")
  /\ SetChild(l, "release", "gone")
  /\ UNCHANGED <<program, runs, hq, io, inode, names, faults, crashes, stops>>

MutRelease(l) ==
  /\ Live(l) /\ At(l, "release")
  /\ launch' = [launch EXCEPT ![l] = [@ EXCEPT !.pc = "failed", !.reserved = FALSE]]
  /\ hq' = [hq EXCEPT ![Of(l).hq] = "idle"]
  /\ UNCHANGED <<program, runs, io, inode, names, faults, crashes, stops>>

(* Drop of ExecutorSessionReservation.                                     *)
Release(l) ==
  /\ Live(l) /\ At(l, "release")
  /\ launch' = [launch EXCEPT ![l] = [@ EXCEPT !.pc = "failed", !.reserved = FALSE]]
  /\ hq' = [hq EXCEPT ![Of(l).hq] = "idle"]
  /\ \/ runs' = (IF launch[l].reserved THEN Settled(l) ELSE runs) /\ UNCHANGED Budgets
     \/ launch[l].reserved /\ Fails /\ UNCHANGED runs
  /\ UNCHANGED <<program, io, inode, names>>

-----------------------------------------------------------------------------
(* A launched agent.                                                       *)

(* The child ends.  One whose HQ has died is reaped by init.               *)
ChildExits(l) ==
  /\ launch[l].child \in {"listening", "working"}
  /\ launch' = [launch EXCEPT ![l] = [@ EXCEPT !.child = IF Live(l) THEN "zombie" ELSE "gone"]]
  /\ UNCHANGED <<program, runs, hq, io, inode, names, faults, crashes, stops>>

(* The wait thread: the handle is not alive any more, and the exit task     *)
(* wakes up.                                                               *)
WaitThread(l) ==
  /\ Live(l) /\ At(l, "running") /\ launch[l].child = "zombie"
  /\ SetChild(l, "exited", "gone")
  /\ Begin(l, "suspend")
  /\ UNCHANGED <<program, runs, hq, inode, names, faults, crashes, stops>>

(* The exit task after its update of the registry.                         *)
ExitTask(l) ==
  /\ Live(l) /\ At(l, "exited") /\ Updated(l)
  /\ io' = [io EXCEPT ![l] = Idle]
  /\ Set(l, "done")
  /\ \/ runs' = (IF launch[l].recorded THEN Settled(l) ELSE runs) /\ UNCHANGED Budgets
     \/ launch[l].recorded /\ Fails /\ UNCHANGED runs
  /\ UNCHANGED <<program, hq, inode, names>>

(* terminate: cancel, then the signals to the process group, the last of   *)
(* which nothing survives.                                                 *)
Terminate(l) ==
  /\ Live(l) /\ At(l, "running") /\ launch[l].child = "working"
  /\ stops > 0 /\ hq[Of(l).hq] = "idle"
  /\ stops' = stops - 1
  /\ launch' = [launch EXCEPT ![l] = [@ EXCEPT !.child = "zombie"]]
  /\ UNCHANGED <<program, runs, hq, io, inode, names, faults, crashes>>

(* The start of HQ.                                                        *)
Reconcile(h) ==
  /\ hq[h] = "starting" /\ io[h].at = "idle"
  /\ Begin(h, "reconcile")
  /\ UNCHANGED <<program, launch, runs, hq, inode, names, faults, crashes, stops>>

(* /stop and /reset: every handle is shut down and joined, then the         *)
(* registry is cleared.                                                    *)
ShutdownAll(h) ==
  /\ hq[h] = "idle" /\ stops > 0
  /\ stops' = stops - 1
  /\ hq' = [hq EXCEPT ![h] = "stopping"]
  /\ launch' = [l \in Launches |->
       IF Live(l) /\ Of(l).hq = h /\ At(l, "running") /\ launch[l].child = "working"
       THEN [launch[l] EXCEPT !.child = "zombie"] ELSE launch[l]]
  /\ UNCHANGED <<program, runs, io, inode, names, faults, crashes>>

ClearRegistry(h) ==
  /\ hq[h] = "stopping" /\ io[h].at = "idle"
  /\ \A l \in DOMAIN program.of : Of(l).hq = h => ~At(l, "running")
  /\ Begin(h, "stop")
  /\ UNCHANGED <<program, launch, runs, hq, inode, names, faults, crashes, stops>>

Stopped(h) ==
  /\ hq[h] \in {"stopping", "starting"} /\ Updated(h)
  /\ io' = [io EXCEPT ![h] = Idle]
  /\ hq' = [hq EXCEPT ![h] = "idle"]
  /\ UNCHANGED <<program, launch, runs, inode, names, faults, crashes, stops>>

(* HQ dies: its threads, its tasks and its open files go with it.  The      *)
(* children get a signal on Linux and nothing elsewhere, and a native one   *)
(* sees the end of its commands; any of them may go on for a while.        *)
Crash(h) ==
  /\ h \in program.hqs /\ hq[h] # "dead" /\ crashes > 0
  /\ crashes' = crashes - 1
  /\ hq' = [hq EXCEPT ![h] = "dead"]
  /\ io' = [w \in Writers |->
       IF w = h \/ (w \in DOMAIN program.of /\ Of(w).hq = h) THEN Idle ELSE io[w]]
  /\ launch' = [l \in Launches |->
       IF l \in DOMAIN program.of /\ Of(l).hq = h /\ launch[l].child = "zombie"
       THEN [launch[l] EXCEPT !.child = "gone"] ELSE launch[l]]
  /\ UNCHANGED <<program, runs, inode, names, faults, stops>>

LaunchStep(l) ==
  \/ Reserve(l) \/ Spawn(l) \/ PromptFails(l) \/ RecordStarted(l) \/ StartUnrecorded(l)
  \/ Attach(l) \/ Handshake(l) \/ Start(l) \/ Kill(l) \/ FinishFailed(l) \/ DropChild(l) \/ Release(l)
  \/ WaitThread(l) \/ ExitTask(l)

WriterStep(w) == ReadAgents(w) \/ OpenTmp(w) \/ FillTmp(w) \/ RenameTmp(w)

Next ==
  \/ \E l \in DOMAIN program.of : LaunchStep(l) \/ ChildExits(l) \/ Terminate(l)
  \/ \E w \in Writers : WriterStep(w)
  \/ \E h \in Hqs : Reconcile(h) \/ ShutdownAll(h) \/ ClearRegistry(h) \/ Stopped(h) \/ Crash(h)

(* The tasks of HQ make progress while it lives.  Nothing says that an      *)
(* agent ever exits.                                                       *)
Fairness ==
  /\ \A l \in Launches : WF_vars(l \in DOMAIN program.of /\ LaunchStep(l))
  /\ \A w \in Writers : WF_vars(WriterStep(w))
  /\ \A h \in Hqs : WF_vars(ClearRegistry(h) \/ Stopped(h))

Spec == Init /\ [][Next]_vars /\ Fairness

-----------------------------------------------------------------------------

(* No child is left without an owner while its HQ lives ("Errors during     *)
(* setup must not leave a child running without a handle"): a child that is *)
(* there belongs to a launch in progress or to a handle, and a launch that  *)
(* gave up, at any of its steps, has none.                                 *)
NoStrayChild ==
  \A l \in DOMAIN program.of :
    Live(l) /\ ChildPresent(l) =>
      launch[l].pc \in
        {"record", "drop", "attach", "handshake", "register", "kill", "running"}

(* An agent that HQ lost before its pid was on record: only an external    *)
(* one can be at work by then.                                             *)
Unaccounted(l) == ~Live(l) /\ runs[l] # None /\ runs[l].pid = "hq"

Writing(l) == Canonical(l) /\ launch[l].child = "working"

(* The single writer of the project directory: at most one executor is at   *)
(* work in it, over all HQ processes, refused and failed launches, early   *)
(* exits and deaths of HQ, since the reservation passes from HQ to the      *)
(* child without a gap and outlives a failed launch's child.  The exception *)
(* is an external agent whose HQ died before it recorded the pid.          *)
OneCanonicalWriter ==
  \A l, m \in DOMAIN program.of :
    l # m /\ Writing(l) /\ Writing(m) => Unaccounted(l) \/ Unaccounted(m)

(* A run whose child has gone does not stay "running": while HQ lives and   *)
(* the database works, the exit task, the failed launch or the reservation *)
(* settles the row, so that the slot it holds is free again.               *)
RunSettled(l) ==
  \/ ~Live(l) \/ faults < program.faults
  \/ runs[l] = None \/ runs[l].status = "settled"
  \/ launch[l].child \in {"listening", "working"}

RunsSettle == \A l \in Launches : []<>RunSettled(l)

(* "Read and atomically replace the project-local agent session registry": *)
(* agents.json is there in full or not at all.                             *)
RegistryReadable == Readable
=============================================================================
