---------------------------- MODULE ApprovalLock ----------------------------
(***************************************************************************)
(* The lock around integrations into the canonical checkout                *)
(* (src/src/server/tools/approve/lock.rs).  It consists of a guard file    *)
(* and an owner file that are locked with flock, and of a marker file      *)
(* published by a hard link; locks die with their process, files do not.   *)
(* Calls of one process also share a registry of the owners it holds,      *)
(* because flock does not conflict with itself everywhere.                 *)
(***************************************************************************)
EXTENDS Naturals, FiniteSets

CONSTANTS Calls,       \* approvals and other canonical operations
          Processes,
          ProcessOf,   \* the process a call runs in
          MaxFaults    \* bounds crashes, errors and cancellations

ASSUME LockAssumption ==
  /\ ProcessOf \in [Calls -> Processes]
  /\ MaxFaults \in Nat

VARIABLES pc,
          guard,     \* the calls that hold .canonical-approval.lock.guard
          marker,    \* canonical-approval.lock exists
          ownerFile, \* .canonical-approval.lock.owner exists
          ownerLock, \* the calls that hold the lock of the file at that path
          registry,  \* CANONICAL_APPROVAL_OWNERS of each process is not empty
          faults

vars == <<pc, guard, marker, ownerFile, ownerLock, registry, faults>>

(* Stages of acquire_canonical_approval_lock_at, of the operation and of   *)
(* Drop, in that order; the first two and the last do not hold the guard.  *)
Stages == {"idle", "waiting", "guarded", "linked", "owned", "critical",
           "unmarked", "unregistered", "unlocked", "stale", "cleaning"}

Init ==
  /\ pc = [c \in Calls |-> "idle"] /\ guard = {}
  /\ marker = FALSE /\ ownerFile = FALSE /\ ownerLock = {}
  /\ registry = {} /\ faults = 0

Go(c, from, to) == pc[c] = from /\ pc' = [pc EXCEPT ![c] = to]

Fault == faults < MaxFaults /\ faults' = faults + 1

Request(c) ==
  /\ Go(c, "idle", "waiting")
  /\ UNCHANGED <<guard, marker, ownerFile, ownerLock, registry, faults>>

MutTakeGuard(c) ==
  /\ Go(c, "waiting", "guarded")
  /\ guard' = guard \cup {c}
  /\ UNCHANGED <<marker, ownerFile, ownerLock, registry, faults>>

(* acquire_canonical_approval_lock_guard: try_lock_exclusive succeeds.     *)
TakeGuard(c) ==
  /\ Go(c, "waiting", "guarded")
  /\ guard = {} /\ guard' = {c}
  /\ UNCHANGED <<marker, ownerFile, ownerLock, registry, faults>>

(* The guard goes with the lock value, or is dropped at the end of a turn  *)
(* of the loop.                                                            *)
Release(c) == guard' = guard \ {c}

(* try_create_canonical_approval_lock: hard_link.                          *)
Publish(c) ==
  /\ Go(c, "guarded", "linked")
  /\ ~marker /\ marker' = TRUE
  /\ UNCHANGED <<guard, ownerFile, ownerLock, registry, faults>>

(* ... the owner file is opened and locked; lock_exclusive would wait.     *)
LockOwner(c) ==
  /\ Go(c, "linked", "owned")
  /\ ownerLock = {} /\ ownerLock' = {c} /\ ownerFile' = TRUE
  /\ UNCHANGED <<guard, marker, registry, faults>>

(* ... or cannot be.                                                       *)
OwnerFails(c) ==
  /\ Go(c, "linked", "idle") /\ Release(c)
  /\ marker' = FALSE /\ ownerFile' = FALSE /\ ownerLock' = {} /\ Fault
  /\ UNCHANGED registry

Register(c) ==
  /\ Go(c, "owned", "critical")
  /\ registry' = registry \cup {ProcessOf[c]}
  /\ UNCHANGED <<guard, marker, ownerFile, ownerLock, faults>>

-----------------------------------------------------------------------------
(* remove_stale_canonical_approval_lock.                                   *)

MutOwnerAlive(c) == ownerFile

OwnerAlive(c) == ProcessOf[c] \in registry \/ (ownerFile /\ ownerLock # {})

(* A live owner is left alone and the guard released; the files of a dead  *)
(* one are removed under the guard.                                        *)
Inspect(c) ==
  /\ pc[c] = "guarded" /\ marker
  /\ pc' = [pc EXCEPT ![c] = IF OwnerAlive(c) THEN "waiting" ELSE "stale"]
  /\ guard' = IF OwnerAlive(c) THEN guard \ {c} ELSE guard
  /\ UNCHANGED <<marker, ownerFile, ownerLock, registry, faults>>

MutRemoveMarker(c) ==
  /\ Go(c, "stale", "cleaning") /\ Release(c)
  /\ marker' = FALSE
  /\ UNCHANGED <<ownerFile, ownerLock, registry, faults>>

RemoveMarker(c) ==
  /\ Go(c, "stale", "cleaning")
  /\ marker' = FALSE
  /\ UNCHANGED <<guard, ownerFile, ownerLock, registry, faults>>

(* The lock of a file that is removed no longer excludes anybody.          *)
RemoveOwner(c) ==
  /\ Go(c, "cleaning", "waiting") /\ Release(c)
  /\ ownerFile' = FALSE /\ ownerLock' = {}
  /\ UNCHANGED <<marker, registry, faults>>

(* An I/O error, or the caller drops the future at an await.               *)
GiveUp(c) ==
  /\ pc[c] \in {"waiting", "guarded", "stale", "cleaning"}
  /\ pc' = [pc EXCEPT ![c] = "idle"] /\ Release(c) /\ Fault
  /\ UNCHANGED <<marker, ownerFile, ownerLock, registry>>

-----------------------------------------------------------------------------
(* Drop of CanonicalApprovalLock; its field _guard is dropped last.        *)

MutFinish(c) ==
  /\ Go(c, "critical", "unmarked") /\ Release(c)
  /\ marker' = FALSE
  /\ UNCHANGED <<ownerFile, ownerLock, registry, faults>>

Finish(c) ==
  /\ Go(c, "critical", "unmarked")
  /\ marker' = FALSE
  /\ UNCHANGED <<guard, ownerFile, ownerLock, registry, faults>>

MutUnregister(c) ==
  /\ Go(c, "unmarked", "unregistered")
  /\ UNCHANGED <<guard, marker, ownerFile, ownerLock, registry, faults>>

Unregister(c) ==
  /\ Go(c, "unmarked", "unregistered")
  /\ registry' = registry \ {ProcessOf[c]}
  /\ UNCHANGED <<guard, marker, ownerFile, ownerLock, faults>>

UnlockOwner(c) ==
  /\ Go(c, "unregistered", "unlocked")
  /\ ownerLock' = ownerLock \ {c}
  /\ UNCHANGED <<guard, marker, ownerFile, registry, faults>>

Dropped(c) ==
  /\ Go(c, "unlocked", "idle") /\ Release(c)
  /\ ownerFile' = FALSE /\ ownerLock' = {}
  /\ UNCHANGED <<marker, registry, faults>>

(* A process dies: its locks and its memory go, the files stay.            *)
Crash(p) ==
  LET dead == {c \in Calls : ProcessOf[c] = p}
  IN  /\ Fault
      /\ pc' = [c \in Calls |-> IF c \in dead THEN "idle" ELSE pc[c]]
      /\ guard' = guard \ dead /\ ownerLock' = ownerLock \ dead
      /\ registry' = registry \ {p}
      /\ UNCHANGED <<marker, ownerFile>>

Advance(c) ==
  \/ TakeGuard(c) \/ Publish(c) \/ LockOwner(c) \/ Register(c)
  \/ Inspect(c) \/ RemoveMarker(c) \/ RemoveOwner(c)
  \/ Finish(c) \/ Unregister(c) \/ UnlockOwner(c) \/ Dropped(c)

Step(c) == Request(c) \/ Advance(c) \/ OwnerFails(c) \/ GiveUp(c)

Next == (\E c \in Calls : Step(c)) \/ (\E p \in Processes : Crash(p))

Spec == Init /\ [][Next]_vars

(* Every call is scheduled.  Which waiting call wins the guard is up to    *)
(* the polling, so no call has a right to it.                              *)
Fairness == \A c \in Calls : WF_vars(Advance(c))

FairSpec == Spec /\ Fairness

-----------------------------------------------------------------------------
(* Properties.                                                             *)

TypeOK ==
  /\ pc \in [Calls -> Stages]
  /\ guard \subseteq Calls /\ ownerLock \subseteq Calls
  /\ marker \in BOOLEAN /\ ownerFile \in BOOLEAN
  /\ registry \subseteq Processes /\ faults \in Nat

(* Two integrations never run at once, whoever crashed before and whatever *)
(* files are left (approve holds the lock from the merge to the status).   *)
MutualExclusion ==
  \A c, d \in Calls : pc[c] = "critical" /\ pc[d] = "critical" => c = d

(* "competing recoveries cannot unlink a newly acquired approval lock"     *)
(* (lock.rs): while a call is integrating its marker and its locked owner  *)
(* file are there.                                                         *)
LockIsVisible ==
  \A c \in Calls : pc[c] = "critical" =>
    marker /\ ownerFile /\ ownerLock = {c} /\ ProcessOf[c] \in registry

(* lock_exclusive on the owner file is a blocking call on an async thread: *)
(* whoever comes to it finds the file unlocked.                            *)
OwnerLockNeverBlocks == \A c \in Calls : pc[c] = "linked" => ownerLock = {}

(* A registry entry never outlives the operation it stands for; one that   *)
(* did would turn every later call of its process away.                    *)
RegistryAccurate ==
  registry = {ProcessOf[c] : c \in {d \in Calls : pc[d] \in {"critical", "unmarked"}}}

(* What crashed calls leave never stops the others: while calls wait,      *)
(* some call gets to integrate, unless all give up.                        *)
SomeoneEnters ==
  (\E c \in Calls : pc[c] = "waiting")
    ~> (\E c \in Calls : pc[c] = "critical") \/ (\A c \in Calls : pc[c] = "idle")
=============================================================================
