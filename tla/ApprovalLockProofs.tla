------------------------- MODULE ApprovalLockProofs -------------------------
(***************************************************************************)
(* ApprovalLock for any number of calls, processes and failures.           *)
(*                                                                         *)
(* The argument: a call holds the guard exactly in the stages between      *)
(* taking it and its last act, so at most one call is in any of them; all  *)
(* files and the registry are only touched in these stages, and therefore  *)
(* say where that one call is, or what a dead one left.                    *)
(***************************************************************************)
EXTENDS ApprovalLock, TLAPS

(* Stages in which a call holds the guard, the owner lock, a registration. *)
Guarded    == Stages \ {"idle", "waiting"}
Owning     == {"owned", "critical", "unmarked", "unregistered"}
Registered == {"critical", "unmarked"}

OneGuarded == \A c, d \in Calls : pc[c] \in Guarded /\ pc[d] \in Guarded => c = d

GuardHeld == \A c \in Calls : c \in guard <=> pc[c] \in Guarded

OwnerHeld == /\ \A c \in Calls : c \in ownerLock <=> pc[c] \in Owning
             /\ \A c \in Calls : pc[c] \in Owning => ownerFile

Marked == \A c \in Calls : pc[c] \in {"linked", "owned", "critical"} => marker

RegistryHeld ==
  \A p \in Processes :
    p \in registry <=> \E c \in Calls : ProcessOf[c] = p /\ pc[c] \in Registered

(* The inductive invariant.                                                *)
LockInv == TypeOK /\ OneGuarded /\ GuardHeld /\ OwnerHeld /\ Marked /\ RegistryHeld

USE DEF Stages, Guarded, Owning, Registered

(* No call, lock or file at the start.                                     *)
LEMMA InitLock == Init => LockInv
PROOF
  <1> SUFFICES ASSUME Init PROVE LockInv
    OBVIOUS
  <1>1. TypeOK
    BY LockAssumption DEF Init, TypeOK
  <1>2. \A c \in Calls : pc[c] = "idle"
    BY DEF Init
  <1>3. OneGuarded /\ GuardHeld /\ OwnerHeld /\ Marked
    BY <1>2 DEF Init, OneGuarded, GuardHeld, OwnerHeld, Marked
  <1>4. RegistryHeld
    BY <1>2 DEF Init, RegistryHeld
  <1> QED BY <1>1, <1>3, <1>4 DEF LockInv

(* The way to the lock: guard, hard link, and the look at what an earlier  *)
(* owner left (acquire_canonical_approval_lock_at).                        *)
LEMMA AcquireKeeps ==
  ASSUME LockInv, NEW c \in Calls,
         Request(c) \/ TakeGuard(c) \/ Publish(c) \/ Inspect(c) \/ RemoveMarker(c)
  PROVE  LockInv'
PROOF
  <1> USE LockAssumption
  <1>1. CASE Request(c)
    BY <1>1 DEF Request, Go, LockInv, TypeOK, OneGuarded, GuardHeld, OwnerHeld, Marked, RegistryHeld
  <1>2. CASE TakeGuard(c)
    BY <1>2 DEF TakeGuard, Go, LockInv, TypeOK, OneGuarded, GuardHeld, OwnerHeld, Marked, RegistryHeld
  <1>3. CASE Publish(c)
    BY <1>3 DEF Publish, Go, LockInv, TypeOK, OneGuarded, GuardHeld, OwnerHeld, Marked, RegistryHeld
  <1>4. CASE Inspect(c)
    BY <1>4 DEF Inspect, OwnerAlive, LockInv, TypeOK, OneGuarded, GuardHeld, OwnerHeld, Marked, RegistryHeld
  <1>5. CASE RemoveMarker(c)
    <2>1. TypeOK'
      BY <1>5 DEF RemoveMarker, Go, LockInv, TypeOK
    <2>2. OneGuarded'
      BY <1>5 DEF RemoveMarker, Go, LockInv, TypeOK, OneGuarded
    <2>3. GuardHeld'
      BY <1>5 DEF RemoveMarker, Go, LockInv, TypeOK, OneGuarded, GuardHeld
    <2>4. OwnerHeld'
      BY <1>5 DEF RemoveMarker, Go, LockInv, TypeOK, OneGuarded, OwnerHeld
    <2>5. Marked'
      BY <1>5 DEF RemoveMarker, Go, LockInv, TypeOK, OneGuarded, Marked
    <2>6. RegistryHeld'
      BY <1>5 DEF RemoveMarker, Go, LockInv, TypeOK, OneGuarded, RegistryHeld
    <2> QED BY <2>1, <2>2, <2>3, <2>4, <2>5, <2>6 DEF LockInv
  <1> QED BY <1>1, <1>2, <1>3, <1>4, <1>5

(* Owning the lock and the first steps of Drop.                            *)
LEMMA HoldKeeps ==
  ASSUME LockInv, NEW c \in Calls,
         LockOwner(c) \/ Register(c) \/ Finish(c) \/ Unregister(c) \/ UnlockOwner(c)
  PROVE  LockInv'
PROOF
  <1> USE LockAssumption
  <1>1. CASE LockOwner(c)
    BY <1>1 DEF LockOwner, Go, LockInv, TypeOK, OneGuarded, GuardHeld, OwnerHeld, Marked, RegistryHeld
  <1>2. CASE Register(c)
    BY <1>2 DEF Register, Go, LockInv, TypeOK, OneGuarded, GuardHeld, OwnerHeld, Marked, RegistryHeld
  <1>3. CASE Finish(c)
    <2>1. TypeOK'
      BY <1>3 DEF Finish, Go, LockInv, TypeOK
    <2>2. OneGuarded'
      BY <1>3 DEF Finish, Go, LockInv, TypeOK, OneGuarded
    <2>3. GuardHeld'
      BY <1>3 DEF Finish, Go, LockInv, TypeOK, OneGuarded, GuardHeld
    <2>4. OwnerHeld'
      BY <1>3 DEF Finish, Go, LockInv, TypeOK, OneGuarded, OwnerHeld
    <2>5. Marked'
      BY <1>3 DEF Finish, Go, LockInv, TypeOK, OneGuarded, Marked
    <2>6. RegistryHeld'
      BY <1>3 DEF Finish, Go, LockInv, TypeOK, OneGuarded, RegistryHeld
    <2> QED BY <2>1, <2>2, <2>3, <2>4, <2>5, <2>6 DEF LockInv
  <1>4. CASE Unregister(c)
    BY <1>4 DEF Unregister, Go, LockInv, TypeOK, OneGuarded, GuardHeld, OwnerHeld, Marked, RegistryHeld
  <1>5. CASE UnlockOwner(c)
    BY <1>5 DEF UnlockOwner, Go, LockInv, TypeOK, OneGuarded, GuardHeld, OwnerHeld, Marked, RegistryHeld
  <1> QED BY <1>1, <1>2, <1>3, <1>4, <1>5

(* The steps that end with the guard released.                             *)
LEMMA LeaveKeeps ==
  ASSUME LockInv, NEW c \in Calls,
         OwnerFails(c) \/ RemoveOwner(c) \/ Dropped(c) \/ GiveUp(c)
  PROVE  LockInv'
PROOF
  <1> USE LockAssumption DEF Release, Fault
  <1>1. CASE OwnerFails(c)
    <2>0. faults' \in Nat
      BY <1>1 DEF OwnerFails, LockInv, TypeOK
    <2>1. TypeOK'
      <3>1. /\ pc' = [pc EXCEPT ![c] = "idle"] /\ guard' = guard \ {c}
            /\ marker' = FALSE /\ ownerFile' = FALSE /\ ownerLock' = {}
            /\ registry' = registry
        BY <1>1 DEF OwnerFails, Go
      <3> QED BY <2>0, <3>1 DEF LockInv, TypeOK
    <2>2. OneGuarded'
      BY <1>1 DEF OwnerFails, Go, LockInv, TypeOK, OneGuarded
    <2>3. GuardHeld'
      BY <1>1 DEF OwnerFails, Go, LockInv, TypeOK, OneGuarded, GuardHeld
    <2>4. OwnerHeld'
      BY <1>1 DEF OwnerFails, Go, LockInv, TypeOK, OneGuarded, OwnerHeld
    <2>5. Marked'
      BY <1>1 DEF OwnerFails, Go, LockInv, TypeOK, OneGuarded, Marked
    <2>6. RegistryHeld'
      BY <1>1 DEF OwnerFails, Go, LockInv, TypeOK, OneGuarded, RegistryHeld
    <2> QED BY <2>1, <2>2, <2>3, <2>4, <2>5, <2>6 DEF LockInv
  <1>2. CASE RemoveOwner(c)
    BY <1>2 DEF RemoveOwner, Go, LockInv, TypeOK, OneGuarded, GuardHeld, OwnerHeld, Marked, RegistryHeld
  <1>3. CASE Dropped(c)
    <2>1. TypeOK'
      BY <1>3 DEF Dropped, Go, LockInv, TypeOK
    <2>2. OneGuarded'
      BY <1>3 DEF Dropped, Go, LockInv, TypeOK, OneGuarded
    <2>3. GuardHeld'
      BY <1>3 DEF Dropped, Go, LockInv, TypeOK, OneGuarded, GuardHeld
    <2>4. OwnerHeld'
      BY <1>3 DEF Dropped, Go, LockInv, TypeOK, OneGuarded, OwnerHeld
    <2>5. Marked'
      BY <1>3 DEF Dropped, Go, LockInv, TypeOK, OneGuarded, Marked
    <2>6. RegistryHeld'
      BY <1>3 DEF Dropped, Go, LockInv, TypeOK, OneGuarded, RegistryHeld
    <2> QED BY <2>1, <2>2, <2>3, <2>4, <2>5, <2>6 DEF LockInv
  <1>4. CASE GiveUp(c)
    BY <1>4 DEF GiveUp, LockInv, TypeOK, OneGuarded, GuardHeld, OwnerHeld, Marked, RegistryHeld
  <1> QED BY <1>1, <1>2, <1>3, <1>4

(* A dying process gives back every lock its calls hold.                   *)
LEMMA CrashKeeps ==
  ASSUME LockInv, NEW p \in Processes, Crash(p)
  PROVE  LockInv'
  BY LockAssumption
  DEF Crash, Fault, LockInv, TypeOK, OneGuarded, GuardHeld, OwnerHeld, Marked, RegistryHeld

(* The guard orders everything lock.rs does to its files.                  *)
THEOREM LockInvariant == Spec => []LockInv
PROOF
  <1>1. LockInv /\ [Next]_vars => LockInv'
    <2> SUFFICES ASSUME LockInv, [Next]_vars PROVE LockInv'
      OBVIOUS
    <2>1. CASE \E c \in Calls : Step(c)
      BY <2>1, AcquireKeeps, HoldKeeps, LeaveKeeps DEF Step, Advance
    <2>2. CASE \E p \in Processes : Crash(p)
      BY <2>2, CrashKeeps
    <2>3. CASE UNCHANGED vars
      BY <2>3 DEF vars, LockInv, TypeOK, OneGuarded, GuardHeld, OwnerHeld, Marked, RegistryHeld
    <2> QED BY <2>1, <2>2, <2>3 DEF Next
  <1> QED BY InitLock, <1>1, PTL DEF Spec

(* Type correctness (TypeOK) of lock.rs's files, locks and registry.       *)
THEOREM LockTypeCorrect == Spec => []TypeOK
  BY LockInvariant, PTL DEF LockInv

(* One integration at a time, for any number of calls and processes and    *)
(* any crashes, errors and cancellations (MutualExclusion).                *)
THEOREM OneIntegration == Spec => []MutualExclusion
PROOF
  <1>1. LockInv => MutualExclusion
    BY DEF LockInv, OneGuarded, MutualExclusion
  <1> QED BY LockInvariant, <1>1, PTL

(* The owner's files stay in place until it removes them (LockIsVisible).  *)
THEOREM OwnerIsVisible == Spec => []LockIsVisible
PROOF
  <1>1. ASSUME LockInv, NEW c \in Calls, pc[c] = "critical"
        PROVE  marker /\ ownerFile /\ ownerLock = {c} /\ ProcessOf[c] \in registry
    <2>1. marker /\ ownerFile
      BY <1>1 DEF LockInv, Marked, OwnerHeld
    <2>2. ownerLock = {c}
      BY <1>1 DEF LockInv, TypeOK, OwnerHeld, OneGuarded
    <2>3. ProcessOf[c] \in registry
      BY <1>1, LockAssumption DEF LockInv, RegistryHeld
    <2> QED BY <2>1, <2>2, <2>3
  <1>2. LockInv => LockIsVisible
    BY <1>1 DEF LockIsVisible
  <1> QED BY LockInvariant, <1>2, PTL

(* lock_exclusive on the owner file never waits (OwnerLockNeverBlocks).    *)
THEOREM OwnerLockFree == Spec => []OwnerLockNeverBlocks
PROOF
  <1>1. LockInv => OwnerLockNeverBlocks
    BY DEF LockInv, TypeOK, OwnerHeld, OneGuarded, OwnerLockNeverBlocks
  <1> QED BY LockInvariant, <1>1, PTL

(* The registry names exactly the processes with an operation in progress  *)
(* (RegistryAccurate).                                                     *)
THEOREM RegistryTrue == Spec => []RegistryAccurate
PROOF
  <1>1. LockInv => RegistryAccurate
    BY LockAssumption DEF LockInv, TypeOK, RegistryHeld, RegistryAccurate
  <1> QED BY LockInvariant, <1>1, PTL
=============================================================================
