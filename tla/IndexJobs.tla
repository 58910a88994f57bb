------------------------------ MODULE IndexJobs ------------------------------
(***************************************************************************)
(* The durable coordinator of distributed index jobs                       *)
(* (src/src/distributed/coordinator_sqlite.rs).                            *)
(*                                                                         *)
(* Every public method of the coordinator is one immediate SQLite          *)
(* transaction, hence one action here.  Workers talk to it over a          *)
(* transport that may delay, lose or repeat any request: an action takes   *)
(* its job, worker and generation from "grants", the set of all claims    *)
(* ever answered, so that any stale request may arrive at any later time.  *)
(* A request the code refuses leaves the database alone and is no step.    *)
(***************************************************************************)
EXTENDS Integers

CONSTANTS Jobs,          \* job ids, numbers: the claim order compares them
          Workers,       \* worker ids
          NoWorker,      \* a NULL lease_worker_id
          Kinds,         \* repository_graph, project_memory
          KindOf,        \* the kind in each job's specification
          MaxAttempts,   \* CoordinatorLimits.max_attempts
          LeaseTtl,      \* CoordinatorLimits.lease_ttl_ms
          JobDuration,   \* CoordinatorLimits.max_job_duration_ms
          MaxTime        \* bound on the clock

ASSUME JobsAssumption == Jobs \subseteq Nat
ASSUME WorkersAssumption == NoWorker \notin Workers
ASSUME KindAssumption == KindOf \in [Jobs -> Kinds]
ASSUME LimitsAssumption ==
  /\ MaxAttempts \in Nat \ {0}
  /\ LeaseTtl \in Nat \ {0}
  /\ JobDuration \in Nat \ {0}
  /\ MaxTime \in Nat

VARIABLES now,       \* the clock the callers pass as "now"
          rows,      \* table distributed_index_jobs
          advanced,  \* table distributed_index_job_advance_receipts
          failed,    \* table distributed_index_job_failure_receipts
          grants,    \* the leases claim has ever handed out
          tombstone  \* is the project in project_deletion_tombstones?

jobVars == <<now, rows, advanced, failed, grants, tombstone>>

Active == {"leased", "running", "publishing"}
Terminal == {"complete", "failed", "cancelled"}
JobStates == {"absent", "queued"} \cup Active \cup Terminal
FailureCodes == {"none", "worker", "job.timeout", "job.attempt_limit"}

NoRow == [state |-> "absent", attempt |-> 1, worker |-> NoWorker, gen |-> 0,
          until |-> 0, cancel |-> FALSE, failure |-> "none",
          created |-> 0, deadline |-> 0]

Init ==
  /\ now = 0
  /\ rows = [j \in Jobs |-> NoRow]
  /\ advanced = {}
  /\ failed = {}
  /\ grants = {}
  /\ tombstone = FALSE

MinTime(a, b) == IF a <= b THEN a ELSE b

(* lease_expiry, clamped to the job's deadline as claim and heartbeat do.  *)
LeaseExpiry(row) == MinTime(now + LeaseTtl, row.deadline)

(* The columns every release of a lease sets to NULL.                      *)
Unleased(row, state, failure) ==
  [row EXCEPT !.state = state, !.worker = NoWorker, !.until = 0,
              !.failure = failure]

Expired(row) == row.worker # NoWorker /\ row.until <= now

MutReclaimRow(row) ==
  IF Expired(row) THEN Unleased(row, "expired", "none") ELSE row

MutReclaimRowForever(row) ==
  IF row.state = "queued" /\ row.deadline <= now
    THEN Unleased(row, "failed", "job.timeout")
    ELSE row

(* The four UPDATE statements of reclaim_expired, in their order, on one   *)
(* row.  After a statement has moved a row, the later ones no longer match *)
(* it.                                                                     *)
ReclaimRow(row) ==
  CASE row.cancel /\ Expired(row) /\ row.state \in Active
         -> Unleased(row, "cancelled", "none")
    [] ~row.cancel /\ row.deadline <= now /\ row.state \in {"queued"} \cup Active
         -> Unleased(row, "failed", "job.timeout")
    [] /\ ~row.cancel /\ row.deadline > now /\ Expired(row)
       /\ row.attempt >= MaxAttempts /\ row.state \in Active
         -> Unleased(row, "failed", "job.attempt_limit")
    [] /\ ~row.cancel /\ row.deadline > now /\ Expired(row)
       /\ row.attempt < MaxAttempts /\ row.state \in Active
         -> Unleased(row, "queued", "none")
    [] OTHER -> row

ReclaimExpired == [j \in Jobs |-> ReclaimRow(rows[j])]

(* submit: a known job is returned as it is; a new one starts queued with  *)
(* attempt 1 and generation 0.  The guard on MaxTime is the model's bound. *)
Submit(j) ==
  /\ ~tombstone
  /\ rows[j].state = "absent"
  /\ now + JobDuration <= MaxTime
  /\ rows' = [rows EXCEPT ![j] =
                [NoRow EXCEPT !.state = "queued", !.created = now,
                              !.deadline = now + JobDuration]]
  /\ UNCHANGED <<now, advanced, failed, grants, tombstone>>

Claimable(table, k) ==
  {j \in Jobs : table[j].state = "queued" /\ ~table[j].cancel /\ KindOf[j] = k}

(* ORDER BY created_at_ms, job_id LIMIT 1.                                 *)
IsFirst(table, k, j) ==
  /\ j \in Claimable(table, k)
  /\ \A i \in Claimable(table, k) :
       \/ table[j].created < table[i].created
       \/ table[j].created = table[i].created /\ j <= i

NextAttempt(row) == IF row.gen = 0 THEN row.attempt ELSE row.attempt + 1

MutLeased(row, w) ==
  [row EXCEPT !.state = "leased", !.attempt = NextAttempt(row), !.worker = w,
              !.gen = IF row.gen = 0 THEN 1 ELSE row.gen,
              !.until = LeaseExpiry(row), !.failure = "none"]

Leased(row, w) ==
  [row EXCEPT !.state = "leased", !.attempt = NextAttempt(row), !.worker = w,
              !.gen = row.gen + 1, !.until = LeaseExpiry(row),
              !.failure = "none"]

(* claim: reclaim what has expired, then lease the first queued job of the *)
(* kind.  A next attempt above the limit is an error and rolls everything  *)
(* back, the reclaim included.                                             *)
Claim(w, k) ==
  LET table == ReclaimExpired
  IN /\ \/ /\ Claimable(table, k) = {}
           /\ rows' = table
           /\ grants' = grants
        \/ \E j \in Jobs :
             /\ IsFirst(table, k, j)
             /\ NextAttempt(table[j]) <= MaxAttempts
             /\ rows' = [table EXCEPT ![j] = Leased(table[j], w)]
             /\ grants' = grants \cup
                  {[job |-> j, worker |-> w, gen |-> table[j].gen + 1]}
     /\ UNCHANGED <<now, advanced, failed, tombstone>>

(* reclaim: the maintenance entry point.                                   *)
Reclaim ==
  /\ rows' = ReclaimExpired
  /\ UNCHANGED <<now, advanced, failed, grants, tombstone>>

MutLiveLease(l) ==
  rows[l.job].worker = l.worker /\ rows[l.job].gen = l.gen

(* require_live_lease.                                                     *)
LiveLease(l) ==
  /\ rows[l.job].worker = l.worker
  /\ rows[l.job].gen = l.gen
  /\ rows[l.job].until > now
  /\ rows[l.job].deadline > now

(* What a receipt table keeps of a request made under lease l.             *)
AdvanceReceipt(l, expected, next) ==
  [job |-> l.job, worker |-> l.worker, gen |-> l.gen,
   expected |-> expected, next |-> next]

FailureReceipt(l, retryable) ==
  [job |-> l.job, worker |-> l.worker, gen |-> l.gen, retryable |-> retryable]

(* transition_with_lease: a request whose receipt is stored is answered    *)
(* from the receipt and changes nothing.                                   *)
TransitionWithLease(l, expected, next, clearLease) ==
  /\ AdvanceReceipt(l, expected, next) \notin advanced
  /\ LiveLease(l)
  /\ ~rows[l.job].cancel
  /\ rows[l.job].state = expected
  /\ rows' = [rows EXCEPT ![l.job] =
                IF clearLease
                  THEN [@ EXCEPT !.state = next, !.worker = NoWorker, !.until = 0]
                  ELSE [@ EXCEPT !.state = next]]
  /\ advanced' = advanced \cup {AdvanceReceipt(l, expected, next)}
  /\ UNCHANGED <<now, failed, grants, tombstone>>

Start(l) == TransitionWithLease(l, "leased", "running", FALSE)

BeginPublication(l) == TransitionWithLease(l, "running", "publishing", FALSE)

MutComplete(l) == TransitionWithLease(l, "publishing", "complete", FALSE)

Complete(l) == TransitionWithLease(l, "publishing", "complete", TRUE)

Heartbeat(l) ==
  /\ LiveLease(l)
  /\ ~rows[l.job].cancel
  /\ rows[l.job].state \in Active
  /\ rows' = [rows EXCEPT ![l.job].until = LeaseExpiry(rows[l.job])]
  /\ UNCHANGED <<now, advanced, failed, grants, tombstone>>

MutRetry(row, retryable) == retryable

(* fail: only a leased or running job with attempts left is retried.       *)
Retry(row, retryable) ==
  /\ retryable
  /\ row.attempt < MaxAttempts
  /\ row.state \in {"leased", "running"}

Fail(l, retryable) ==
  /\ FailureReceipt(l, retryable) \notin failed
  /\ LiveLease(l)
  /\ ~rows[l.job].cancel
  /\ rows[l.job].state \in Active
  /\ rows' = [rows EXCEPT ![l.job] =
                Unleased(@, IF Retry(@, retryable) THEN "queued" ELSE "failed",
                         "worker")]
  /\ failed' = failed \cup {FailureReceipt(l, retryable)}
  /\ UNCHANGED <<now, advanced, grants, tombstone>>

MutCancel(j) ==
  /\ rows[j].state # "absent"
  /\ rows' = [rows EXCEPT ![j] =
                [Unleased(@, "cancelled", "none") EXCEPT !.cancel = TRUE]]
  /\ UNCHANGED <<now, advanced, failed, grants, tombstone>>

(* cancel: a terminal job is returned unchanged.  expected_state only adds *)
(* refusals.                                                               *)
Cancel(j) ==
  /\ rows[j].state \in {"queued"} \cup Active
  /\ rows' = [rows EXCEPT ![j] =
                [Unleased(@, "cancelled", "none") EXCEPT !.cancel = TRUE]]
  /\ UNCHANGED <<now, advanced, failed, grants, tombstone>>

Tick ==
  /\ now < MaxTime
  /\ now' = now + 1
  /\ UNCHANGED <<rows, advanced, failed, grants, tombstone>>

(* A request from a worker that once held a lease, however late.           *)
WorkerRequest ==
  \E l \in grants :
    \/ Start(l)
    \/ BeginPublication(l)
    \/ Complete(l)
    \/ Heartbeat(l)
    \/ \E retryable \in BOOLEAN : Fail(l, retryable)

Polling == \E w \in Workers, k \in Kinds : Claim(w, k)

Next ==
  \/ \E j \in Jobs : Submit(j) \/ Cancel(j)
  \/ Polling
  \/ Reclaim
  \/ WorkerRequest
  \/ Tick

Spec == Init /\ [][Next]_jobVars

(* Time passes, and workers of every kind keep polling for work: both are  *)
(* what the coordinator is deployed with.  Nothing else is assumed: no     *)
(* worker need ever finish, fail or renew a job.                           *)
FairSpec == Spec /\ WF_jobVars(Tick) /\ WF_jobVars(Polling)

(* Types.                                                                  *)
Row == [state : JobStates, attempt : Nat, worker : Workers \cup {NoWorker},
        gen : Nat, until : Nat, cancel : BOOLEAN, failure : FailureCodes,
        created : Nat, deadline : Nat]

Lease == [job : Jobs, worker : Workers, gen : Nat]

(* The type of the coordinator's tables and of the model's history.        *)
TypeOK ==
  /\ now \in 0..MaxTime
  /\ rows \in [Jobs -> Row]
  /\ advanced \subseteq [job : Jobs, worker : Workers, gen : Nat,
                         expected : JobStates, next : JobStates]
  /\ failed \subseteq [job : Jobs, worker : Workers, gen : Nat,
                       retryable : BOOLEAN]
  /\ grants \subseteq Lease
  /\ tombstone \in BOOLEAN

(* IndexJobRecord::validate: every stored row can be read back.  A row     *)
(* that fails it makes load_record, and so every later call on the job,    *)
(* return an error.                                                        *)
RecordValid(row) ==
  /\ row.attempt \in 1..MaxAttempts
  /\ (row.worker # NoWorker) <=> (row.state \in Active)
  /\ row.cancel => row.state # "complete"
  /\ row.state = "failed" => row.failure # "none"
  /\ row.state \in {"complete", "cancelled"} => row.failure = "none"
  /\ row.deadline >= row.created

RecordsValid == \A j \in Jobs : RecordValid(rows[j])

(* A lease generation is a fencing token: claim never hands the same       *)
(* generation of a job to two workers, a live lease is one that claim      *)
(* handed out, and a generation above the row's was never handed out.      *)
OneHolderPerGeneration ==
  /\ \A a, b \in grants : a.job = b.job /\ a.gen = b.gen => a = b
  /\ \A j \in Jobs : rows[j].worker # NoWorker =>
       [job |-> j, worker |-> rows[j].worker, gen |-> rows[j].gen] \in grants
  /\ \A a \in grants : a.gen \in 1..rows[a.job].gen

(* A stored receipt is replayed without looking at the row, so what it     *)
(* reports must still be so: a job reported complete is complete at that   *)
(* generation, a job reported failed for good has failed, a lease reported *)
(* failed never completes, and only a leased generation has receipts.      *)
ReceiptsHold ==
  /\ \A r \in advanced :
       /\ [job |-> r.job, worker |-> r.worker, gen |-> r.gen] \in grants
       /\ r.next = "complete" =>
            rows[r.job].state = "complete" /\ rows[r.job].gen = r.gen
  /\ \A r \in failed :
       /\ [job |-> r.job, worker |-> r.worker, gen |-> r.gen] \in grants
       /\ rows[r.job].state = "complete" => rows[r.job].gen > r.gen
       /\ ~r.retryable => rows[r.job].state = "failed" /\ rows[r.job].gen = r.gen

(* claim refuses, and rolls back, when the first queued job has no attempt *)
(* left.  Such a job would block its kind's queue until its deadline.      *)
QueueHeadIsClaimable ==
  \A j \in Jobs : rows[j].state = "queued" => NextAttempt(rows[j]) <= MaxAttempts

(* "No transition or heartbeat can extend work beyond" the job deadline,   *)
(* and each lease costs one attempt.                                       *)
LeasesAreBounded ==
  \A j \in Jobs :
    /\ rows[j].worker # NoWorker => rows[j].until <= rows[j].deadline
    /\ rows[j].gen > 0 => rows[j].attempt = rows[j].gen

(* A worker's progress is accepted only from the holder of the lease, and  *)
(* only while that lease and the job's deadline are in the future,         *)
(* however late the request arrives.                                       *)
OnlyLiveLeasesAdvance ==
  [][\A j \in Jobs :
       /\ rows'[j].state # rows[j].state
       /\ rows'[j].state \in {"running", "publishing", "complete"}
       => rows[j].until > now /\ rows[j].deadline > now]_jobVars

(* Complete, failed and cancelled jobs are never reopened.                 *)
TerminalStays ==
  [][\A j \in Jobs : rows[j].state \in Terminal => rows'[j] = rows[j]]_jobVars

(* Every submitted job reaches a terminal state, even if every worker that *)
(* leases it disappears: again and again no job is left queued or leased.  *)
EveryJobSettles ==
  []<>(\A j \in Jobs : rows[j].state \in {"absent"} \cup Terminal)
=============================================================================
