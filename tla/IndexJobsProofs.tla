--------------------------- MODULE IndexJobsProofs ---------------------------
(* Safety of the index job coordinator for any sets of jobs and workers    *)
(* and any limits.                                                         *)
EXTENDS IndexJobs, TLAPS

(* What every action keeps true of one row.  It adds to RecordValid how    *)
(* attempts count generations, and that a requested cancellation and the   *)
(* state "cancelled" arrive together.                                      *)
RowInv(row) ==
  /\ row \in Row
  /\ RecordValid(row)
  /\ row.gen = 0 => row.attempt = 1
  /\ row.gen > 0 => row.attempt = row.gen
  /\ row.state = "absent" => row.gen = 0
  /\ row.state = "queued" => (row.gen = 0 \/ row.attempt < MaxAttempts)
  /\ row.worker # NoWorker => row.gen > 0 /\ row.until <= row.deadline
  /\ row.cancel => row.state = "cancelled"
  /\ row.state \in Active => row.failure = "none"

(* A lease whose failure was reported is gone, and its generation never    *)
(* completes.                                                              *)
FailedLeaseIsGone ==
  \A r \in failed : rows[r.job].gen = r.gen =>
    rows[r.job].state \in {"queued", "failed", "cancelled"}

IInv ==
  /\ TypeOK
  /\ \A j \in Jobs : RowInv(rows[j])
  /\ OneHolderPerGeneration
  /\ ReceiptsHold
  /\ FailedLeaseIsGone

(* How any step may change a row: not at all once terminal, to a lease of  *)
(* a new generation, or within its generation, where a row without a lease *)
(* can only be submitted, wait, fail or be cancelled.                      *)
RowStep(a, b) ==
  \/ b = a
  \/ /\ a.state \notin Terminal
     /\ \/ b.gen > a.gen /\ b.state = "leased"
        \/ /\ b.gen = a.gen
           /\ a.state \notin Active => b.state \in {"queued", "failed", "cancelled"}

-----------------------------------------------------------------------------

(* Releasing a lease keeps a row well formed when a failure code goes with *)
(* a failed or requeued row only and a requeued row has an attempt left.   *)
LEMMA UnleasedKeeps ==
  ASSUME NEW row, RowInv(row), row.state # "absent", ~row.cancel,
         NEW s \in {"queued", "failed", "cancelled"}, NEW f \in FailureCodes,
         s = "queued" => row.attempt < MaxAttempts \/ row.gen = 0,
         s = "failed" => f # "none",
         s = "cancelled" => f = "none"
  PROVE  /\ RowInv(Unleased(row, s, f))
         /\ Unleased(row, s, f).gen = row.gen
         /\ Unleased(row, s, f).worker = NoWorker
  <1> DEFINE u == Unleased(row, s, f)
  <1>1. /\ u \in Row
        /\ u.state = s /\ u.failure = f /\ u.worker = NoWorker
        /\ u.gen = row.gen /\ u.attempt = row.attempt /\ u.cancel = row.cancel
        /\ u.created = row.created /\ u.deadline = row.deadline
    BY DEF RowInv, Row, Unleased, JobStates, FailureCodes, Active, Terminal
  <1> HIDE DEF u
  <1>2. RowInv(u)
    BY <1>1, LimitsAssumption
    DEF RowInv, RecordValid, Active
  <1> QED BY <1>1, <1>2 DEF u

(* reclaim_expired keeps a row well formed, keeps its generation, and      *)
(* leaves a job without a lease or with the lease it had.                  *)
LEMMA ReclaimRowKeeps ==
  ASSUME NEW row, RowInv(row), now \in Nat
  PROVE  /\ RowInv(ReclaimRow(row))
         /\ ReclaimRow(row).gen = row.gen
         /\ ReclaimRow(row).worker \in {NoWorker, row.worker}
  <1>1. row.state \in {"queued"} \cup Active => row.state # "absent" /\ ~row.cancel
    BY DEF RowInv, Active
  <1>2. row \in Row /\ row.attempt \in Nat /\ MaxAttempts \in Nat
    BY LimitsAssumption DEF RowInv, Row
  <1>3. \/ ReclaimRow(row) = row
        \/ /\ row.state \in {"queued"} \cup Active
           /\ \/ ReclaimRow(row) = Unleased(row, "failed", "job.timeout")
              \/ ReclaimRow(row) = Unleased(row, "failed", "job.attempt_limit")
              \/ /\ row.attempt < MaxAttempts
                 /\ ReclaimRow(row) = Unleased(row, "queued", "none")
    BY <1>1, <1>2 DEF ReclaimRow
  <1>4. CASE ReclaimRow(row) = row
    BY <1>4
  <1>5. CASE /\ row.state \in {"queued"} \cup Active
             /\ ReclaimRow(row) = Unleased(row, "failed", "job.timeout")
    BY <1>1, <1>5, UnleasedKeeps DEF FailureCodes
  <1>6. CASE /\ row.state \in {"queued"} \cup Active
             /\ ReclaimRow(row) = Unleased(row, "failed", "job.attempt_limit")
    BY <1>1, <1>6, UnleasedKeeps DEF FailureCodes
  <1>7. CASE /\ row.state \in {"queued"} \cup Active
             /\ row.attempt < MaxAttempts
             /\ ReclaimRow(row) = Unleased(row, "queued", "none")
    BY <1>1, <1>7, UnleasedKeeps DEF FailureCodes
  <1> QED BY <1>3, <1>4, <1>5, <1>6, <1>7

(* A queued row that claim leases stays well formed.                       *)
LEMMA LeasedKeeps ==
  ASSUME NEW row, RowInv(row), now \in Nat, NEW w \in Workers,
         row.state = "queued", ~row.cancel, NextAttempt(row) <= MaxAttempts
  PROVE  /\ RowInv(Leased(row, w))
         /\ Leased(row, w).gen = row.gen + 1
         /\ Leased(row, w).worker = w
  <1> DEFINE u == Leased(row, w)
  <1>1. LeaseExpiry(row) \in Nat /\ LeaseExpiry(row) <= row.deadline
    BY LimitsAssumption DEF LeaseExpiry, MinTime, RowInv, Row
  <1>2. NextAttempt(row) \in Nat /\ NextAttempt(row) = row.gen + 1
    BY DEF NextAttempt, RowInv, Row
  <1>3. /\ u \in Row
        /\ u.state = "leased" /\ u.failure = "none" /\ u.worker = w
        /\ u.gen = row.gen + 1 /\ u.attempt = NextAttempt(row)
        /\ u.cancel = row.cancel /\ u.until = LeaseExpiry(row)
        /\ u.created = row.created /\ u.deadline = row.deadline
    BY <1>1, <1>2 DEF RowInv, Row, Leased, JobStates, FailureCodes, Active
  <1>4. row.gen \in Nat /\ row.deadline >= row.created
    BY DEF RowInv, Row, RecordValid
  <1> HIDE DEF u
  <1>5. RowInv(u)
    BY <1>1, <1>2, <1>3, <1>4, WorkersAssumption, LimitsAssumption
    DEF RowInv, RecordValid, Active
  <1> QED BY <1>3, <1>5 DEF u

-----------------------------------------------------------------------------

(* The receipts stored before a step stay true after it.                   *)
LEMMA OldReceiptsHold ==
  ASSUME IInv, grants \subseteq grants',
         \A k \in Jobs : RowInv(rows'[k]) /\ RowStep(rows[k], rows'[k])
  PROVE  /\ \A r \in advanced :
              /\ [job |-> r.job, worker |-> r.worker, gen |-> r.gen] \in grants'
              /\ r.next = "complete" =>
                   rows'[r.job].state = "complete" /\ rows'[r.job].gen = r.gen
         /\ \A r \in failed :
              /\ [job |-> r.job, worker |-> r.worker, gen |-> r.gen] \in grants'
              /\ rows'[r.job].state = "complete" => rows'[r.job].gen > r.gen
              /\ ~r.retryable => /\ rows'[r.job].state = "failed"
                                /\ rows'[r.job].gen = r.gen
              /\ rows'[r.job].gen = r.gen =>
                   rows'[r.job].state \in {"queued", "failed", "cancelled"}
  <1>1. ASSUME NEW r \in advanced
        PROVE  /\ [job |-> r.job, worker |-> r.worker, gen |-> r.gen] \in grants'
               /\ r.next = "complete" =>
                    rows'[r.job].state = "complete" /\ rows'[r.job].gen = r.gen
    BY DEF IInv, ReceiptsHold, RowStep, TypeOK, Terminal
  <1>2. ASSUME NEW r \in failed
        PROVE  /\ [job |-> r.job, worker |-> r.worker, gen |-> r.gen] \in grants'
               /\ rows'[r.job].state = "complete" => rows'[r.job].gen > r.gen
               /\ ~r.retryable => /\ rows'[r.job].state = "failed"
                                 /\ rows'[r.job].gen = r.gen
               /\ rows'[r.job].gen = r.gen =>
                    rows'[r.job].state \in {"queued", "failed", "cancelled"}
    <2>1. /\ r.job \in Jobs /\ r.gen \in Nat
          /\ [job |-> r.job, worker |-> r.worker, gen |-> r.gen] \in grants
          /\ r.gen <= rows[r.job].gen
          /\ rows[r.job].gen \in Nat /\ rows'[r.job].gen \in Nat
      BY DEF IInv, ReceiptsHold, OneHolderPerGeneration, TypeOK, RowInv, Row
    <2>2. RowStep(rows[r.job], rows'[r.job])
      BY <2>1
    <2>3. /\ rows[r.job].state = "complete" => rows[r.job].gen > r.gen
          /\ ~r.retryable => rows[r.job].state = "failed" /\ rows[r.job].gen = r.gen
          /\ rows[r.job].gen = r.gen =>
               rows[r.job].state \in {"queued", "failed", "cancelled"}
      BY DEF IInv, ReceiptsHold, FailedLeaseIsGone
    <2> QED BY <2>1, <2>2, <2>3 DEF RowStep, Terminal, Active
  <1> QED BY <1>1, <1>2

(* A step that rewrites one row, keeps its generation and does not move    *)
(* its lease to another worker preserves what is said of rows and grants.  *)
LEMMA OneRowStep ==
  ASSUME IInv, NEW j \in Jobs, NEW r, RowInv(r), RowStep(rows[j], r),
         r.gen = rows[j].gen, r.worker \in {NoWorker, rows[j].worker},
         rows' = [rows EXCEPT ![j] = r], grants' = grants
  PROVE  /\ rows' \in [Jobs -> Row]
         /\ \A k \in Jobs : RowInv(rows'[k]) /\ RowStep(rows[k], rows'[k])
         /\ OneHolderPerGeneration'
  <1>1. rows \in [Jobs -> Row] /\ r \in Row
    BY DEF IInv, TypeOK, RowInv
  <1>2. rows' \in [Jobs -> Row]
    BY <1>1
  <1>3. \A k \in Jobs : rows'[k] = IF k = j THEN r ELSE rows[k]
    BY <1>1
  <1>4. \A k \in Jobs : RowInv(rows'[k])
    BY <1>3 DEF IInv
  <1>5. \A k \in Jobs : RowStep(rows[k], rows'[k])
    BY <1>3 DEF RowStep
  <1>6. \A k \in Jobs : /\ rows'[k].gen = rows[k].gen
                        /\ rows'[k].worker \in {NoWorker, rows[k].worker}
    BY <1>3
  <1>7. OneHolderPerGeneration'
    BY <1>6 DEF IInv, OneHolderPerGeneration, TypeOK, Lease
  <1> QED BY <1>2, <1>4, <1>5, <1>7

(* The holder named by a granted lease has a row with an active state.     *)
LEMMA LiveLeaseRow ==
  ASSUME IInv, NEW l \in grants, LiveLease(l)
  PROVE  /\ l.job \in Jobs /\ l.worker \in Workers /\ l.gen \in Nat
         /\ l = [job |-> l.job, worker |-> l.worker, gen |-> l.gen]
         /\ RowInv(rows[l.job])
         /\ rows[l.job].state \in Active
         /\ ~rows[l.job].cancel
         /\ rows[l.job] \in Row
  BY WorkersAssumption
  DEF IInv, TypeOK, Lease, LiveLease, RowInv, RecordValid, Active

(* What a step must establish besides the type of the variables it leaves  *)
(* alone.                                                                  *)
StepKeeps ==
  /\ IInv'
  /\ \A k \in Jobs : RowStep(rows[k], rows'[k])

(* transition_with_lease keeps the invariant for each of its three uses.   *)
LEMMA TransitionKeeps ==
  ASSUME IInv, NEW l \in grants, NEW expected \in Active,
         NEW next \in Active \cup {"complete"}, NEW clear \in BOOLEAN,
         clear <=> next = "complete",
         TransitionWithLease(l, expected, next, clear)
  PROVE  StepKeeps
  <1> DEFINE r == rows[l.job]
             u == IF clear
                    THEN [r EXCEPT !.state = next, !.worker = NoWorker, !.until = 0]
                    ELSE [r EXCEPT !.state = next]
  <1>1. /\ l.job \in Jobs /\ l.worker \in Workers /\ l.gen \in Nat
        /\ l = [job |-> l.job, worker |-> l.worker, gen |-> l.gen]
        /\ RowInv(r) /\ r.state \in Active /\ ~r.cancel /\ r \in Row
        /\ r.gen = l.gen
    BY LiveLeaseRow DEF TransitionWithLease, LiveLease
  <1>2. rows' = [rows EXCEPT ![l.job] = u] /\ rows'[l.job] = u
    BY <1>1 DEF TransitionWithLease, IInv, TypeOK
  <1>3. /\ RowInv(u) /\ u.gen = r.gen /\ u.worker \in {NoWorker, r.worker}
        /\ RowStep(r, u) /\ u.state = next
    BY <1>1, LimitsAssumption, WorkersAssumption
    DEF RowInv, Row, RecordValid, Active, JobStates, Terminal, RowStep
  <1> HIDE DEF u
  <1>4. /\ rows' \in [Jobs -> Row]
        /\ \A k \in Jobs : RowInv(rows'[k]) /\ RowStep(rows[k], rows'[k])
        /\ OneHolderPerGeneration'
    BY <1>1, <1>2, <1>3, OneRowStep DEF TransitionWithLease
  <1>5. TypeOK'
    BY <1>1, <1>4
    DEF IInv, TypeOK, TransitionWithLease, AdvanceReceipt, JobStates, Active,
        Terminal
  <1>6. UNCHANGED <<failed, grants>>
        /\ advanced' = advanced \cup {AdvanceReceipt(l, expected, next)}
    BY DEF TransitionWithLease
  <1>7. ReceiptsHold'
    BY <1>1, <1>2, <1>3, <1>4, <1>6, OldReceiptsHold
    DEF ReceiptsHold, AdvanceReceipt
  <1>8. FailedLeaseIsGone'
    BY <1>4, <1>6, OldReceiptsHold DEF FailedLeaseIsGone
  <1> QED BY <1>4, <1>5, <1>7, <1>8 DEF IInv, StepKeeps

(* A step that rewrites one row as above and stores no receipt.            *)
LEMMA QuietRowStep ==
  ASSUME IInv, NEW j \in Jobs, NEW r, RowInv(r), RowStep(rows[j], r),
         r.gen = rows[j].gen, r.worker \in {NoWorker, rows[j].worker},
         rows' = [rows EXCEPT ![j] = r],
         UNCHANGED <<now, advanced, failed, grants, tombstone>>
  PROVE  StepKeeps
  <1>1. /\ rows' \in [Jobs -> Row]
        /\ \A k \in Jobs : RowInv(rows'[k]) /\ RowStep(rows[k], rows'[k])
        /\ OneHolderPerGeneration'
    BY OneRowStep
  <1>2. TypeOK'
    BY <1>1 DEF IInv, TypeOK
  <1>3. ReceiptsHold' /\ FailedLeaseIsGone'
    BY <1>1, OldReceiptsHold DEF ReceiptsHold, FailedLeaseIsGone
  <1> QED BY <1>1, <1>2, <1>3 DEF IInv, StepKeeps

LEMMA SubmitKeeps ==
  ASSUME IInv, NEW j \in Jobs, Submit(j)
  PROVE  StepKeeps
  <1> DEFINE u == [NoRow EXCEPT !.state = "queued", !.created = now,
                                !.deadline = now + JobDuration]
  <1>1. now \in Nat /\ RowInv(rows[j]) /\ rows[j].state = "absent"
    BY DEF IInv, TypeOK, Submit
  <1>2. /\ u.state = "queued" /\ u.attempt = 1 /\ u.worker = NoWorker
        /\ u.gen = 0 /\ u.cancel = FALSE /\ u.failure = "none"
        /\ u.created = now /\ u.deadline = now + JobDuration
    BY DEF NoRow
  <1>3. u \in Row
    <2>1. NoRow \in Row
      BY DEF NoRow, Row, JobStates, FailureCodes
    <2>2. now + JobDuration \in Nat
      BY <1>1, LimitsAssumption
    <2>3. "queued" \in JobStates /\ "none" \in FailureCodes
      BY DEF JobStates, FailureCodes
    <2> QED BY <1>1, <2>1, <2>2, <2>3 DEF Row
  <1>4. rows' = [rows EXCEPT ![j] = u]
        /\ UNCHANGED <<now, advanced, failed, grants, tombstone>>
    BY DEF Submit
  <1> HIDE DEF u
  <1>5. RowInv(u)
    BY <1>1, <1>2, <1>3, LimitsAssumption DEF RowInv, RecordValid, Active
  <1>6. RowStep(rows[j], u) /\ rows[j].gen = 0 /\ RowInv(u)
    BY <1>1, <1>2, <1>5 DEF RowStep, RowInv, Terminal, Active
  <1> QED BY <1>2, <1>4, <1>6, QuietRowStep

LEMMA CancelKeeps ==
  ASSUME IInv, NEW j \in Jobs, Cancel(j)
  PROVE  StepKeeps
  <1> DEFINE r == rows[j]
             u == [Unleased(r, "cancelled", "none") EXCEPT !.cancel = TRUE]
  <1>1. RowInv(r) /\ r.state \in {"queued"} \cup Active
    BY DEF IInv, Cancel
  <1>2. /\ RowInv(u) /\ u.gen = r.gen /\ u.worker = NoWorker
        /\ u.state = "cancelled"
    BY <1>1, LimitsAssumption
    DEF Unleased, RowInv, Row, RecordValid, JobStates, FailureCodes, Active,
        Terminal
  <1>3. RowStep(r, u)
    BY <1>1, <1>2 DEF RowStep, Terminal, Active
  <1>4. rows' = [rows EXCEPT ![j] = u]
        /\ UNCHANGED <<now, advanced, failed, grants, tombstone>>
    BY DEF Cancel
  <1> HIDE DEF u
  <1> QED BY <1>2, <1>3, <1>4, QuietRowStep

LEMMA HeartbeatKeeps ==
  ASSUME IInv, NEW l \in grants, Heartbeat(l)
  PROVE  StepKeeps
  <1> DEFINE r == rows[l.job]
             u == [r EXCEPT !.until = LeaseExpiry(r)]
  <1>1. /\ l.job \in Jobs /\ RowInv(r) /\ r.state \in Active /\ r \in Row
        /\ now \in Nat
    BY LiveLeaseRow DEF Heartbeat, IInv, TypeOK
  <1>2. LeaseExpiry(r) \in Nat /\ LeaseExpiry(r) <= r.deadline
    BY <1>1, LimitsAssumption DEF LeaseExpiry, MinTime, Row
  <1>3. /\ RowInv(u) /\ u.gen = r.gen /\ u.worker = r.worker
        /\ u.state = r.state
    BY <1>1, <1>2 DEF RowInv, Row, RecordValid
  <1>4. RowStep(r, u)
    BY <1>1, <1>3 DEF RowStep, Terminal, Active
  <1>5. rows' = [rows EXCEPT ![l.job] = u]
        /\ UNCHANGED <<now, advanced, failed, grants, tombstone>>
    BY DEF Heartbeat
  <1> HIDE DEF u
  <1> QED BY <1>1, <1>3, <1>4, <1>5, QuietRowStep

LEMMA FailKeeps ==
  ASSUME IInv, NEW l \in grants, NEW retryable \in BOOLEAN, Fail(l, retryable)
  PROVE  StepKeeps
  <1> DEFINE r == rows[l.job]
             s == IF Retry(r, retryable) THEN "queued" ELSE "failed"
             u == Unleased(r, s, "worker")
  <1>1. /\ l.job \in Jobs /\ l.worker \in Workers /\ l.gen \in Nat
        /\ l = [job |-> l.job, worker |-> l.worker, gen |-> l.gen]
        /\ RowInv(r) /\ r.state \in Active /\ ~r.cancel /\ r \in Row
        /\ r.gen = l.gen
    BY LiveLeaseRow DEF Fail, LiveLease
  <1>2. s = "queued" => r.attempt < MaxAttempts
    BY DEF Retry
  <1>3. r.state # "absent" /\ s \in {"queued", "failed"} /\ "worker" \in FailureCodes
    BY <1>1 DEF Active, FailureCodes
  <1>4. ~retryable => s = "failed"
    BY DEF Retry
  <1> HIDE DEF s
  <1>5. /\ RowInv(u) /\ u.gen = r.gen /\ u.worker = NoWorker
    BY <1>1, <1>2, <1>3, UnleasedKeeps
  <1>6. u.state = s
    BY <1>1 DEF Unleased, Row
  <1>7. RowStep(r, u)
    BY <1>1, <1>3, <1>5, <1>6 DEF RowStep, Terminal, Active
  <1>8. rows' = [rows EXCEPT ![l.job] = u] /\ rows'[l.job] = u
    BY <1>1 DEF Fail, s, IInv, TypeOK
  <1> HIDE DEF u
  <1>9. /\ rows' \in [Jobs -> Row]
        /\ \A k \in Jobs : RowInv(rows'[k]) /\ RowStep(rows[k], rows'[k])
        /\ OneHolderPerGeneration'
    BY <1>1, <1>5, <1>7, <1>8, OneRowStep DEF Fail
  <1>10. UNCHANGED <<advanced, grants>>
         /\ failed' = failed \cup {FailureReceipt(l, retryable)}
    BY DEF Fail
  <1>11. TypeOK'
    BY <1>1, <1>9 DEF IInv, TypeOK, Fail, FailureReceipt
  <1>12. ReceiptsHold'
    BY <1>1, <1>3, <1>4, <1>5, <1>6, <1>8, <1>9, <1>10, OldReceiptsHold
    DEF ReceiptsHold, FailureReceipt
  <1>13. FailedLeaseIsGone'
    <2>1. \A x \in failed : rows'[x.job].gen = x.gen =>
            rows'[x.job].state \in {"queued", "failed", "cancelled"}
      BY <1>9, <1>10, OldReceiptsHold
    <2>2. FailureReceipt(l, retryable).job = l.job
      BY DEF FailureReceipt
    <2>3. rows'[FailureReceipt(l, retryable).job].state \in {"queued", "failed"}
      BY <1>3, <1>6, <1>8, <2>2
    <2> QED BY <1>10, <2>1, <2>3 DEF FailedLeaseIsGone
  <1> QED BY <1>9, <1>11, <1>12, <1>13 DEF IInv, StepKeeps

(* Every row after reclaim_expired, compared with the row before it.       *)
LEMMA ReclaimedTable ==
  ASSUME IInv
  PROVE  /\ ReclaimExpired \in [Jobs -> Row]
         /\ \A k \in Jobs :
              /\ RowInv(ReclaimExpired[k])
              /\ ReclaimExpired[k].gen = rows[k].gen
              /\ ReclaimExpired[k].worker \in {NoWorker, rows[k].worker}
              /\ RowStep(rows[k], ReclaimExpired[k])
  <1>1. now \in Nat /\ \A k \in Jobs : RowInv(rows[k]) /\ rows[k] \in Row
    BY DEF IInv, TypeOK
  <1>2. ASSUME NEW k \in Jobs
        PROVE  /\ RowInv(ReclaimRow(rows[k]))
               /\ ReclaimRow(rows[k]).gen = rows[k].gen
               /\ ReclaimRow(rows[k]).worker \in {NoWorker, rows[k].worker}
    BY <1>1, ReclaimRowKeeps
  <1>3. ASSUME NEW k \in Jobs
        PROVE  RowStep(rows[k], ReclaimRow(rows[k]))
    <2> DEFINE r == rows[k]
    <2>1. \/ ReclaimRow(r) = r
          \/ /\ r.state \in {"queued"} \cup Active
             /\ \E s \in {"cancelled", "failed", "queued"}, f \in FailureCodes :
                  ReclaimRow(r) = Unleased(r, s, f)
      BY <1>1 DEF ReclaimRow, FailureCodes
    <2>2. \A s \in {"cancelled", "failed", "queued"}, f \in FailureCodes :
            Unleased(r, s, f).state = s /\ Unleased(r, s, f).gen = r.gen
      BY <1>1 DEF Unleased, Row
    <2> QED BY <2>1, <2>2 DEF RowStep, Terminal, Active
  <1> QED BY <1>2, <1>3 DEF ReclaimExpired, RowInv

LEMMA ReclaimKeeps ==
  ASSUME IInv, rows' = ReclaimExpired,
         UNCHANGED <<now, advanced, failed, grants, tombstone>>
  PROVE  StepKeeps
  <1>1. /\ rows' \in [Jobs -> Row]
        /\ \A k \in Jobs : /\ RowInv(rows'[k]) /\ RowStep(rows[k], rows'[k])
                          /\ rows'[k].gen = rows[k].gen
                          /\ rows'[k].worker \in {NoWorker, rows[k].worker}
    BY ReclaimedTable
  <1>2. TypeOK'
    BY <1>1 DEF IInv, TypeOK
  <1>3. OneHolderPerGeneration'
    BY <1>1 DEF IInv, OneHolderPerGeneration, TypeOK, Lease
  <1>4. ReceiptsHold' /\ FailedLeaseIsGone'
    BY <1>1, OldReceiptsHold DEF ReceiptsHold, FailedLeaseIsGone
  <1> QED BY <1>1, <1>2, <1>3, <1>4 DEF IInv, StepKeeps

LEMMA ClaimKeeps ==
  ASSUME IInv, NEW w \in Workers, NEW k \in Kinds, Claim(w, k)
  PROVE  StepKeeps
  <1> DEFINE table == ReclaimExpired
  <1>1. CASE rows' = table /\ grants' = grants
    BY <1>1, ReclaimKeeps DEF Claim
  <1>2. ASSUME NEW j \in Jobs,
               IsFirst(table, k, j),
               NextAttempt(table[j]) <= MaxAttempts,
               rows' = [table EXCEPT ![j] = Leased(table[j], w)],
               grants' = grants \cup
                 {[job |-> j, worker |-> w, gen |-> table[j].gen + 1]}
        PROVE  StepKeeps
    <2> DEFINE u == Leased(table[j], w)
               l == [job |-> j, worker |-> w, gen |-> table[j].gen + 1]
    <2>1. /\ table \in [Jobs -> Row] /\ now \in Nat
          /\ \A i \in Jobs : /\ RowInv(table[i]) /\ table[i].gen = rows[i].gen
                            /\ table[i].worker \in {NoWorker, rows[i].worker}
                            /\ RowStep(rows[i], table[i])
                            /\ rows[i].gen \in Nat
      BY ReclaimedTable DEF IInv, TypeOK, Row
    <2>2. table[j].state = "queued" /\ ~table[j].cancel
      BY <1>2 DEF IsFirst, Claimable
    <2>3. RowInv(u) /\ u.gen = rows[j].gen + 1 /\ u.worker = w /\ u.state = "leased"
      <3>1. RowInv(u) /\ u.gen = table[j].gen + 1 /\ u.worker = w
        BY <1>2, <2>1, <2>2, LeasedKeeps
      <3>2. u.state = "leased"
        BY <2>1 DEF Leased, Row
      <3> QED BY <2>1, <3>1, <3>2
    <2>4. RowStep(rows[j], u)
      <3>1. rows[j].state \notin Terminal
        BY <2>1, <2>2 DEF RowStep, Terminal
      <3> QED BY <2>1, <2>3, <3>1 DEF RowStep
    <2> HIDE DEF table, u
    <2>5. \A i \in Jobs : rows'[i] = IF i = j THEN u ELSE table[i]
      BY <1>2, <2>1 DEF u
    <2>6. rows' \in [Jobs -> Row]
      BY <1>2, <2>1, <2>3 DEF u, RowInv
    <2>7. \A i \in Jobs : RowInv(rows'[i]) /\ RowStep(rows[i], rows'[i])
      BY <2>1, <2>3, <2>4, <2>5
    <2>8. TypeOK'
      BY <1>2, <2>1, <2>6 DEF IInv, TypeOK, Lease, Claim
    <2>9. OneHolderPerGeneration'
      <3>1. l = [job |-> j, worker |-> w, gen |-> rows[j].gen + 1]
            /\ grants' = grants \cup {l}
        BY <1>2, <2>1
      <3>2. \A a \in grants : a.job \in Jobs /\ a.gen \in 1..rows[a.job].gen
        BY DEF IInv, TypeOK, Lease, OneHolderPerGeneration
      <3>3. \A i \in Jobs : rows'[i].gen \in Nat /\ rows'[i].gen >= rows[i].gen
        BY <2>1, <2>3, <2>5
      <3>4. \A a, b \in grants' : a.job = b.job /\ a.gen = b.gen => a = b
        BY <2>1, <3>1, <3>2 DEF IInv, OneHolderPerGeneration
      <3>5. \A i \in Jobs : rows'[i].worker # NoWorker =>
              [job |-> i, worker |-> rows'[i].worker, gen |-> rows'[i].gen] \in grants'
        BY <2>1, <2>3, <2>5, <3>1 DEF IInv, OneHolderPerGeneration
      <3>6. \A a \in grants' : a.gen \in 1..rows'[a.job].gen
        BY <2>1, <2>3, <2>5, <3>1, <3>2, <3>3
      <3> QED BY <3>4, <3>5, <3>6 DEF OneHolderPerGeneration
    <2>10. UNCHANGED <<advanced, failed>> /\ grants \subseteq grants'
      BY <1>2 DEF Claim
    <2>11. ReceiptsHold' /\ FailedLeaseIsGone'
      BY <2>7, <2>10, OldReceiptsHold DEF ReceiptsHold, FailedLeaseIsGone
    <2> QED BY <2>7, <2>8, <2>9, <2>11 DEF IInv, StepKeeps
  <1> QED BY <1>1, <1>2 DEF Claim

LEMMA IdleKeeps ==
  ASSUME IInv, UNCHANGED <<rows, advanced, failed, grants, tombstone>>,
         now' \in 0..MaxTime
  PROVE  StepKeeps
  BY DEF IInv, TypeOK, OneHolderPerGeneration, ReceiptsHold, FailedLeaseIsGone,
         StepKeeps, RowStep

LEMMA InitIInv == Init => IInv
  <1> SUFFICES ASSUME Init PROVE IInv
    OBVIOUS
  <1>1. NoRow \in Row
    BY DEF NoRow, Row, JobStates, FailureCodes
  <1>2. RowInv(NoRow)
    BY <1>1, LimitsAssumption DEF NoRow, RowInv, RecordValid, Active
  <1>3. TypeOK
    <2>1. now \in 0..MaxTime
      BY LimitsAssumption DEF Init
    <2>2. rows \in [Jobs -> Row]
      BY <1>1 DEF Init
    <2>3. tombstone \in BOOLEAN
      BY DEF Init
    <2> QED BY <2>1, <2>2, <2>3 DEF Init, TypeOK
  <1>4. OneHolderPerGeneration /\ ReceiptsHold /\ FailedLeaseIsGone
    BY DEF Init, NoRow, OneHolderPerGeneration, ReceiptsHold, FailedLeaseIsGone
  <1> QED BY <1>2, <1>3, <1>4 DEF Init, IInv

LEMMA NextKeeps ==
  ASSUME IInv, [Next]_jobVars
  PROVE  StepKeeps
  <1>1. ASSUME NEW j \in Jobs, Submit(j) PROVE StepKeeps
    BY <1>1, SubmitKeeps
  <1>2. ASSUME NEW j \in Jobs, Cancel(j) PROVE StepKeeps
    BY <1>2, CancelKeeps
  <1>3. CASE Polling
    BY <1>3, ClaimKeeps DEF Polling
  <1>4. CASE Reclaim
    BY <1>4, ReclaimKeeps DEF Reclaim
  <1>5. CASE WorkerRequest
    <2> SUFFICES ASSUME NEW l \in grants,
                        \/ Start(l) \/ BeginPublication(l) \/ Complete(l)
                        \/ Heartbeat(l)
                        \/ \E retryable \in BOOLEAN : Fail(l, retryable)
                 PROVE  StepKeeps
      BY <1>5 DEF WorkerRequest
    <2>1. CASE Start(l)
      BY <2>1, TransitionKeeps DEF Start, Active
    <2>2. CASE BeginPublication(l)
      BY <2>2, TransitionKeeps DEF BeginPublication, Active
    <2>3. CASE Complete(l)
      BY <2>3, TransitionKeeps DEF Complete, Active
    <2>4. CASE Heartbeat(l)
      BY <2>4, HeartbeatKeeps
    <2>5. CASE \E retryable \in BOOLEAN : Fail(l, retryable)
      BY <2>5, FailKeeps
    <2> QED BY <2>1, <2>2, <2>3, <2>4, <2>5
  <1>6. CASE Tick
    BY <1>6, IdleKeeps, LimitsAssumption DEF Tick, IInv, TypeOK
  <1>7. CASE UNCHANGED jobVars
    BY <1>7, IdleKeeps DEF jobVars, IInv, TypeOK
  <1> QED BY <1>1, <1>2, <1>3, <1>4, <1>5, <1>6, <1>7 DEF Next

-----------------------------------------------------------------------------

(* The invariant above holds in every reachable state.                     *)
THEOREM InductiveInvariant == Spec => []IInv
  <1>1. IInv /\ [Next]_jobVars => IInv'
    BY NextKeeps DEF StepKeeps
  <1> QED BY <1>1, InitIInv, PTL DEF Spec

(* The coordinator's tables always have their type.                        *)
THEOREM TypeCorrect == Spec => []TypeOK
  <1>1. IInv => TypeOK
    BY DEF IInv
  <1> QED BY <1>1, InductiveInvariant, PTL

(* load_record can read back every row any sequence of calls leaves.       *)
THEOREM RecordsAlwaysValid == Spec => []RecordsValid
  <1>1. IInv => RecordsValid
    BY DEF IInv, RecordsValid, RowInv
  <1> QED BY <1>1, InductiveInvariant, PTL

(* A lease generation is never held by two workers.                        *)
THEOREM GenerationsFence == Spec => []OneHolderPerGeneration
  <1>1. IInv => OneHolderPerGeneration
    BY DEF IInv
  <1> QED BY <1>1, InductiveInvariant, PTL

(* Replaying a stored receipt never reports what is no longer so.          *)
THEOREM ReceiptsStayTrue == Spec => []ReceiptsHold
  <1>1. IInv => ReceiptsHold
    BY DEF IInv
  <1> QED BY <1>1, InductiveInvariant, PTL

(* A queued job always has an attempt left, so claim never fails on it.    *)
THEOREM QueueNeverBlocks == Spec => []QueueHeadIsClaimable
  <1>1. IInv => QueueHeadIsClaimable
    BY LimitsAssumption
    DEF IInv, RowInv, Row, QueueHeadIsClaimable, NextAttempt
  <1> QED BY <1>1, InductiveInvariant, PTL

(* No lease outlives its job's deadline; each lease costs one attempt.     *)
THEOREM LeasesBounded == Spec => []LeasesAreBounded
  <1>1. IInv => LeasesAreBounded
    BY DEF IInv, RowInv, LeasesAreBounded
  <1> QED BY <1>1, InductiveInvariant, PTL

(* No call of any worker or client reopens or alters a settled job.        *)
THEOREM SettledJobsStay == Spec => TerminalStays
  <1>1. IInv /\ [Next]_jobVars =>
          [\A j \in Jobs : rows[j].state \in Terminal => rows'[j] = rows[j]]_jobVars
    BY NextKeeps DEF StepKeeps, RowStep
  <1> QED BY <1>1, InductiveInvariant, PTL DEF Spec, TerminalStays
=============================================================================
