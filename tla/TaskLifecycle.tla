---------------------------- MODULE TaskLifecycle ----------------------------
(***************************************************************************)
(* What a task promises to whoever watches its status: the per-task state  *)
(* machine.  Nothing is said of leases, sessions, files or budgets; the    *)
(* detailed modules are shown to implement it.                             *)
(*                                                                         *)
(* A task that waits goes back to exactly where it was: "paused" is the    *)
(* stack of the statuses its waits have interrupted, a question asked      *)
(* during a consultation on top of the work the consultation interrupted.  *)
(***************************************************************************)
EXTENDS Sequences

VARIABLES status, paused

vars == <<status, paused>>

Working == {"executing", "addressing"}

Init == status = "pending" /\ paused = <<>>

Claim == status = "pending" /\ status' = "executing" /\ UNCHANGED paused

Submit == status \in Working /\ status' = "reviewing" /\ UNCHANGED paused

Approve == status = "reviewing" /\ status' = "complete" /\ UNCHANGED paused

Reject == status = "reviewing" /\ status' = "addressing" /\ UNCHANGED paused

Wait(reason, from) ==
  /\ status \in from
  /\ status' = reason
  /\ paused' = <<status>> \o paused

Consult == Wait("consultation", Working)

AskHuman == Wait("awaiting_human", Working \cup {"reviewing", "consultation"})

Resume ==
  /\ status \in {"consultation", "awaiting_human"}
  /\ status' = Head(paused) /\ paused' = Tail(paused)

(* A failed task forgets its waits; so does a reset one.                   *)
Fail ==
  /\ status \in Working \cup {"reviewing", "consultation", "awaiting_human"}
  /\ status' = "failed" /\ paused' = <<>>

Reset == status # "reset" /\ status' = "reset" /\ paused' = <<>>

Next == Claim \/ Submit \/ Approve \/ Reject \/ Consult \/ AskHuman \/ Resume
        \/ Fail \/ Reset

Spec == Init /\ [][Next]_vars
=============================================================================
