----------------------------- MODULE NanoReplay -----------------------------
(* The pure half of a Nano session: the budget, the projection of the       *)
(* conversation into a request, the admission of a request, and the replay  *)
(* of journal records.                                                      *)
(*                                                                          *)
(* A message weighs one token, a large tool output two, and an estimate of  *)
(* a request is the weight of its messages.  A journal is represented by    *)
(* the state its records replay to, as recovery sees nothing else of it.    *)
(* Each event is a pair: whether Replay::apply accepts the record, and the  *)
(* state it leads to.                                                       *)
EXTENDS Integers, Sequences, FiniteSets, FiniteSetsExt

CONSTANTS
    MaxTurns, MaxTokens, MaxCalls, MaxRetries, MaxIdle,  \* session::Limits
    Window,       \* context window of the provider, in tokens
    Margin,       \* share of the window that admission keeps free
    MaxOutput,    \* largest output reservation
    SummaryCap,   \* largest output of a summary request
    Automatic     \* no explicit output ceiling: reservations shrink to fit

(***************************************************************************)
(* Budget.  spent sums the four reported and estimated counters.           *)
(***************************************************************************)
NoBudget == [turns |-> 0, calls |-> 0, retries |-> 0, idle |-> 0, late |-> 0,
             spent |-> 0, rin |-> 0, rout |-> 0]

Tokens(b) == b.spent + b.rin + b.rout

Remaining(b) == Max({0, MaxTokens - Tokens(b)})

Charge(b, use) == [b EXCEPT !.rin = 0, !.rout = 0, !.spent = @ + use]

(* Mutant: a new run starts counting turns again.                          *)
MutInherited(b) == [Charge(b, b.rin + b.rout) EXCEPT !.late = 0, !.turns = 0]

(* What a reservation did not settle is charged to the next run.           *)
Inherited(b) == [Charge(b, b.rin + b.rout) EXCEPT !.late = 0]

NextTurnLimit(b) ==
    IF b.turns >= MaxTurns THEN "turns" ELSE IF Remaining(b) < 2 THEN "tokens" ELSE "none"

(* Stops that another process in the same work phase cannot get past.      *)
ManagedFailure(reason, retryable) ==
    \/ reason \in {"tokens", "turns", "calls", "retries", "no_progress"}
    \/ reason \in {"provider_failed", "provider_protocol"} /\ ~retryable

(***************************************************************************)
(* Conversation.  Positions count messages, as slices do in the code.      *)
(***************************************************************************)
System == [role |-> "system", n |-> 0, out |-> "none"]
User == [role |-> "user", n |-> 0, out |-> "none"]
Reply(calls) == [role |-> "model", n |-> Len(calls), out |-> "none"]
Result(name, out) ==
    [role |-> "tool", n |-> IF name = "read" /\ out = "success" THEN 2 ELSE 1, out |-> out]

(* A truncated response keeps no calls and is followed by a host message.  *)
Messages(finish, calls) ==
    IF finish = "length" THEN <<Reply(<<>>), User>> ELSE <<Reply(calls)>>

Prefix == 2

WellGrouped(m) ==
    \A i \in Prefix + 1 .. Len(m) : m[i].role = "model" =>
        /\ i + m[i].n <= Len(m)
        /\ \A k \in i + 1 .. i + m[i].n : m[k].role = "tool"

Boundaries(m) ==
    {b \in Prefix .. Len(m) : b = Len(m) \/ m[b + 1].role /= "tool"}

Large(m, at) == {i \in at : m[i].role = "tool" /\ m[i].n > 1}

(* Large outputs from position from on, except in the last messages.       *)
Evictable(m, from) == Large(m, from + 1 .. Len(m) - 4)

Weight(m, at, evicted) == Cardinality(at) + Cardinality(Large(m, at) \ evicted)

(* Weight of a request: the prefix, the summary of what lies before cut    *)
(* (0: no summary), and the messages after it.                             *)
Projected(m, cut, evicted) ==
    Prefix + (IF cut > 0 THEN 1 ELSE 0)
           + Weight(m, Max({Prefix, cut}) + 1 .. Len(m), evicted)

Retained(cut) == Max({Prefix, cut})

(***************************************************************************)
(* Admission.  Estimates do not depend on the output cap here, so the loop *)
(* that shrinks it settles in one round.                                   *)
(***************************************************************************)
OutputReservation(remaining) == Min({MaxOutput, Window \div 4, remaining \div 2})

Reduced(in, out, remaining) ==
    Min({out, remaining - in} \cup (IF Automatic THEN {Window - in - Margin} ELSE {}))

Fits(in, out, remaining) ==
    out > 0 /\ in + out + Margin <= Window /\ in + out <= remaining

(* The output granted, or 0 when the request is not admitted.              *)
Admit(in, out, remaining) ==
    Max({0} \cup {reduced \in {Reduced(in, out, remaining)} : Fits(in, reduced, remaining)})

Refusal(in, remaining) == IF remaining <= in THEN "tokens" ELSE "context"

(* Mutant: the latest user input may be summarized away.                   *)
MutCandidates(m, cut, steer) == {c \in Boundaries(m) : Retained(cut) < c /\ c < Len(m)}

(* Where a summary may end: complete groups after the last summary, not    *)
(* the latest group, not beyond the latest user input.                     *)
Candidates(m, cut, steer) ==
    {c \in Boundaries(m) : Retained(cut) < c /\ c < Len(m) /\ (steer > 0 => c <= steer)}

AfterCut(m, c) == Projected(m, c, Evictable(m, Retained(c)))

SummaryInput(m, cut, c) ==
    (IF cut > 0 THEN 2 ELSE 1) + Weight(m, Retained(cut) + 1 .. c, Evictable(m, Retained(cut)))

SummaryOutput(remaining) == Min({SummaryCap, remaining \div 4})

NoPlan == [limit |-> "none", cut |-> 0, in |-> 0, out |-> 0]
Refused(limit) == [NoPlan EXCEPT !.limit = limit]

(* Mutant: the summary may take the last turn.                             *)
MutPlanAt(c, in, normal, bud) ==
    LET granted == Admit(in, SummaryOutput(Remaining(bud)), Remaining(bud) - normal)
    IN  IF granted = 0 THEN Refused("tokens")
        ELSE [limit |-> "none", cut |-> c, in |-> in, out |-> granted]

(* A summary of in tokens up to c, for a request that takes normal tokens: *)
(* that request must keep its tokens and a turn.                           *)
PlanAt(c, in, normal, bud) ==
    LET left == Remaining(bud) - normal
        granted == Admit(in, SummaryOutput(Remaining(bud)), left)
    IN  IF SummaryOutput(Remaining(bud)) = 0 \/ left = 0 THEN Refused("tokens")
        ELSE IF granted = 0 THEN Refused(Refusal(in, left))
        ELSE IF bud.turns + 1 >= MaxTurns THEN Refused("turns")
        ELSE [limit |-> "none", cut |-> c, in |-> in, out |-> granted]

(* plan_compaction: the earliest cut that makes room for a request with    *)
(* out tokens of output, or the limit that rules a summary out.            *)
Plan(m, cut, steer, bud, out) ==
    LET room(c) == Admit(AfterCut(m, c), out, Remaining(bud))
        cuts == {c \in Candidates(m, cut, steer) : room(c) > 0}
        last == Max(Candidates(m, cut, steer) \cup {cut})
    IN  IF cuts = {} THEN Refused(Refusal(AfterCut(m, last), Remaining(bud)))
        ELSE CHOOSE plan \in {PlanAt(c, SummaryInput(m, cut, c), AfterCut(m, c) + room(c), bud) :
                                 c \in {Min(cuts)}} : TRUE

(* input_capacity: the limit that leaves no inference for one more input.  *)
InputCapacity(m, cut, bud) ==
    LET all == Append(m, User)
        out == OutputReservation(Remaining(bud))
    IN  IF NextTurnLimit(bud) /= "none" THEN NextTurnLimit(bud)
        ELSE IF out = 0 THEN "tokens"
        ELSE IF Admit(AfterCut(all, cut), out, Remaining(bud)) > 0 THEN "none"
        ELSE Plan(all, cut, Len(all) - 1, bud, out).limit

(***************************************************************************)
(* Replay.  cut is the summary's, at the one of a running compaction.      *)
(***************************************************************************)
NoJournal ==
    [begun |-> FALSE, bud |-> NoBudget, msgs |-> <<>>, cut |-> 0, end |-> "none",
     pending |-> 0, name |-> "none", started |-> FALSE, unknown |-> FALSE,
     active |-> FALSE, at |-> 0, final |-> FALSE, steer |-> 0, inter |-> FALSE,
     calls |-> <<>>, submitted |-> FALSE, retry |-> FALSE]

CheckpointReady(d) == d.begun /\ ~d.active /\ d.pending = 0 /\ d.calls = <<>>

Record(d, b, ok, next) == [ok |-> d.end = "none" /\ ok, next |-> [next EXCEPT !.bud = b]]

(* The budget a record may carry: the expected consumption; elapsed time   *)
(* only grows and no_progress is free.                                     *)
Consumes(d, b, expected) ==
    b.late >= d.bud.late /\ b = [expected EXCEPT !.idle = b.idle, !.late = b.late]

Reserves(d, b) ==
    /\ d.bud.rin = 0 /\ d.bud.rout = 0 /\ b.rin > 0 /\ b.rout > 0
    /\ Consumes(d, b, [d.bud EXCEPT !.turns = @ + 1, !.rin = b.rin, !.rout = b.rout])

Started(b) ==
    Record(NoJournal, b, b.late = 0 /\ b.rin = 0 /\ b.rout = 0,
           [NoJournal EXCEPT !.begun = TRUE, !.msgs = <<System, User>>])

ContextPrepared(d, b, cut) ==
    Record(d, b, Consumes(d, b, d.bud) /\ CheckpointReady(d) /\ WellGrouped(d.msgs) /\ cut = d.cut, d)

ContextComposed(d, b, length, in, out) ==
    Record(d, b, /\ Consumes(d, b, d.bud) /\ CheckpointReady(d) /\ length = Len(d.msgs)
                 /\ in > 0 /\ out > 0 /\ in + out <= Window, d)

ModelStarted(d, b) ==
    Record(d, b, Reserves(d, b) /\ CheckpointReady(d), [d EXCEPT !.active = TRUE, !.final = FALSE])

UserInput(d, b) ==
    Record(d, b, Consumes(d, b, d.bud) /\ CheckpointReady(d) /\ d.inter,
           [d EXCEPT !.steer = Len(d.msgs), !.msgs = Append(@, User), !.final = FALSE])

InteractionOpened(d, b) ==
    Record(d, b, Consumes(d, b, d.bud) /\ CheckpointReady(d) /\ ~d.inter, [d EXCEPT !.inter = TRUE])

InputRequested(d, b) ==
    Record(d, b, Consumes(d, b, d.bud) /\ CheckpointReady(d) /\ d.final /\ d.inter, d)

CompactionStarted(d, b, cut) ==
    Record(d, b, /\ Reserves(d, b) /\ CheckpointReady(d) /\ WellGrouped(d.msgs)
                 /\ cut \in Boundaries(d.msgs) /\ cut > Prefix
                 /\ d.steer > 0 => cut <= d.steer,
           [d EXCEPT !.active = TRUE, !.at = cut, !.final = FALSE])

ModelCompleted(d, b, use, finish, calls) ==
    Record(d, b, /\ Consumes(d, b, Charge(d.bud, use))
                 /\ d.active /\ d.at = 0 /\ d.calls = <<>>,
           [d EXCEPT !.active = FALSE, !.final = finish = "final", !.retry = FALSE,
                     !.calls = IF finish = "length" THEN <<>> ELSE calls,
                     !.msgs = @ \o Messages(finish, calls)])

CompactionCompleted(d, b, use, cut) ==
    Record(d, b, /\ Consumes(d, b, Charge(d.bud, use))
                 /\ d.active /\ d.at = cut /\ cut > 0 /\ d.cut < cut /\ WellGrouped(d.msgs),
           [d EXCEPT !.active = FALSE, !.at = 0, !.cut = cut])

ModelFailed(d, b, use, retryable) ==
    Record(d, b, /\ Consumes(d, b, [Charge(d.bud, use) EXCEPT !.retries = b.retries])
                 /\ b.retries = d.bud.retries \/ (retryable /\ b.retries = d.bud.retries + 1)
                 /\ d.active,
           [d EXCEPT !.active = FALSE, !.at = 0, !.final = FALSE, !.retry = retryable])

ToolIntent(d, b, name) ==
    Record(d, b, /\ Consumes(d, b, [d.bud EXCEPT !.calls = @ + 1])
                 /\ d.pending = 0 /\ d.calls /= <<>> /\ Head(d.calls) = name,
           [d EXCEPT !.pending = b.calls, !.name = name, !.started = FALSE, !.submitted = FALSE])

ToolStarted(d, b, id) ==
    Record(d, b, Consumes(d, b, d.bud) /\ d.pending = id /\ ~d.started, [d EXCEPT !.started = TRUE])

ToolResult(d, b, id, out) ==
    Record(d, b, /\ Consumes(d, b, d.bud) /\ d.pending = id /\ d.calls /= <<>>
                 /\ d.started \/ out = "failed",
           [d EXCEPT !.pending = 0, !.started = FALSE, !.calls = Tail(@),
                     !.submitted = d.name = "submit" /\ out = "success",
                     !.unknown = @ \/ out = "unknown",
                     !.msgs = Append(@, Result(d.name, out))])

Ended(d, b, reason) ==
    Record(d, b, /\ Consumes(d, b, d.bud)
                 /\ reason = "submitted" => d.submitted /\ d.pending = 0 /\ ~d.active
                 /\ reason = "model_finished" => CheckpointReady(d) /\ d.final /\ ~d.inter,
           [d EXCEPT !.end = reason])
=============================================================================
