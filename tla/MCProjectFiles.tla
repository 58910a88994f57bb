---------------------------- MODULE MCProjectFiles -----------------------------
(***************************************************************************)
(* Instances of ProjectFiles and ProjectRegistry.  Every program is a       *)
(* project with a few tasks and specifications and what three processes do *)
(* to it; every scenario a registration, a database and what three         *)
(* programs do to them.  Either one is explored or the other.              *)
(***************************************************************************)
EXTENDS ProjectFiles

CONSTANTS p1, p2, p3, Torn

VARIABLES asked, at, got, ref, metadata, database, crashes

registry == <<asked, at, got, ref, metadata, database, crashes>>

MCIds == 1 .. 6
MCSpecPaths == 1 .. 3
MCArchiveDirs == 1 .. 3

(* Two milestones, the second after the first; its last section follows    *)
(* the outcome of an earlier archive.                                      *)
Doc(mark1, mark2) ==
  <<Heading("Milestones"), Item(mark1, "A"), IdField("a"), Item(mark2, "B"), IdField("b"),
    DependsField({"A"}), Heading("Outcome"), Text, Heading("Notes"), Untitled>>
Independent == <<Item(" ", "A"), IdField("a"), Item(" ", "B"), IdField("b"), Blank>>
Other == <<Item(" ", "C"), IdField("c")>>
Shapeless == <<Text>>

NoOld ==
  [active |-> FALSE, state |-> None, task |-> Template, current |-> None, selected |-> None,
   lastSpec |-> None]
TaskRows(rows) == [i \in MCIds |-> IF i <= Len(rows) THEN rows[i] ELSE None]
SpecFiles(docs) == [s \in MCSpecPaths |-> IF s <= Len(docs) THEN docs[s] ELSE None]

Call(op) ==
  [op |-> op, starts |-> op, after |-> {}, spec |-> None, milestone |-> None,
   doc |-> Other, outcome |-> <<Text>>, author |-> None, archiver |-> None]
Later(op, after) == [Call(op) EXCEPT !.op = "later", !.after = after]
Child(op) == [Call(op) EXCEPT !.op = "unborn"]
Enqueue(s, m) == [Call("enqueue") EXCEPT !.spec = s, !.milestone = m]
Archive(s) == [Call("archive") EXCEPT !.spec = s]
Idle == Child("none")

Program(c1, c2, c3, rows, docs, selected, faults) ==
  [calls |-> (p1 :> c1 @@ p2 :> c2 @@ p3 :> c3), tasks |-> TaskRows(rows), specs |-> SpecFiles(docs),
   selected |-> selected, old |-> NoOld, troubles |-> faults]

Pending(m) == Row("Pending", Checkout, 1, m)
Completed(m) == Row("Complete", Checkout, 1, m)
Failed(m) == Row("Failed", Checkout, 1, m)

(* Calls that enqueue the same milestone, one that plans it, one for       *)
(* another.                                                                *)
Enqueues ==
  {Program(Enqueue(1, "a"), Enqueue(1, "a"), Call("task"), << >>, <<Doc(" ", " ")>>, 1, 1),
   Program(Enqueue(1, "b"), Enqueue(1, "b"), Call("task"),
           <<Completed("a"), Failed("b")>>, <<Doc("x", " ")>>, 1, 1),
   Program(Enqueue(None, None), Enqueue(1, "a"), Call("reset"),
           <<Pending("a")>>, <<Independent>>, None, 1)}

(* Approvals of two milestones, then an archive; failures and resets.      *)
Endings ==
  {Program(Call("approve"), Call("approve"), Archive(1),
           <<Pending("a"), Pending("b")>>, <<Independent>>, 1, 1),
   Program(Call("approve"), Call("fail"), [Archive(1) EXCEPT !.op = "later", !.after = {p1, p2}],
           <<Pending("a"), Row("Reset", Checkout, 1, "a")>>, <<Doc("x", "x")>>, 1, 0)}

Archives ==
  {Program(Archive(1), Archive(1), Idle, <<Completed("a"), Failed("b")>>, <<Doc("x", "x")>>, 1, 1),
   Program(Archive(1), Enqueue(1, "b"), Idle,
           <<Failed("b"), Completed("b")>>, <<Doc("x", "x")>>, 1, 1),
   Program([Call("archiveSpec") EXCEPT !.archiver = p2], Child("archive"), Call("reset"),
           <<Completed("a"), Completed("b")>>, <<Doc("x", "x")>>, 1, 1)}

Sessions ==
  {Program([Call("spec") EXCEPT !.author = p2, !.archiver = p3], Child("createSpec"),
           Child("archive"), <<Completed("a"), Completed("b")>>, <<Doc("x", "x")>>, 1, 1),
   Program([Call("spec") EXCEPT !.author = p2], Child("createSpec"), Call("resetSpec"),
           << >>, <<Doc("x", "x"), Shapeless>>, 1, 1),
   Program([Call("spec") EXCEPT !.author = p2], Child("createSpec"), Call("milestones"),
           << >>, <<Shapeless, Independent>>, None, 1)}

LegacyState(m) == [selected |-> 1, spec |-> 1, milestone |-> m]

Migration(legacy, next) ==
  [Program(Call("migrate"), Later("migrate", {p1}), Later(next, {p2}), << >>, <<Independent>>, None, 1)
     EXCEPT !.old = legacy]

Migrations ==
  {Migration([NoOld EXCEPT !.active = TRUE, !.state = LegacyState("a"), !.task = Original,
                           !.current = current], next)
     : current \in {None, "Pending"}, next \in {"approve", "reset", "enqueue"}}
  \cup {Migration(NoOld, "enqueue")}

NoProgram == Program(Idle, Idle, Idle, << >>, << >>, None, 0)

MCPrograms == {NoProgram} \cup Enqueues \cup Endings \cup Archives \cup Sessions \cup Migrations

(* A failed attempt, archived with its specification, and a reset later.   *)
ResetLater == {Program(Archive(1), Later("reset", {p1}), Idle,
                       <<Completed("a"), Failed("b"), Completed("b")>>, <<Doc("x", "x")>>, 1, 0)}

-----------------------------------------------------------------------------
MCNewest == 3
At3(n) == [version |-> n, history |-> [v \in 1 .. n |-> v], columns |-> 1 .. n]

Scenario(c1, c2, c3, id, d, n) ==
  [asked |-> (p1 :> c1 @@ p2 :> c2 @@ p3 :> c3), ref |-> id, database |-> d, crashes |-> n]
Use(what, v) == [op |-> what, version |-> v]
NoUse == Use("lost", 3)
NoScenario == Scenario(NoUse, NoUse, NoUse, None, None, 0)

(* First registrations, and programs of two versions on one project.       *)
MCScenarios ==
  {NoScenario}
  \cup {Scenario(Use("register", 3), Use("register", 2), Use(what, 3), None, None, 1)
          : what \in {"touch", "doctor", "read"}}
  \cup {Scenario(Use(first, 3), Use("touch", 2), Use(last, v), Original, At3(1), 1)
          : first \in {"register", "touch"}, last \in {"read", "doctor"}, v \in {2, 3}}

Registry == INSTANCE ProjectRegistry
              WITH Users <- Procs, Scenarios <- MCScenarios, Newest <- MCNewest,
                   Earlier <- Original

MCInit == Init /\ Registry!Init /\ (calls = NoProgram.calls \/ asked = NoScenario.asked)
MCNext ==
  \/ Next /\ UNCHANGED registry
  \/ Registry!Next /\ UNCHANGED vars
MCSpec == MCInit /\ [][MCNext]_<<vars, registry>>

RegistrationHolds == Registry!RegistrationHolds
SchemaMatchesVersion == Registry!SchemaMatchesVersion
=============================================================================
