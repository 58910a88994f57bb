---------------------------- MODULE MCProjectGraph ----------------------------
(* Two approvals, or an approval and an explicit index, compete for the    *)
(* canonical view; pins, a check and a submission for the views of a task, *)
(* with maintenance by another process in between.                         *)
EXTENDS ProjectGraph, TLC

CONSTANTS o1, o2, o3, a, b

MCSnapshotIds == {<<c>> : c \in Contents} \cup {<<Baseline, c>> : c \in Contents \ {Baseline}}
Program(d1, d2, d3, merges, edits, faults) ==
  [does |-> (o1 :> d1) @@ (o2 :> d2) @@ (o3 :> d3),
   bounds |-> [merges |-> merges, edits |-> edits, faults |-> faults]]
MCPrograms ==
  {Program("approve", "approve", "nothing", 2, 0, 1),
   Program("approve", "index", "recover", 1, 0, 1),
   Program("pin", "check", "submit", 0, 2, 1),
   Program("pin", "submit", "recover", 0, 2, 1),
   Program("pin", "submit", "pin", 0, 1, 0)}
=============================================================================
