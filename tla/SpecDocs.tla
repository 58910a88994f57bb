------------------------------- MODULE SpecDocs --------------------------------
(***************************************************************************)
(* Specification files: their milestones, the plan drawn from them, marking *)
(* a milestone as done and writing the Outcome section (src/src/specs.rs,   *)
(* hq/planning.rs).                                                        *)
(*                                                                         *)
(* A file is the sequence of its lines.  A line is told apart by what the  *)
(* parsers look for: a check-list item with its mark, marker and whether a  *)
(* title follows; the fields ID and Depends on; a second-level heading; a   *)
(* blank line; any other text.  References are compared as normalised.     *)
(***************************************************************************)
EXTENDS Integers, Sequences, FiniteSets, FiniteSetsExt, SequencesExt

Item(mark, marker) == [kind |-> "item", mark |-> mark, value |-> marker]
Untitled == [kind |-> "item", mark |-> " ", value |-> ""]
IdField(id) == [kind |-> "ID", value |-> id]
DependsField(refs) == [kind |-> "Depends on", value |-> refs]
Heading(title) == [kind |-> "heading", value |-> title]
Blank == [kind |-> "blank"]
Text == [kind |-> "text"]

Lines(doc) == 1 .. Len(doc)

(* parse_milestone_header: an open or done item with a marker and a title. *)
IsHeader(line) == line.kind = "item" /\ line.mark \in {" ", "x"} /\ line.value # ""

(* parse_child_field.                                                      *)
IsField(line, field) == line.kind = field

(* The lines that belong to the header at i: up to the next header.        *)
Children(doc, i) ==
  {j \in Lines(doc) : j > i /\ \A k \in i + 1 .. j : ~IsHeader(doc[k])}

(* The value of a field is that of its last line.                          *)
FieldOf(doc, i, field, default) ==
  LET at == {j \in Children(doc, i) : IsField(doc[j], field)}
  IN IF at = {} THEN default ELSE doc[Max(at)].value

(* parse_spec: a header without an id is no milestone.                     *)
MilestoneLines(doc) == {i \in Lines(doc) : IsHeader(doc[i]) /\ FieldOf(doc, i, "ID", "") # ""}

Milestone(doc, i) ==
  [id |-> FieldOf(doc, i, "ID", ""), marker |-> doc[i].value, done |-> doc[i].mark = "x",
   deps |-> FieldOf(doc, i, "Depends on", {}), line |-> i]

ParseSpec(doc) ==
  LET at == SetToSortSeq(MilestoneLines(doc), <)
  IN [k \in Lines(at) |-> Milestone(doc, at[k])]

Complete(doc) == \A i \in MilestoneLines(doc) : doc[i].mark = "x"

(* milestone_refs of the milestones that are done.                         *)
CompletedRefs(ms) == UNION {{ms[k].id, ms[k].marker} : k \in {k \in Lines(ms) : ms[k].done}}

(* milestone_plan: which milestones may be started.                        *)
Readiness(ms, k) ==
  IF ms[k].done THEN "Done"
  ELSE IF ms[k].deps \subseteq CompletedRefs(ms) THEN "Ready" ELSE "Pending"

(* build_run_plan: the ready milestones that have no live task.            *)
Eligible(doc, live) ==
  LET ms == ParseSpec(doc)
  IN SelectSeq(ms, LAMBDA m : Readiness(ms, SelectInSeq(ms, LAMBDA n : n = m)) = "Ready" /\ m.id \notin live)

-----------------------------------------------------------------------------
(* Changes.                                                                *)

(* complete_milestone_blocking: the first milestone with that id.          *)
CompleteMilestone(doc, id) ==
  LET at == {i \in MilestoneLines(doc) : Milestone(doc, i).id = id}
  IN IF at = {} THEN doc ELSE [doc EXCEPT ![Min(at)] = [@ EXCEPT !.mark = "x"]]

(* The end of upsert_outcome_section_text: no more than one blank line.    *)
TrimmedEnd(doc) ==
  LET text == {i \in Lines(doc) : doc[i].kind # "blank"}
      last == IF text = {} THEN 0 ELSE Max(text)
  IN SubSeq(doc, 1, Min({Len(doc), last + 1}))

OutcomeStarts(doc) == {i \in Lines(doc) : doc[i].kind = "heading" /\ doc[i].value = "Outcome"}

(* The first heading of another section after the outcome, or the end.     *)
OutcomeEnd(doc, start) ==
  LET after == {i \in Lines(doc) : i > start /\ doc[i].kind = "heading" /\ doc[i].value # "Outcome"}
  IN IF after = {} THEN Len(doc) + 1 ELSE Min(after)

(* upsert_outcome_section: the section replaced where there is one, and     *)
(* appended otherwise.  normalize_outcome_section supplies the heading.    *)
UpsertOutcome(doc, outcome) ==
  LET section == <<Heading("Outcome")>> \o outcome \o <<Blank>>
  IN IF OutcomeStarts(doc) = {}
     THEN TrimmedEnd(doc \o (IF doc # << >> /\ Last(doc).kind = "blank" THEN << >> ELSE <<Blank>>) \o section)
     ELSE LET start == Min(OutcomeStarts(doc))
          IN TrimmedEnd(SubSeq(doc, 1, start - 1) \o section
                        \o SubSeq(doc, OutcomeEnd(doc, start), Len(doc)))
=============================================================================
