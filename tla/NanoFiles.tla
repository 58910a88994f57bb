------------------------------- MODULE NanoFiles -------------------------------
(***************************************************************************)
(* The file tools of Ferrus Nano as functions of the files they look at    *)
(* (src/src/nano/workspace.rs, workspace/patch.rs, workspace/fs.rs).       *)
(*                                                                         *)
(* A file is the sequence of its lines, and its digest is its content: the *)
(* hash is taken to be injective.  Sizes are counted in lines.  A line     *)
(* that holds a NUL byte or is not UTF-8 is Nul.  A directory is the set of *)
(* the names in it, the workspace root is Root, and names are numbers in    *)
(* the order of their search keys.                                         *)
(***************************************************************************)
EXTENDS Integers, Sequences, FiniteSets, FiniteSetsExt, SequencesExt

CONSTANTS Names,        \* files and directories below the root
          Root,         \* the root, before every name
          Entries,      \* Root and each directory |-> the names in it
          ProtectedNames, \* .git, .ferrus, .nano-tmp-* and the databases
          Nul,
          FileLimit, ScanLimit, EntryLimit, OutputLimit, DocumentLimit, \* Limits
          None

Paths == Names \ DOMAIN Entries

Positions(text) == 1 .. Len(text)

(* path: the names the tools accept.                                       *)
Accepted(p) == p \notin ProtectedNames

(* read_content_limited: what opening and reading a file gives.            *)
ReadContent(files, p, budget) ==
  IF files[p] = None THEN "NotFound"
  ELSE IF Len(files[p]) > Min({FileLimit, budget}) THEN "FileTooLarge"
  ELSE IF \E i \in Positions(files[p]) : files[p][i] = Nul THEN "Binary"
  ELSE "ok"

Readable(files, p) == ReadContent(files, p, FileLimit + 1) = "ok"

(* The bytes a read has looked at: nothing of a file that is known to be   *)
(* too large.                                                              *)
Inspected(files, p, budget) ==
  IF ReadContent(files, p, budget) \in {"ok", "Binary"} THEN Len(files[p]) ELSE 0

(* evidence_digest: the digest, or None, and what is left of the budget.   *)
EvidenceDigest(files, p, remaining) ==
  IF ~Accepted(p) \/ remaining = 0 THEN [digest |-> None, remaining |-> remaining]
  ELSE [digest |-> IF ReadContent(files, p, remaining) = "ok" THEN files[p] ELSE None,
        remaining |-> remaining - Inspected(files, p, remaining)]

(* The source identity of an answer.                                       *)
Source(p, text) == [path |-> p, digest |-> text]

(* read_file: whole lines from start, as many as asked for and as fit.     *)
ReadFile(files, p, start, maxLines) ==
  LET text == files[p]
      wanted == Max({0, Len(text) - (start - 1)})
      returned == Min({wanted, maxLines, OutputLimit})
  IN IF ~Accepted(p) THEN [code |-> "ProtectedPath"]
     ELSE IF ~Readable(files, p) THEN [code |-> ReadContent(files, p, FileLimit + 1)]
     ELSE [code |-> "ok", source |-> Source(p, text), start |-> start,
           returned |-> returned, truncated |-> returned < wanted,
           next |-> IF returned < wanted THEN start + returned ELSE None]

(* load: the guidance of the directories above the selected files, where   *)
(* there is some, and the skills that are asked for, which have to be there.*)
(* One document that cannot be read, or one too many, refuses the set.     *)
Instructions(files, guidance, skills) ==
  LET found == {p \in guidance : files[p] # None} \cup skills
  IN IF \/ \E p \in found : ~Readable(files, p)
        \/ Cardinality(found) > DocumentLimit
     THEN [code |-> "failed"]
     ELSE [code |-> "ok", documents |-> {Source(p, files[p]) : p \in found}]

-----------------------------------------------------------------------------
(* search_text, one entry of the queue at a time.                          *)

NoSearch == [pending |-> {}, seen |-> {}, visited |-> 0, listed |-> 0, scanned |-> 0,
             matches |-> {}, truncated |-> FALSE, full |-> FALSE, query |-> None,
             max |-> 0]

StartSearch(starts, query, max) ==
  [NoSearch EXCEPT !.pending = starts, !.query = query, !.max = max]

Truncated(search) == [search EXCEPT !.truncated = TRUE]

(* children: the first names of a directory up to what may still be listed.*)
Listing(files, search, d) ==
  LET present == {n \in Entries[d] : n \in DOMAIN Entries \/ files[n] # None}
      capacity == Max({0, EntryLimit - search.listed})
      listed == {n \in present : Cardinality({m \in present : m < n}) < capacity}
  IN [names |-> listed, truncated |-> listed # present]

(* A directory puts the names in it that were not seen on the queue; the   *)
(* protected ones are passed over.                                         *)
SearchDirectory(files, search, d) ==
  LET listing == Listing(files, search, d)
  IN [search EXCEPT !.listed = @ + Cardinality(listing.names),
                    !.truncated = @ \/ listing.truncated,
                    !.pending = @ \cup {n \in listing.names : Accepted(n) /\ n \notin search.seen}]

Hits(text, query, p) == {[path |-> p, line |-> i] : i \in {j \in Positions(text) : text[j] = query}}

FirstHits(hits, n) == {h \in hits : Cardinality({g \in hits : g.line < h.line}) < n}

(* A file adds its matching lines, up to the results asked for and the     *)
(* output limit.                                                           *)
SearchContent(files, search, p) ==
  LET hits == Hits(files[p], search.query, p)
      found == Cardinality(search.matches)
      output == Max({0, OutputLimit - found})
      kept == FirstHits(hits, Min({search.max - found, output}))
  IN [search EXCEPT !.matches = @ \cup kept,
                    !.truncated = @ \/ kept # hits,
                    !.full = kept # hits /\ output < search.max - found]

(* A file that cannot be read, or for which no scan budget is left, is an  *)
(* issue, and the search is truncated.                                     *)
SearchFile(files, search, p) ==
  LET remaining == Max({0, ScanLimit - search.scanned})
      code == ReadContent(files, p, remaining)
      inspected == [search EXCEPT !.scanned = @ + Inspected(files, p, remaining)]
  IN IF remaining = 0 THEN Truncated(search)
     ELSE IF code # "ok" THEN Truncated(inspected)
     ELSE SearchContent(files, inspected, p)

MutAfterEntry(search) ==
  IF Cardinality(search.matches) >= search.max \/ search.full
  THEN [search EXCEPT !.pending = {}]
  ELSE search

(* The end of an entry: the search is over when it has enough.             *)
AfterEntry(search) ==
  IF Cardinality(search.matches) >= search.max \/ search.full
  THEN [search EXCEPT !.pending = {}, !.truncated = @ \/ search.pending # {}]
  ELSE search

SearchEntry(files, search) ==
  LET p == Min(search.pending)
      popped == [search EXCEPT !.pending = @ \ {p}, !.seen = @ \cup {p}]
      visited == [popped EXCEPT !.visited = @ + 1]
  IN IF search.visited = EntryLimit
     THEN [Truncated(popped) EXCEPT !.pending = {}]
     ELSE AfterEntry(IF p \in DOMAIN Entries THEN SearchDirectory(files, visited, p)
                     ELSE SearchFile(files, visited, p))

-----------------------------------------------------------------------------
(* Edits and plans.                                                        *)

(* check_text.                                                             *)
TextCode(text) ==
  IF Len(text) > FileLimit THEN "FileTooLarge"
  ELSE IF \E i \in Positions(text) : text[i] = Nul THEN "Binary" ELSE "ok"

(* check_base: the file is what the edit was written against.  An absent   *)
(* file is a base as well, that of create.                                 *)
BaseCode(files, p, expected) ==
  IF files[p] = None THEN IF expected = None THEN "ok" ELSE "Conflict"
  ELSE IF ~Readable(files, p) THEN ReadContent(files, p, FileLimit + 1)
  ELSE IF files[p] = expected THEN "ok" ELSE "Conflict"

Occurs(text, old, i) ==
  /\ i + Len(old) - 1 <= Len(text)
  /\ SubSeq(text, i, i + Len(old) - 1) = old

Splice(text, i, old, new) ==
  SubSeq(text, 1, i - 1) \o new \o SubSeq(text, i + Len(old), Len(text))

(* replace_exact: the one occurrence of the old text, or None.             *)
ReplaceExact(text, old, new) ==
  LET at == {i \in Positions(text) : Occurs(text, old, i)}
  IN IF old # << >> /\ Cardinality(at) = 1
     THEN Splice(text, CHOOSE i \in at : TRUE, old, new) ELSE None

(* apply_hunks: the hunks are in order, do not overlap, and each old text  *)
(* is there; what lies between them is copied.                             *)
HunksApply(text, hunks) ==
  /\ hunks # << >>
  /\ \A k \in Positions(hunks) :
       /\ hunks[k].start \in 1 .. Len(text) + 1
       /\ Occurs(text, hunks[k].old, hunks[k].start)
       /\ k > 1 => /\ hunks[k].start > hunks[k - 1].start
                   /\ hunks[k].start >= hunks[k - 1].start + Len(hunks[k - 1].old)

ApplyHunks(text, hunks) ==
  LET End(k) == IF k = 0 THEN 1 ELSE hunks[k].start + Len(hunks[k].old)
      Copied(k) == SubSeq(text, End(k - 1), hunks[k].start - 1) \o hunks[k].new
  IN IF ~HunksApply(text, hunks) THEN None
     ELSE FlattenSeq([k \in Positions(hunks) |-> Copied(k)])
          \o SubSeq(text, End(Len(hunks)), Len(text))

(* An edit of one file: its operation, its path, the digest it expects and *)
(* what it needs to make the new text.                                     *)
Expected(edit) == IF edit.op = "create" THEN None ELSE edit.expected

NewText(edit) ==
  CASE edit.op = "create" -> edit.content
    [] edit.op = "update" -> ApplyHunks(edit.expected, edit.hunks)
    [] edit.op = "replace" -> ReplaceExact(edit.expected, edit.old, edit.new)
    [] edit.op = "delete" -> << >>

Plan(edit) ==
  [path |-> edit.path, before |-> Expected(edit),
   after |-> IF edit.op = "delete" THEN None ELSE NewText(edit)]

(* One round of prepare: why an edit is refused, given the plans before it.*)
EditCode(files, plans, edit) ==
  IF ~Accepted(edit.path) THEN "ProtectedPath"
  ELSE IF \E i \in Positions(plans) : plans[i].path = edit.path THEN "InvalidPatch"
  ELSE IF BaseCode(files, edit.path, Expected(edit)) # "ok"
  THEN BaseCode(files, edit.path, Expected(edit))
  ELSE IF NewText(edit) = None THEN "InvalidPatch"
  ELSE TextCode(NewText(edit))

(* patch_effect_plan: the whole of prepare on the files as they are, for   *)
(* the intent of the call; None when an edit is refused.                   *)
EffectPlan(files, edits) ==
  LET plans == [i \in Positions(edits) |-> Plan(edits[i])]
  IN IF \A i \in Positions(edits) : EditCode(files, SubSeq(plans, 1, i - 1), edits[i]) = "ok"
     THEN plans ELSE None

(* The entries of the answer: every file starts as not applied.            *)
NotApplied(plans) == [i \in Positions(plans) |-> "not_applied"]

(* execute: an incomplete patch that changed something is in doubt.        *)
PatchOutcome(states, failure) ==
  IF failure = None THEN "success"
  ELSE IF \E i \in Positions(states) : states[i] # "not_applied" THEN "unknown" ELSE "failed"

(* patch_state of recovery: current_digest of every file of the plan, which *)
(* fails for a file that cannot be read.                                   *)
PatchState(files, plans) ==
  LET Current(i) == files[plans[i].path]
  IN IF \E i \in Positions(plans) : Current(i) # None /\ ~Readable(files, plans[i].path)
     THEN "unknown"
     ELSE IF \A i \in Positions(plans) : Current(i) = plans[i].after THEN "success"
     ELSE IF \A i \in Positions(plans) : Current(i) = plans[i].before THEN "failed"
     ELSE "unknown"
=============================================================================
