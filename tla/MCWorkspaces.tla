----------------------------- MODULE MCWorkspaces -----------------------------
(***************************************************************************)
(* TLC instances of what reads and writes working trees: the file and      *)
(* command tools of Nano, the trees of tasks from their baseline to their  *)
(* integration, and the discovery of the sources that the graph indexes.   *)
(* They share no state; a behaviour is one of a single part, and the       *)
(* variables of the others are None.                                       *)
(***************************************************************************)
EXTENDS NanoTools, TLC

CONSTANTS Parts, x, y, z,
          src, notes, rules, out, conf, store, t1, t2

VARIABLES part,
          trees, project, task, hq, approval, left, ghost,
          sources, disk, index, head, changes, scan, manifest, verdict, calm

treeVars == <<trees, project, task, hq, approval, left, ghost>>
sourceVars == <<sources, disk, index, head, changes, scan, manifest, verdict, calm>>
all == <<part, vars, treeVars, sourceVars>>

-----------------------------------------------------------------------------
(* A workspace with a file, a directory with two files in it and a protected *)
(* name, and the sessions that are looked at.                                *)
MCNames == 1 .. 5
MCEntries == 0 :> {1, 2, 3} @@ 2 :> {4, 5}

Files(a, b, c) == 1 :> a @@ 3 :> <<x>> @@ 4 :> b @@ 5 :> c

Base == [calls |-> << >>, edited |-> {1}, texts |-> {<<z>>}, maxEdits |-> 0, maxOutput |-> 0,
         cancels |-> FALSE, crashes |-> FALSE, files |-> Files(<<x, y>>, <<x>>, None)]

Patch(list) == [name |-> "apply_patch", edits |-> list]
Replace == [op |-> "replace", path |-> 1, expected |-> <<x, y>>, old |-> <<y>>, new |-> <<z>>]
Update == [op |-> "update", path |-> 4, expected |-> <<x>>,
           hunks |-> <<[start |-> 1, old |-> << >>, new |-> <<y>>],
                       [start |-> 2, old |-> << >>, new |-> <<z>>]>>]
Create == [op |-> "create", path |-> 5, content |-> <<y>>]
Delete == [op |-> "delete", path |-> 4, expected |-> <<x>>]
Outside == [op |-> "create", path |-> 3, content |-> <<y>>]

ReadCall(name, p, n) == [name |-> name, path |-> p, line |-> 1, lines |-> n]
Graph == [name |-> "repository_search"]
Exec == [name |-> "exec"]
OnCommand(name) == [name |-> name, command |-> 1]
SearchCall(starts, n) == [name |-> "search_text", starts |-> starts, query |-> x, max |-> n]
Load(guidance, skills) == [name |-> "load_instructions", guidance |-> guidance, skills |-> skills]

Reads == {ReadCall("read_file", 1, 1), ReadCall("repository_fallback", 4, 2), Graph}
Asks == {OnCommand("stop_process"), OnCommand("read_process"), OnCommand("read_output")}

MCPrograms ==
  {[Base EXCEPT !.calls = <<{Patch(<<Replace, Create>>), Patch(<<Delete, Replace>>),
                             Patch(<<Update, Outside>>), Patch(<<Create, Create>>)}>>,
                !.edited = {1, 4, 5}, !.texts = {<<z>>, None, <<Nul>>}, !.maxEdits = 2,
                !.cancels = TRUE, !.crashes = TRUE],
   [Base EXCEPT !.calls = <<Reads, {Patch(<<Replace>>), Patch(<<Delete>>)} \cup Reads, Reads>>,
                !.edited = {1}, !.maxEdits = 1],
   [Base EXCEPT !.calls = <<{ReadCall("read_file", 1, 2), Graph}, {Exec},
                            {Graph, OnCommand("stop_process")}, {Graph}>>,
                !.maxEdits = 1],
   [Base EXCEPT !.calls = <<{Exec}, Asks>>,
                !.maxOutput = 3, !.cancels = TRUE, !.crashes = TRUE],
   [Base EXCEPT !.calls = <<{Exec}, {Exec}, {Exec}>>, !.maxOutput = 1, !.crashes = TRUE],
   [Base EXCEPT !.calls = <<{SearchCall({0}, 1), SearchCall({0}, 2), SearchCall({0}, 3),
                             SearchCall({2, 4}, 3), Load({1, 5}, {4}), Load({1, 4}, {3})}>>,
                !.files = Files(<<x, y>>, <<x, x>>, <<y>>), !.edited = {1, 4, 5},
                !.texts = {<<Nul>>, None, <<x, x, x>>, <<x>>}, !.maxEdits = 2, !.cancels = TRUE]}

-----------------------------------------------------------------------------
TreePaths == {src, notes, rules, out, conf, store}
TreeContents == {1, 2}

(* The ignore file: one for build output and a store, one for the notes as *)
(* well, and none.                                                         *)
TreeRules ==
  (None :> {conf}) @@ (1 :> {out, conf, store}) @@ (2 :> {out, conf, store, notes})

TreeCommitted == (src :> 1) @@ (rules :> 1) @@ [p \in TreePaths |-> None]

(* The person has changed src, keeps untracked notes, an ignored store and  *)
(* the ignored configuration of an agent.                                  *)
Dirty ==
  [files |-> (src :> 2) @@ (notes :> 1) @@ (conf :> 1) @@ (store :> 2) @@ TreeCommitted,
   index |-> TreeCommitted, head |-> TreeCommitted]
Unborn == [Dirty EXCEPT !.head = None, !.index = [@ EXCEPT ![rules] = None]]

TreeEdit(p, v) == [path |-> p, value |-> v]

TreeBounds(e, p, f, r) == [edits |-> e, person |-> p, troubles |-> f, rejections |-> r]

OneTask(w, graph, made, bounds) ==
  [git |-> TRUE, graph |-> graph, project |-> w, tasks |-> {t1}, edits |-> made,
   person |-> {TreeEdit(src, 1), TreeEdit(notes, 2), TreeEdit(conf, 2)}, staged |-> {src, notes},
   artifacts |-> {out}, sparse |-> {}, gitlinks |-> {}, bounds |-> bounds]

TreePrograms ==
  { (* Every kind of edit, with the graph and without. *)
    OneTask(w, graph, {TreeEdit(src, 1), TreeEdit(notes, None), TreeEdit(notes, 2), TreeEdit(rules, 2),
                       TreeEdit(rules, None)},
            TreeBounds(2, 0, 1, 1)) : w \in {Dirty, Unborn}, graph \in BOOLEAN }
  \cup
  { (* A file that Git ignores and the Executor adds all the same. *)
    [OneTask(Dirty, graph, {TreeEdit(store, 1), TreeEdit(src, 1)}, TreeBounds(2, 0, 1, 0))
       EXCEPT !.staged = {store}] : graph \in BOOLEAN }
  \cup
  { (* A person at work. *)
    OneTask(Dirty, graph, {TreeEdit(src, 1), TreeEdit(notes, 2)}, TreeBounds(1, 2, 1, 1)) :
      graph \in BOOLEAN }
  \cup
  { (* Two tasks. *)
    [OneTask(Dirty, FALSE, {TreeEdit(src, 1), TreeEdit(notes, 2)}, TreeBounds(2, 0, 1, 0))
       EXCEPT !.tasks = {t1, t2}],
    (* A directory without Git. *)
    [OneTask(Dirty, FALSE, {TreeEdit(src, 1)}, TreeBounds(1, 1, 1, 1)) EXCEPT !.git = FALSE],
    (* A sparse checkout, and a submodule. *)
    [OneTask(Dirty, FALSE, {TreeEdit(src, 1)}, TreeBounds(1, 0, 0, 0)) EXCEPT !.sparse = {src}],
    [OneTask(Dirty, FALSE, {TreeEdit(src, 1)}, TreeBounds(1, 0, 0, 0)) EXCEPT !.gitlinks = {src}] }

Trees ==
  INSTANCE TaskTrees
    WITH Paths <- TreePaths, Contents <- TreeContents, IgnoreFile <- rules,
         IgnoreRules <- TreeRules, RuntimePaths <- {}, AgentConfigs <- {conf},
         GraphPaths <- TreePaths, Tasks <- {t1, t2}, Programs <- TreePrograms,
         program <- trees

-----------------------------------------------------------------------------
(* Small repositories.  1 is src, 2 and 3 are file names, 4 is vendor, 5 is *)
(* Target and 6 its lower-case form target, 7 is .env and 8 is .ENV, 9 is a *)
(* name that cannot be written as a path, and 10 is .git.                  *)
Deep == {}  \* `**`, as in SourcePolicy

SourceFold(n) == CASE n = 5 -> 6 [] n = 8 -> 7 [] OTHER -> n

SourcePaths ==
  {<<1>>, <<1, 1>>, <<1, 1, 2>>, <<1, 1, 1>>, <<1, 1, 1, 2>>, <<1, 2>>, <<1, 3>>, <<2>>, <<4>>,
   <<4, 2>>, <<5>>, <<5, 2>>, <<8>>, <<9>>, <<3>>, <<3, 2>>, <<10>>, <<10, 2>>}

Text(t, size) == [kind |-> "file", text |-> t, size |-> size, binary |-> FALSE, exec |-> FALSE]

Binary == [Text(0, 1) EXCEPT !.binary = TRUE]

Of(kind) == [Text(0, 1) EXCEPT !.kind = kind]

With(entries) == [p \in SourcePaths |-> IF p \in DOMAIN entries THEN entries[p] ELSE None]

Everything == {<<Deep>>}

Rule(negated, pattern) == [negated |-> negated, pattern |-> pattern]

Plain ==
  [include |-> Everything, rules |-> << >>, sensitive |-> {<<Deep, {7}>>},
   untracked |-> TRUE, vendor |-> FALSE, generated |-> FALSE]

Wide == [files |-> 9, fileBytes |-> 3, totalBytes |-> 20, directories |-> 9, diagnostics |-> 3]

SourceCommitted ==
  With(<<1, 2>> :> Text(1, 1) @@ <<1, 3>> :> Text(1, 2) @@ <<4, 2>> :> Text(1, 1))

GitProgram ==
  [git |-> TRUE, policy |-> Plain, limits |-> Wide, disk |-> SourceCommitted, index |-> SourceCommitted,
   head |-> SourceCommitted, ignored |-> {<<5, 2>>}, hidden |-> {}, locked |-> {}, edits |-> 2,
   changes |-> {<<1, 2>> :> Text(2, 1), <<1, 2>> :> Text(1, 1), <<1, 3>> :> None,
                <<2>> :> Text(1, 1)}]

(* Everything git can list that is no plain tracked file.                  *)
Odd ==
  With(<<1, 2>> :> Text(1, 1) @@ <<1, 3>> :> Of("symlink") @@ <<2>> :> Of("gitlink")
       @@ <<8>> :> Text(1, 1) @@ <<9>> :> Text(1, 1))

SourcePrograms ==
  {GitProgram,
   \* a tracked file that git is told not to look at, and one that is ignored
   [GitProgram EXCEPT !.hidden = {<<1, 3>>}, !.edits = 1,
      !.disk = [SourceCommitted EXCEPT ![<<1, 3>>] = Text(2, 2), ![<<5, 2>>] = Text(1, 1)],
      !.changes = {<<1, 2>> :> Binary, <<1, 2>> :> Of("special")}],
   \* before the first commit, with the untracked files left out
   [GitProgram EXCEPT !.head = None, !.policy = [Plain EXCEPT !.untracked = FALSE]],
   [GitProgram EXCEPT !.disk = Odd, !.index = Odd, !.head = Odd, !.edits = 1,
      !.changes = {<<1, 2>> :> Of("symlink"), <<1, 3>> :> Text(3, 3)}],
   [GitProgram EXCEPT !.index = [SourceCommitted EXCEPT ![<<1, 2>>] = Of("conflict"),
                                                  ![<<1, 3>>] = Of("special")], !.edits = 0],
   \* limits that an edit goes beyond
   [GitProgram EXCEPT !.limits = [Wide EXCEPT !.totalBytes = 4, !.files = 3],
      !.changes = {<<1, 2>> :> Text(2, 3), <<1, 3>> :> Text(2, 4), <<2>> :> Text(1, 1)}],
   [GitProgram EXCEPT !.limits = [Wide EXCEPT !.directories = 2], !.edits = 0],
   \* no Git: directories that are pruned, locked, too deep, and replaced
   [GitProgram EXCEPT !.git = FALSE,
      !.disk = With(<<1, 2>> :> Text(1, 1) @@ <<1, 1, 2>> :> Text(1, 1)
                    @@ <<1, 1, 1, 2>> :> Text(1, 1) @@ <<4, 2>> :> Text(1, 1)
                    @@ <<5, 2>> :> Text(1, 1) @@ <<8>> :> Text(1, 1) @@ <<9>> :> Text(1, 1)
                    @@ <<3, 2>> :> Text(1, 1) @@ <<10, 2>> :> Text(1, 1)),
      !.locked = {<<3>>}, !.edits = 1,
      !.changes = {<<1, 2>> :> Text(2, 1), <<1, 1, 2>> :> None @@ <<1, 1, 1, 2>> :> None,
                   <<1, 1>> :> Of("symlink") @@ <<1, 1, 2>> :> None @@ <<1, 1, 1, 2>> :> None,
                   <<1, 2>> :> Of("locked")}],
   [GitProgram EXCEPT !.git = FALSE,
      !.disk = With(<<1, 2>> :> Text(1, 1) @@ <<1, 3>> :> Binary @@ <<2>> :> Of("special")),
      !.limits = [Wide EXCEPT !.files = 3, !.totalBytes = 5, !.directories = 2],
      !.changes = {<<1, 2>> :> Text(2, 3), <<1, 2>> :> Text(2, 4), <<3, 2>> :> Text(1, 1),
                   <<3>> :> Text(1, 1)}]}
  \cup
  \* what the policies make of the paths
  {[GitProgram EXCEPT !.git = FALSE, !.edits = 0,
      !.disk = With(<<1, 2>> :> Text(1, 1) @@ <<1, 1, 2>> :> Text(1, 1) @@ <<3, 2>> :> Text(1, 1)),
      !.policy = [Plain EXCEPT !.include = {i}, !.rules = r, !.sensitive = {s}]] :
     i \in {<<Deep>>, <<{1}, Deep>>, <<{1}, {2}>>, <<Deep, {1}, {2}>>, <<{1}, Deep, {2}>>, <<{2}>>},
     r \in {<< >>, <<Rule(FALSE, <<{1}, {1}, Deep>>)>>, <<Rule(FALSE, <<{3}>>), Rule(TRUE, <<{2}>>)>>,
            <<Rule(FALSE, <<{1}>>), Rule(TRUE, <<{1}, {2}>>), Rule(FALSE, <<Deep, {1}, {1}, Deep>>)>>},
     s \in {<<{7}>>, <<Deep, {1}, Deep, {1}, Deep>>}}

Discovery ==
  INSTANCE SourceDiscovery
    WITH Fold <- SourceFold, RuntimeNames <- {10}, VendorNames <- {4}, GeneratedNames <- {6},
         UnsupportedNames <- {9}, MaxDirectoryDepth <- 3, Programs <- SourcePrograms,
         Paths <- SourcePaths, program <- sources, edits <- changes

-----------------------------------------------------------------------------
NoTools ==
  /\ program = None /\ files = None /\ temps = None /\ host = None /\ cancelled = None
  /\ op = None /\ pending = None /\ recorded = None /\ messages = None /\ shown = None
  /\ refresh = None /\ overlay = None /\ cache = None /\ own = None /\ edits = None
  /\ proc = None /\ entry = None /\ spool = None /\ charged = None /\ attempts = None
  /\ closed = None
NoTrees ==
  /\ trees = None /\ project = None /\ task = None /\ hq = None /\ approval = None
  /\ left = None /\ ghost = None
NoSources ==
  /\ sources = None /\ disk = None /\ index = None /\ head = None /\ changes = None
  /\ scan = None /\ manifest = None /\ verdict = None /\ calm = None

MCInit ==
  /\ part \in Parts
  /\ IF part = "tools" THEN Init ELSE NoTools
  /\ IF part = "trees" THEN Trees!Init ELSE NoTrees
  /\ IF part = "sources" THEN Discovery!Init ELSE NoSources

MCNext ==
  \/ part = "tools" /\ Next /\ UNCHANGED <<part, treeVars, sourceVars>>
  \/ part = "trees" /\ Trees!Next /\ UNCHANGED <<part, vars, sourceVars>>
  \/ part = "sources" /\ Discovery!Next /\ UNCHANGED <<part, vars, treeVars>>

MCSpec == MCInit /\ [][MCNext]_all

-----------------------------------------------------------------------------

(* The evidence a preparation keeps is what the files hold then, and a     *)
(* graph query sees the session's own work.                                *)
EvidenceHolds == [][part = "tools" => PreparesAndQueries]_all

(* The baseline of a task is what its Executor saw first, its submission   *)
(* what the Executor changed since, its overlay what is in the workspace,  *)
(* and its integration that submission on top of the person's files.       *)
TreesExact ==
  part = "trees" =>
    /\ Trees!BaselinesHold /\ Trees!SubmissionsTrue /\ Trees!OverlaysExact
    /\ Trees!IntegrationExact


(* "Include the user's existing changes in the baseline so submission       *)
(* attributes only subsequent Executor changes to this task".              *)
SubmissionsAttributed == part = "trees" => Trees!SubmissionsAttributed

(* A manifest that revalidate accepts lists what is on the disk, within the *)
(* limits, and the walk prunes nothing that is wanted.                     *)
ManifestsTrue ==
  part = "sources" =>
    /\ Discovery!RevalidatedIsCurrent /\ Discovery!DiscoveryBounded
    /\ Discovery!PruningLosesNothing
=============================================================================
