--------------------------- MODULE IndexPublication ---------------------------
(***************************************************************************)
(* What becomes of the facts of an index job: uploaded sources, batches of *)
(* facts, immutable revisions, published views, and the deletion of all of *)
(* it (src/src/distributed: object_store.rs, fact_store_sqlite.rs,         *)
(* worker/execution.rs, publication_sqlite.rs, maintenance_sqlite.rs).     *)
(*                                                                         *)
(* There are three databases: objects, facts, and the control database     *)
(* with the jobs, revisions, views and deletions.  A transaction of one of *)
(* them is a step; nothing spans two.  An execution of a worker and a call *)
(* of delete are sequences of such steps and may stop for ever after any.  *)
(* One project with one repository and one view per domain.  The           *)
(* coordinator of IndexJobs appears by what it grants: a lease is a worker *)
(* and a generation, and may run out whenever it is held.                  *)
(***************************************************************************)
EXTENDS Integers, Sequences, FiniteSets

CONSTANTS Jobs,         \* job ids
          DomainOf,     \* job -> "graph" (repository_graph) or "memory"
          TargetOf,     \* job -> expected_snapshot_id or expected_revision_id
          LinkedTo,     \* job -> repository_snapshot of a memory job, or None
          Extractions,  \* what extracting a source may yield, a sequence of batches
          MaxRevisions, \* RemoteStoreLimits.max_snapshots_per_project
          Deletions,    \* deletion ids, each with its own idempotency key
          Whole,        \* the deletions of the project; the others: of the repository
          Coverage,     \* deletion -> set of retention classes
          Calls,        \* processes that call delete
          Workers,      \* worker ids
          None,
          MaxSubmits, MaxClaims, MaxFaults, MaxBegins  \* bounds on the environment

ASSUME DomainAssumption == DomainOf \in [Jobs -> {"graph", "memory"}]
ASSUME CoverageAssumption == \A d \in Deletions \ Whole : "source" \notin Coverage[d]
ASSUME BoundsAssumption ==
  /\ MaxRevisions \in Nat
  /\ MaxSubmits \in Nat /\ MaxClaims \in Nat /\ MaxFaults \in Nat /\ MaxBegins \in Nat

VARIABLES objects,    \* the source packages of the project: absent, stored or lost
          batches,    \* unpublished_fact_batches: job -> (sequence -> batch)
          job,        \* distributed_index_jobs: state, lease worker and generation
          revisions,  \* remote_immutable_revisions
          published,  \* remote_published_targets
          view,       \* remote_graph_views, remote_memory_views
          links,      \* remote_memory_repository_link_sets
          receipts,   \* remote_publication_receipts
          grave,      \* store -> its project_deletion_tombstones
          deletion,   \* remote_deletions: the state of each
          attempt,    \* what each worker is executing
          call,       \* the deletions under way
          used        \* how much of each bound is used up

stores == <<objects, batches>>
control == <<job, revisions, published, view, links, receipts>>
pubVars == <<objects, batches, job, revisions, published, view, links, receipts,
             grave, deletion, attempt, call, used>>

Domains == {"graph", "memory"}
(* RetentionClass; "rest" is QueryCache and AuditRecord, not modelled.      *)
Classes == {"source", "facts", "graph", "memory", "rest"}
NoJob == [state |-> "absent", worker |-> None, gen |-> 0]
NoCall == [id |-> None, stage |-> "idle", jobs |-> {}, left |-> FALSE, alone |-> FALSE]

Init ==
  /\ objects = "absent"
  /\ batches = [j \in Jobs |-> {}]
  /\ job = [j \in Jobs |-> NoJob]
  /\ revisions = {} /\ published = {} /\ links = {} /\ receipts = {}
  /\ view = [d \in Domains |-> None]
  /\ grave = [s \in {"objects", "facts", "control"} |-> None]
  /\ deletion = [d \in Deletions |-> "absent"]
  /\ attempt = [w \in Workers |-> None]
  /\ call = [p \in Calls |-> NoCall]
  /\ used = [submits |-> 0, claims |-> 0, faults |-> 0, begins |-> 0]

-----------------------------------------------------------------------------
(* The client and the coordinator.                                         *)

(* put_verified_batch: a package is stored whole or not at all, and refused *)
(* when its rows are there but its files are not (decrypt_file).           *)
Upload ==
  /\ grave["objects"] = None
  /\ objects # "lost"
  /\ objects' = "stored"
  /\ UNCHANGED <<batches, control, grave, deletion, attempt, call, used>>

(* submit: a job of a deleted project is refused.                          *)
Submit(j) ==
  /\ grave["control"] = None
  /\ job[j].state = "absent"
  /\ used.submits < MaxSubmits
  /\ used' = [used EXCEPT !.submits = @ + 1]
  /\ job' = [job EXCEPT ![j] = [NoJob EXCEPT !.state = "queued"]]
  /\ UNCHANGED <<stores, revisions, published, view, links, receipts, grave,
                 deletion, attempt, call>>

(* claim and start.  execute does not return before it is done, so that a  *)
(* worker that claims again has left its earlier execution.                *)
Claim(w, j) ==
  /\ job[j].state = "queued"
  /\ used.claims < MaxClaims
  /\ used' = [used EXCEPT !.claims = @ + 1]
  /\ job' = [job EXCEPT ![j] = [state |-> "running", worker |-> w, gen |-> @.gen + 1]]
  /\ attempt' = [attempt EXCEPT ![w] =
       [job |-> j, worker |-> w, gen |-> job[j].gen + 1, stage |-> "extract",
        found |-> <<>>, next |-> 1, loaded |-> {}, expected |-> None]]
  /\ UNCHANGED <<stores, revisions, published, view, links, receipts, grave,
                 deletion, call>>

(* A lease runs out and is reclaimed, its holder gives up, or the job is   *)
(* cancelled.  A failed job differs from a cancelled one in nothing here.  *)
LoseLease(j, next) ==
  /\ job[j].state \in {"running", "publishing"}
  /\ used.faults < MaxFaults
  /\ used' = [used EXCEPT !.faults = @ + 1]
  /\ job' = [job EXCEPT ![j] = [@ EXCEPT !.state = next, !.worker = None]]
  /\ UNCHANGED <<stores, revisions, published, view, links, receipts, grave,
                 deletion, attempt, call>>

-----------------------------------------------------------------------------
(* A worker: WorkerRuntime::execute, then the publication.                 *)

Goto(a, b) == attempt' = [attempt EXCEPT ![a.worker] = b]

Holds(a, state) ==
  job[a.job] = [state |-> state, worker |-> a.worker, gen |-> a.gen]

(* authorize, read_object_bounded and the extractors.  Budgets of time and *)
(* facts make the outcome differ from one execution to the next.           *)
Extract(a) ==
  /\ a.stage = "extract"
  /\ Holds(a, "running")
  /\ objects = "stored"
  /\ \E e \in Extractions : Goto(a, [a EXCEPT !.stage = "write", !.found = e])
  /\ UNCHANGED <<stores, control, grave, deletion, call, used>>

Batch(e, n) == [sequence |-> n, payload |-> e[n], final |-> n = Len(e)]

HasFinal(stored) == \E x \in stored : x.final

(* put_inner: batches of settled jobs are dropped before one is inserted.  *)
Swept == [j \in Jobs |-> IF job[j].state \in {"complete", "failed", "cancelled"}
                           THEN {} ELSE batches[j]]

Taken(a, n) == \E x \in batches[a.job] : x.sequence = n

MutStored(a, n) == Taken(a, n)

(* The batch is there already: reused when equal, else SequenceConflict.   *)
Stored(a, n) == Batch(a.found, n) \in batches[a.job]

Writable(a) == grave["facts"] = None /\ Holds(a, "running")

(* authorize and put_inner for the next batch.  A reused batch rolls its   *)
(* transaction back.                                                       *)
PutBatch(a) ==
  /\ a.stage = "write"
  /\ a.next <= Len(a.found)
  /\ Writable(a)
  /\ \/ Stored(a, a.next) /\ batches' = batches
     \/ /\ ~Taken(a, a.next)
        /\ ~HasFinal(batches[a.job])
        /\ batches' = [Swept EXCEPT ![a.job] = @ \cup {Batch(a.found, a.next)}]
  /\ Goto(a, [a EXCEPT !.next = @ + 1])
  /\ UNCHANGED <<objects, control, grave, deletion, call, used>>

(* progress_is_complete, validate_batch_stream: one batch for each number  *)
(* from the first on, the last and only the last of them final.            *)
WholeStream(s) ==
  /\ {x.sequence : x \in s} = 1..Cardinality(s)
  /\ \A x \in s : x.final <=> x.sequence = Cardinality(s)
  /\ s # {}

(* The progress check that ends execute, then begin_publication.           *)
BeginPublication(a) ==
  /\ a.stage = "write"
  /\ a.next > Len(a.found)
  /\ WholeStream(batches[a.job])
  /\ Holds(a, "running")
  /\ job' = [job EXCEPT ![a.job].state = "publishing"]
  /\ Goto(a, [a EXCEPT !.stage = "load", !.found = <<>>])
  /\ UNCHANGED <<stores, revisions, published, view, links, receipts, grave,
                 deletion, call, used>>

(* load_for_ingestion, and the view the publisher means to replace.        *)
Load(a) ==
  /\ a.stage = "load"
  /\ Goto(a, [a EXCEPT !.stage = "publish", !.loaded = batches[a.job],
                       !.expected = view[DomainOf[a.job]]])
  /\ UNCHANGED <<stores, control, grave, deletion, call, used>>

-----------------------------------------------------------------------------
(* publish_graph_prepared and publish_memory_prepared: one transaction.    *)

Revision(domain, id, facts) ==
  [domain |-> domain, id |-> id, facts |-> facts]

Has(domain, id) == \E r \in revisions : r.domain = domain /\ r.id = id

Published(domain, id) == <<domain, id>> \in published

(* insert_revision after its quota: an immutable row, or the same again.   *)
Insertable(new) ==
  /\ \A r \in revisions, n \in new :
       r.domain = n.domain /\ r.id = n.id => r.facts = n.facts
  /\ Cardinality(revisions \cup new) <= MaxRevisions

MutCurrentTarget(a, actual) ==
  \/ actual = a.expected
  \/ actual # None /\ actual.id = TargetOf[a.job]

(* graph_expected_matches, memory_expected_matches: compared before the    *)
(* target is looked at.                                                    *)
CurrentTarget(a, actual) == actual = a.expected

(* next_generation, upsert_graph_view, upsert_memory_view; the view of the *)
(* same target is left alone.                                              *)
NextView(a, actual) ==
  IF actual # None /\ actual.id = TargetOf[a.job] THEN actual
  ELSE [id |-> TargetOf[a.job], job |-> a.job,
        generation |-> IF actual = None THEN 1 ELSE actual.generation + 1]

(* The link set of a memory revision with the graph it was resolved        *)
(* against, itself an immutable revision.                                  *)
Link(a) == <<TargetOf[a.job], LinkedTo[a.job]>>

Linkable(a) ==
  LinkedTo[a.job] # None =>
    Has("graph", <<LinkedTo[a.job]>>) /\ Published("graph", LinkedTo[a.job])

Receipt(a, outcome) ==
  [job |-> a.job, gen |-> a.gen, expected |-> a.expected, outcome |-> outcome]

(* ensure_project_not_deleted, require_publication_authority.              *)
Authority(a) == grave["control"] = None /\ Holds(a, "publishing")

(* The same request again is answered from its receipt (replay_publication) *)
(* and changes nothing; an error rolls everything back.                    *)
Publish(a) ==
  LET d == DomainOf[a.job]
      row == Revision(d, <<TargetOf[a.job]>>, a.loaded)
      linkRows == IF LinkedTo[a.job] = None THEN {}
                  ELSE {Revision("links", Link(a), a.loaded)}
      wins == CurrentTarget(a, view[d])
  IN /\ a.stage = "publish"
     /\ Authority(a)
     /\ WholeStream(a.loaded)
     /\ Linkable(a)
     /\ \A r \in receipts : r.job # a.job
     /\ LET new == {row} \cup (IF wins THEN linkRows ELSE {})
        IN /\ Insertable(new)
           /\ revisions' = revisions \cup new
     /\ published' = IF wins THEN published \cup {<<d, TargetOf[a.job]>>} ELSE published
     /\ view' = IF wins THEN [view EXCEPT ![d] = NextView(a, @)] ELSE view
     /\ links' = IF wins /\ LinkedTo[a.job] # None THEN links \cup {Link(a)} ELSE links
     /\ receipts' = receipts \cup
          {Receipt(a, IF wins THEN "published" ELSE "superseded")}
     /\ job' = [job EXCEPT ![a.job] = [@ EXCEPT !.state = "complete", !.worker = None]]
     /\ Goto(a, None)
     /\ UNCHANGED <<stores, grave, deletion, call, used>>

-----------------------------------------------------------------------------
(* delete: the steps of one call of SqliteRemoteMaintenance::delete.       *)

Covers(d, class) == class \in Coverage[d]

(* is_full_project_deletion.                                               *)
Full(d) == d \in Whole /\ Coverage[d] = Classes

(* install_store_tombstone: refused while another deletion has one.        *)
Tombstoned(store, d) == [grave EXCEPT ![store] = d]

CanTombstone(store, d) == grave[store] \in {None, d}

Lifted(store, d) == [grave EXCEPT ![store] = IF @ = d THEN None ELSE @]

(* The stages of execute_deletion and of the release of tombstones.        *)
FirstPurge(d) == IF Covers(d, "source") THEN "objects"
                 ELSE IF Covers(d, "facts") THEN "facts" ELSE "inspect"

MutFirstRelease(d) ==
  IF Covers(d, "facts") THEN "release_facts"
  ELSE IF Covers(d, "source") THEN "release_objects" ELSE "release_control"

FirstRelease(d) ==
  CASE Full(d) -> "idle"
    [] ~Full(d) /\ Covers(d, "facts") -> "release_facts"
    [] ~Full(d) /\ ~Covers(d, "facts") /\ Covers(d, "source") -> "release_objects"
    [] OTHER -> "release_control"

At(p, stage) == [call EXCEPT ![p] = IF stage = "idle" THEN NoCall
                                      ELSE [@ EXCEPT !.stage = stage]]

(* begin: a complete deletion is only released again.                      *)
Begin(p, d) ==
  /\ call[p] = NoCall
  /\ used.begins < MaxBegins
  /\ CanTombstone("control", d)
  /\ used' = [used EXCEPT !.begins = @ + 1]
  /\ grave' = Tombstoned("control", d)
  /\ deletion' = [deletion EXCEPT ![d] = IF @ = "absent" THEN "running" ELSE @]
  /\ LET stage == IF deletion[d] = "complete" THEN FirstRelease(d) ELSE "list"
         others == {q \in Calls \ {p} : call[q].id = d}
     IN call' = [q \in Calls |->
          CASE q = p /\ stage # "idle" ->
                 [NoCall EXCEPT !.id = d, !.stage = stage, !.alone = others = {}]
            [] q \in others -> [call[q] EXCEPT !.alone = FALSE]
            [] OTHER -> call[q]]
  /\ UNCHANGED <<stores, control, attempt>>

MutRepositoryJobs == {j \in Jobs : job[j].state = "queued" /\ DomainOf[j] = "graph"}

(* repository_jobs: the jobs of the repository, whatever their state.      *)
RepositoryJobs == {j \in Jobs : job[j].state # "absent" /\ DomainOf[j] = "graph"}

ListJobs(p) ==
  /\ call[p].stage = "list"
  /\ call' = [At(p, FirstPurge(call[p].id)) EXCEPT ![p].jobs =
                IF call[p].id \in Whole THEN {} ELSE RepositoryJobs]
  /\ UNCHANGED <<stores, control, grave, deletion, attempt, used>>

(* record_progress, persist_progress: a failed deletion runs again.  It is *)
(* a transaction of its own, but nothing depends on what it changes.       *)
Progress(d) ==
  deletion' = [deletion EXCEPT ![d] = IF @ = "complete" THEN @ ELSE "running"]

(* delete_project_objects, record_progress.                                *)
PurgeObjects(p) ==
  LET d == call[p].id
  IN /\ call[p].stage = "objects"
     /\ CanTombstone("objects", d)
     /\ grave' = Tombstoned("objects", d)
     /\ objects' = "absent"
     /\ Progress(d)
     /\ call' = At(p, IF Covers(d, "facts") THEN "facts" ELSE "inspect")
     /\ UNCHANGED <<batches, control, attempt, used>>

(* delete_unpublished_facts, record_progress.                              *)
PurgeFacts(p) ==
  LET d == call[p].id
  IN /\ call[p].stage = "facts"
     /\ CanTombstone("facts", d)
     /\ grave' = Tombstoned("facts", d)
     /\ batches' = [j \in Jobs |-> IF d \in Whole \/ j \in call[p].jobs
                                     THEN {} ELSE batches[j]]
     /\ Progress(d)
     /\ call' = At(p, "inspect")
     /\ UNCHANGED <<objects, control, attempt, used>>

(* repository_jobs_have_unpublished_facts.                                 *)
InspectFacts(p) ==
  LET d == call[p].id
  IN /\ call[p].stage = "inspect"
     /\ call' = [At(p, "control") EXCEPT ![p].left =
          /\ d \notin Whole
          /\ Covers(d, "graph") \/ Covers(d, "facts")
               => \E j \in call[p].jobs : batches[j] # {}]
     /\ UNCHANGED <<stores, control, grave, deletion, attempt, used>>

(* cancel_covered_jobs and the DELETE of job rows.                         *)
Cancelled(p, j) ==
  LET d == call[p].id
  IN IF d \in Whole THEN Covers(d, "facts")
     ELSE j \in call[p].jobs /\ (Covers(d, "graph") \/ Covers(d, "facts"))

Erased(p, j, rows) ==
  LET d == call[p].id
  IN IF d \in Whole THEN Covers(d, DomainOf[j])
     ELSE /\ j \in call[p].jobs
          /\ ~call[p].left
          /\ \A r \in rows : r.domain # "graph"
          /\ Covers(d, "graph") \/ Covers(d, "facts")

MutDropsLinks(d) == FALSE

DropsLinks(d) == Covers(d, "graph") \/ (Covers(d, "memory") /\ d \in Whole)

Drops(d, domain) ==
  CASE domain = "graph" -> Covers(d, "graph")
    [] domain = "memory" -> Covers(d, "memory") /\ d \in Whole
    [] domain = "links" -> DropsLinks(d)

(* delete_control_data.  Deleting a revision deletes its mark and its      *)
(* receipt, deleting a job its receipt (ON DELETE CASCADE).                *)
PurgeControl(p) ==
  LET d == call[p].id
      kept == {r \in revisions : ~Drops(d, r.domain)}
  IN /\ call[p].stage = "control"
     /\ revisions' = kept
     /\ published' = {t \in published : ~Drops(d, t[1])}
     /\ view' = [x \in Domains |-> IF Drops(d, x) THEN None ELSE view[x]]
     /\ links' = IF DropsLinks(d) THEN {} ELSE links
     /\ receipts' = {r \in receipts : ~Drops(d, DomainOf[r.job]) /\ ~Erased(p, r.job, kept)}
     /\ job' = [j \in Jobs |->
          CASE Erased(p, j, kept) -> NoJob
            [] ~Erased(p, j, kept) /\ Cancelled(p, j) /\ job[j].state # "absent" ->
                 [job[j] EXCEPT !.state = "cancelled", !.worker = None]
            [] OTHER -> job[j]]
     /\ Progress(d)
     /\ call' = At(p, "finish")
     /\ UNCHANGED <<stores, grave, attempt, used>>

Finish(p) ==
  /\ call[p].stage = "finish"
  /\ deletion' = [deletion EXCEPT ![call[p].id] = "complete"]
  /\ call' = At(p, FirstRelease(call[p].id))
  /\ UNCHANGED <<stores, control, grave, attempt, used>>

MutReleaseFacts(p) ==
  /\ call[p].stage = "release_facts"
  /\ call' = At(p, IF Covers(call[p].id, "source") THEN "release_objects"
                   ELSE "release_control")
  /\ UNCHANGED <<stores, control, grave, deletion, attempt, used>>

(* release_temporary_tombstones, a transaction for each store.             *)
ReleaseFacts(p) ==
  /\ call[p].stage = "release_facts"
  /\ grave' = Lifted("facts", call[p].id)
  /\ call' = At(p, IF Covers(call[p].id, "source") THEN "release_objects"
                   ELSE "release_control")
  /\ UNCHANGED <<stores, control, deletion, attempt, used>>

ReleaseObjects(p) ==
  /\ call[p].stage = "release_objects"
  /\ grave' = Lifted("objects", call[p].id)
  /\ call' = At(p, "release_control")
  /\ UNCHANGED <<stores, control, deletion, attempt, used>>

ReleaseControl(p) ==
  /\ call[p].stage = "release_control"
  /\ grave' = Lifted("control", call[p].id)
  /\ call' = At(p, "idle")
  /\ UNCHANGED <<stores, control, deletion, attempt, used>>

(* record_failure: noted of execute_deletion unless it is complete.        *)
FailureNoted(p) ==
  /\ call[p].stage \in {"list", "objects", "facts", "inspect", "control"}
  /\ deletion[call[p].id] # "complete"
  /\ deletion' = [deletion EXCEPT ![call[p].id] = "failed"]

(* A store is unavailable, or the process ends.  delete_project_objects    *)
(* removes the files inside its transaction, which rolls back without them. *)
Abort(p) ==
  /\ call[p] # NoCall
  /\ used.faults < MaxFaults
  /\ used' = [used EXCEPT !.faults = @ + 1]
  /\ FailureNoted(p) \/ deletion' = deletion
  /\ \/ objects' = objects
     \/ call[p].stage = "objects" /\ objects = "stored" /\ objects' = "lost"
  /\ call' = At(p, "idle")
  /\ UNCHANGED <<batches, control, grave, attempt>>

-----------------------------------------------------------------------------
Client == Upload \/ \E j \in Jobs :
  \/ Submit(j)
  \/ \E w \in Workers : Claim(w, j)
  \/ \E next \in {"queued", "cancelled"} : LoseLease(j, next)

Worker == \E a \in {attempt[w] : w \in Workers} \ {None} :
  \/ Extract(a)
  \/ PutBatch(a)
  \/ BeginPublication(a)
  \/ Load(a)
  \/ Publish(a)

Delete == \E p \in Calls :
  \/ \E d \in Deletions : Begin(p, d)
  \/ ListJobs(p)
  \/ PurgeObjects(p)
  \/ PurgeFacts(p)
  \/ InspectFacts(p)
  \/ PurgeControl(p)
  \/ Finish(p)
  \/ ReleaseFacts(p)
  \/ ReleaseObjects(p)
  \/ ReleaseControl(p)
  \/ Abort(p)

Next == Client \/ Worker \/ Delete

Spec == Init /\ [][Next]_pubVars

(* What is stored for ever is what one execution extracted, although an    *)
(* execution may take over the batches of an earlier one that extracted    *)
(* something else.                                                         *)
RevisionsAreWhole ==
  \A r \in revisions : \E e \in Extractions :
    r.facts = {Batch(e, n) : n \in DOMAIN e}

(* Every view names a stored, published revision, and every link set two   *)
(* of them: a reader of a view or of a federated view finds what it names, *)
(* whatever has been deleted.                                              *)
ReferencesResolve ==
  /\ \A d \in Domains : view[d] # None =>
       Has(d, <<view[d].id>>) /\ Published(d, view[d].id)
  /\ \A l \in links :
       /\ Has("memory", <<l[1]>>) /\ Published("memory", l[1])
       /\ Has("graph", <<l[2]>>) /\ Published("graph", l[2])
       /\ Has("links", l)

(* A reader always finds the whole of what one execution extracted.        *)
StoredIsWhole == RevisionsAreWhole /\ ReferencesResolve

(* A publication is reported as done only if the view it replaced was the  *)
(* one its publisher had seen, be it with the same content.                *)
StalePublisherLoses ==
  \A r \in receipts' \ receipts :
    r.outcome = "published" => r.expected = view[DomainOf[r.job]]

Empty(class) ==
  CASE class = "source" -> objects = "absent"
    [] class = "facts" -> \A j \in Jobs : batches[j] = {}
    [] class \in Domains -> view[class] = None /\ \A r \in revisions : r.domain # class
    [] OTHER -> TRUE

(* After the deletion of everything the project stays empty: no worker,    *)
(* publisher or upload that was under way leaves anything behind.          *)
DeletedStaysEmpty ==
  \A d \in Deletions :
    Full(d) /\ deletion[d] = "complete" => \A c \in Classes : Empty(c)

(* When a deletion is first reported complete, nothing it covers is left,  *)
(* although the purge went store by store while workers kept writing.      *)
CompleteMeansPurged ==
  \A d \in Deletions :
    deletion[d] # "complete" /\ deletion'[d] = "complete" =>
      /\ d \in Whole => \A c \in Coverage[d] : Empty(c)
      /\ d \notin Whole /\ Covers(d, "graph") => Empty("graph")
      /\ d \notin Whole /\ Covers(d, "facts") =>
           \A j \in Jobs : DomainOf[j] = "graph" => batches[j] = {}

(* A call that returns without error, no other call of the same deletion   *)
(* being under way, leaves no store of the project closed, whatever        *)
(* earlier calls that broke off had left.                                  *)
RetryReopens ==
  \A p \in Calls :
    LET d == call[p].id
    IN /\ call[p].alone /\ call[p].stage = "release_control"
       /\ call'[p] = NoCall /\ used' = used
       => \A s \in DOMAIN grave : grave'[s] # d

(* What publishers and those who delete are told is so: the view that was  *)
(* replaced was the expected one, what was deleted is gone, and a retry    *)
(* leaves nothing closed (publish, delete_project and its retries).        *)
ReportsAreTrue ==
  [][StalePublisherLoses /\ CompleteMeansPurged /\ RetryReopens]_pubVars
=============================================================================
