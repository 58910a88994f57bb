------------------------------ MODULE MemoryStore ------------------------------
(***************************************************************************)
(* The project memory sidecar, project-memory.db (src/src/project_memory/  *)
(* sqlite.rs and its schema.rs).  Every operator is one transaction, a     *)
(* function of the tables it reads.                                        *)
(*                                                                         *)
(* A revision is identified by the manifest of the sources it was built    *)
(* from, so that two builds of the same sources complete the same one.     *)
(* Its facts are the entries whose content was extracted.  A repository    *)
(* link set is identified by its revision, the snapshot it was resolved    *)
(* in and which of the origin snapshots were there; its sequence is its    *)
(* place in the table.                                                     *)
(***************************************************************************)
EXTENDS Integers, Sequences, FiniteSets, SequencesExt

CONSTANTS Builds,  \* build ids, one for each run of the indexer
          None

States == {"building", "complete", "published", "failed", "superseded"}

EmptyMemory ==
  [compatible |-> TRUE, builds |-> [b \in Builds |-> None], revisions |-> {}, view |-> None,
   cache |-> {}, linkSets |-> <<>>]

(* What openers of an unknown application id or of a newer schema find.     *)
IncompatibleMemory == [EmptyMemory EXCEPT !.compatible = FALSE]

StartBuild(db, b, revision) ==
  [db EXCEPT !.builds[b] = [state |-> "building", revision |-> revision]]

SetBuildState(db, b, from, to) ==
  IF db.builds[b] # None /\ db.builds[b].state \in from
  THEN [db EXCEPT !.builds[b] = [@ EXCEPT !.state = to]] ELSE db

FailBuild(db, b) == SetBuildState(db, b, {"building"}, "failed")

SupersedeBuild(db, b) == SetBuildState(db, b, {"building", "complete"}, "superseded")

(* load_cached_fragment: the key is the entry, what is kept is the entry    *)
(* that the content it was extracted from amounts to.                      *)
CachedFragment(db, entry) == {f \in db.cache : f.key = entry}

-----------------------------------------------------------------------------
(* Repository link sets.                                                   *)

LinkSetWithId(db, id) == {i \in DOMAIN db.linkSets : db.linkSets[i].id = id}

(* latest_repository_link_set: ORDER BY sequence DESC LIMIT 1.             *)
LatestOf(db, revisions) ==
  LET found == {i \in DOMAIN db.linkSets : db.linkSets[i].id.revision \in revisions}
  IN {i \in found : \A j \in found : j <= i}

LatestLinkSet(db, revision) == LatestOf(db, {revision})

(* latest_compatible_repository_link_set: of any other revision; the       *)
(* policy, the model and the extractors do not change here.                *)
LatestCompatibleLinkSet(db, revision) ==
  LatestOf(db, {db.linkSets[i].id.revision : i \in DOMAIN db.linkSets} \ {revision})

(* The link set whose resolutions a new one may fall back on.              *)
PreviousLinkSet(db, id) ==
  IF LinkSetWithId(db, id) # {} THEN LinkSetWithId(db, id)
  ELSE IF LatestLinkSet(db, id.revision) # {} THEN LatestLinkSet(db, id.revision)
  ELSE LatestCompatibleLinkSet(db, id.revision)

(* insert_repository_link_commit: a set that is there already has to be the *)
(* same; it is neither replaced nor renewed.                               *)
InsertLinkSet(db, linkSet) ==
  IF LinkSetWithId(db, linkSet.id) = {}
  THEN [done |-> TRUE, db |-> [db EXCEPT !.linkSets = Append(@, linkSet)]]
  ELSE [done |-> \E i \in LinkSetWithId(db, linkSet.id) :
                   db.linkSets[i].links = linkSet.links,
        db |-> db]

-----------------------------------------------------------------------------
(* Completion and publication.                                             *)

RevisionOf(db, revision) == {r \in db.revisions : r.id = revision}

(* complete_build.  The facts of a revision that is there already are kept *)
(* and those of the commit dropped.                                        *)
CompleteBuild(db, b, commit) ==
  LET inserted == InsertLinkSet(db, commit.linkSet)
      row == [id |-> commit.revision, facts |-> commit.facts]
  IN IF \/ db.builds[b] = None \/ db.builds[b].state # "building"
        \/ db.builds[b].revision # commit.revision
        \/ ~inserted.done
     THEN [done |-> FALSE, db |-> db]
     ELSE [done |-> TRUE,
           db |-> [SetBuildState(inserted.db, b, {"building"}, "complete") EXCEPT
                     !.revisions = IF RevisionOf(db, commit.revision) # {} THEN @
                                   ELSE @ \cup {row},
                     !.cache = {f \in @ : \A g \in commit.fragments : g.key # f.key}
                               \cup commit.fragments]]

Version(db) ==
  IF db.view = None THEN None
  ELSE [revision |-> db.view.revision, generation |-> db.view.generation]

MutPublish(db, b, expected) ==
  LET next == [revision |-> db.builds[b].revision, build |-> b,
               generation |-> IF db.view = None THEN 1 ELSE db.view.generation + 1]
  IN IF db.builds[b].state # "complete" THEN [outcome |-> "error", db |-> db]
     ELSE [outcome |-> "published",
           db |-> SetBuildState([db EXCEPT !.view = next], b, {"complete"}, "published")]

(* publish.                                                                *)
Publish(db, b, expected) ==
  LET revision == db.builds[b].revision
      next == [revision |-> revision, build |-> b,
               generation |-> IF db.view = None THEN 1 ELSE db.view.generation + 1]
      retired == IF db.view = None THEN db
                 ELSE SetBuildState(db, db.view.build, {"published"}, "superseded")
  IN IF db.builds[b].state # "complete" THEN [outcome |-> "error", db |-> db]
     ELSE IF Version(db) # expected THEN [outcome |-> "conflict", db |-> db]
     ELSE IF db.view # None /\ db.view.revision = revision
     THEN [outcome |-> "unchanged", db |-> SetBuildState(db, b, {"complete"}, "superseded")]
     ELSE [outcome |-> "published",
           db |-> SetBuildState([retired EXCEPT !.view = next], b, {"complete"}, "published")]
=============================================================================
