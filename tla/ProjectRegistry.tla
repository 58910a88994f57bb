---------------------------- MODULE ProjectRegistry ----------------------------
(***************************************************************************)
(* How a checkout is tied to its data directory, and how its database is   *)
(* brought to the version a program knows (src/src/project/registry.rs,    *)
(* project/database.rs, project/database/schema.rs, project.rs).           *)
(*                                                                         *)
(* .ferrus/project.toml names a project id, the data directory of that id  *)
(* holds project.toml and ferrus.db.  A TOML file is written in place:      *)
(* while it is being written, or after a crash in between, it is Torn and   *)
(* cannot be parsed.  Programs of several versions use one database.       *)
(***************************************************************************)
EXTENDS Integers, Sequences, FiniteSets

CONSTANTS Users,       \* processes
          Scenarios,   \* what each of them calls, with which version
          Newest,      \* RUNTIME_SCHEMA_VERSION of the newest program
          Earlier,     \* the id of a registration made before
          Torn, None

VARIABLES asked,       \* user |-> its operation and the version it supports
          at, got,     \* where a user is, and the project id it works with
          ref,         \* .ferrus/project.toml: a project id, Torn or None
          metadata,    \* project id |-> project.toml of its data directory
          database,    \* project id |-> ferrus.db
          crashes      \* how many more there may be

registry == <<asked, at, got, ref, metadata, database, crashes>>

Over == {"ok", "error", "lost"}

Init ==
  \E s \in Scenarios :
    /\ asked = s.asked
    /\ at = [u \in Users |-> s.asked[u].op]
    /\ got = [u \in Users |-> None]
    /\ ref = s.ref
    /\ metadata = [id \in Users \cup {Earlier} |-> IF id = s.ref THEN id ELSE None]
    /\ database = [id \in Users \cup {Earlier} |-> IF id = s.ref THEN s.database ELSE None]
    /\ crashes = s.crashes

To(u, label) == at' = [at EXCEPT ![u] = label]
Take(u, id) == got' = [got EXCEPT ![u] = id]
Read(id) == metadata[id] = id   \* read_project_metadata_from

-----------------------------------------------------------------------------
MutChooseId(u) ==
  /\ at[u] = "register"
  /\ Take(u, IF ref \in {None, Torn} THEN u ELSE ref)
  /\ ref' = got'[u]
  /\ To(u, "metadata")
  /\ UNCHANGED <<asked, metadata, database, crashes>>

(* register_current_project: the id of the checkout, or a new one when its *)
(* file is missing or cannot be read.                                      *)
ChooseId(u) ==
  /\ at[u] = "register"
  /\ Take(u, IF ref \in {None, Torn} THEN u ELSE ref)
  /\ To(u, "metadata")
  /\ UNCHANGED <<asked, ref, metadata, database, crashes>>

(* touch_current_project: both files are read and agree.                   *)
ReadRegistration(u) ==
  /\ at[u] = "touch"
  /\ IF ref \in {None, Torn} THEN To(u, "error") /\ UNCHANGED got
     ELSE IF ~Read(ref) THEN To(u, "error") /\ UNCHANGED got
     ELSE Take(u, ref) /\ To(u, "metadata")
  /\ UNCHANGED <<asked, ref, metadata, database, crashes>>

(* write_toml: the file is truncated, then written.                        *)
TruncateMetadata(u) ==
  /\ at[u] = "metadata"
  /\ metadata' = [metadata EXCEPT ![got[u]] = Torn]
  /\ To(u, "metadata2")
  /\ UNCHANGED <<asked, got, ref, database, crashes>>

WriteMetadata(u) ==
  /\ at[u] = "metadata2"
  /\ metadata' = [metadata EXCEPT ![got[u]] = got[u]]
  /\ To(u, IF asked[u].op = "register" THEN "ref" ELSE "open")
  /\ UNCHANGED <<asked, got, ref, database, crashes>>

TruncateRef(u) ==
  /\ at[u] = "ref"
  /\ ref' = Torn
  /\ To(u, "ref2")
  /\ UNCHANGED <<asked, got, metadata, database, crashes>>

WriteRef(u) ==
  /\ at[u] = "ref2"
  /\ ref' = got[u]
  /\ To(u, "open")
  /\ UNCHANGED <<asked, got, metadata, database, crashes>>

-----------------------------------------------------------------------------
(* The database: its user_version, runtime_schema_migrations and what the  *)
(* migrations add.                                                         *)
Empty == [version |-> 0, history |-> << >>, columns |-> {}]

Upto(n) == [v \in 1 .. n |-> v]

(* validate_runtime_migration_history.                                     *)
HistoryValid(d, supported) == d.version <= supported /\ d.history = Upto(d.version)

(* One of RUNTIME_MIGRATIONS: ensure_column and CREATE IF NOT EXISTS, and  *)
(* the row in the history.                                                 *)
Apply(d) ==
  [version |-> d.version + 1, history |-> Append(d.history, d.version + 1),
   columns |-> d.columns \cup {d.version + 1}]


(* One round of migrate_runtime_schema, one transaction, for whoever opens *)
(* the database to write (open_runtime_database).  A newer database, or one *)
(* with another history, is refused.                                       *)
Migrate(u) ==
  /\ at[u] = "open"
  /\ LET d == IF database[got[u]] = None THEN Empty ELSE database[got[u]]
     IN IF ~HistoryValid(d, asked[u].version)
        THEN To(u, "error") /\ UNCHANGED database
        ELSE IF d.version = asked[u].version
        THEN To(u, "ok") /\ UNCHANGED database
        ELSE database' = [database EXCEPT ![got[u]] = Apply(d)] /\ UNCHANGED at
  /\ UNCHANGED <<asked, got, ref, metadata, crashes>>

(* current_project_data_dir and open_runtime_database_for_read: a database *)
(* that is up to date is read as it is, an older one is opened to write.   *)
OpenForRead(u) ==
  /\ at[u] = "read"
  /\ IF ref \in {None, Torn} THEN To(u, "error") /\ UNCHANGED got
     ELSE IF ~Read(ref) \/ database[ref] = None THEN To(u, "error") /\ UNCHANGED got
     ELSE /\ Take(u, ref)
          /\ To(u, IF ~HistoryValid(database[ref], asked[u].version) THEN "error"
                   ELSE IF database[ref].version = asked[u].version THEN "ok" ELSE "open")
  /\ UNCHANGED <<asked, ref, metadata, database, crashes>>

(* validate_database_schema.                                               *)
SchemaValid(d, supported) ==
  d.version = supported /\ HistoryValid(d, supported) /\ d.columns = 1 .. supported

(* doctor_current_project: error when a file cannot be read, and what it   *)
(* finds wrong otherwise.                                                  *)
Diagnose(u) ==
  /\ at[u] = "doctor"
  /\ IF ref \in {None, Torn} THEN To(u, "error")
     ELSE IF ~Read(ref) THEN To(u, "error")
     ELSE IF database[ref] = None THEN To(u, "error")
     ELSE To(u, IF SchemaValid(database[ref], asked[u].version) THEN "ok" ELSE "error")
  /\ Take(u, ref)
  /\ UNCHANGED <<asked, ref, metadata, database, crashes>>

Lose(u) ==
  /\ at[u] \notin Over
  /\ crashes > 0
  /\ crashes' = crashes - 1
  /\ To(u, "lost")
  /\ UNCHANGED <<asked, got, ref, metadata, database>>

Next ==
  \E u \in Users :
    \/ ChooseId(u) \/ ReadRegistration(u) \/ TruncateMetadata(u) \/ WriteMetadata(u)
    \/ TruncateRef(u) \/ WriteRef(u) \/ Migrate(u) \/ OpenForRead(u) \/ Diagnose(u) \/ Lose(u)

Spec == Init /\ [][Next]_registry

-----------------------------------------------------------------------------
(* A checkout never names a data directory that was not made for it before: *)
(* when nobody is writing, what project.toml names can be read, unless a   *)
(* crash tore it (register_current_project writes the metadata first).     *)
RegistrationHolds ==
  ref \notin {None, Torn} =>
    \/ Read(ref)
    \/ \E u \in Users : got[u] = ref /\ at[u] \in {"metadata2", "lost"}

(* Whatever programs open a database, in whatever order, and wherever they *)
(* are lost: it holds what the migrations up to its version add, each of   *)
(* them once and in order, and no program is at work on a version it does  *)
(* not know (migrate_runtime_schema, open_runtime_database_for_read).      *)
SchemaMatchesVersion ==
  /\ \A id \in DOMAIN database :
       database[id] # None =>
         /\ database[id].version <= Newest
         /\ database[id].history = Upto(database[id].version)
         /\ database[id].columns = 1 .. database[id].version
  /\ \A u \in Users : at[u] = "ok" => database[got[u]].version >= asked[u].version
=============================================================================
