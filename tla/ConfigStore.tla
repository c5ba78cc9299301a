---------------------------- MODULE ConfigStore ----------------------------
(***************************************************************************)
(* The configuration file and the copy in memory: load_config and          *)
(* save_config of app/config.py, their use at start-up (app/main.py) and   *)
(* POST /api/config (app/api/routes.py).  No handler awaits, so a save is  *)
(* never interleaved with another request; it can fail, or be cut off, at  *)
(* each of its system calls.  The other components see the outcome only:   *)
(* one configuration that changes in one step.                             *)
(***************************************************************************)
CONSTANTS
  Docs,         \* documents that pass AppConfig.model_validate
  DefaultDoc,
  Valid,        \* those without an error from validate_config
  MigrateIds,   \* migrate_sensor_ids, as a function on Docs
  FixBackends,  \* load_config's back end correction, as a function on Docs
  NoFile,       \* the file is missing
  Torn,         \* the file holds something else than a document
  None

ASSUME DocsAssumption == DefaultDoc \in Docs /\ Valid \subseteq Docs
ASSUME MarkersAreNoDocs == {NoFile, Torn, None} \cap Docs = {} /\ NoFile # Torn
                             /\ None \notin {NoFile, Torn}
ASSUME MigrateIdsAssumption ==
  /\ MigrateIds \in [Docs -> Docs]
  /\ \A d \in Docs : MigrateIds[MigrateIds[d]] = MigrateIds[d]
  /\ MigrateIds[DefaultDoc] = DefaultDoc
ASSUME FixBackendsAssumption == FixBackends \in [Docs -> Docs]
ASSUME LoadingTwiceChangesNothing ==
  \A d \in Docs : LET loaded == MigrateIds[FixBackends[d]]
                  IN  MigrateIds[FixBackends[loaded]] = loaded

VARIABLES
  file,     \* config.json
  tmp,      \* config.json.tmp
  memory,   \* main._config, None while the service is down or starting
  saving,   \* the document save_config is working on, or None
  step,     \* its next call: "write", "replace", or "done"
  answered  \* the document of the last POST that was answered with ok

vars == <<file, tmp, memory, saving, step, answered>>

TypeOK ==
  /\ file \in Docs \cup {NoFile, Torn}
  /\ tmp \in Docs \cup {NoFile, Torn}
  /\ memory \in Docs \cup {None}
  /\ saving \in Docs \cup {None}
  /\ step \in {"write", "replace", "done"}
  /\ answered \in Docs \cup {None}

Init ==
  /\ file \in Docs \cup {NoFile, Torn}
  /\ tmp = NoFile
  /\ memory = None /\ saving = None /\ step = "done" /\ answered = None

Save(doc) == saving' = doc /\ step' = "write"

(* What load_config makes of a document it has read. *)
Loaded(doc) == MigrateIds[FixBackends[doc]]

(* A missing file is written with the defaults, a migrated one rewritten;  *)
(* a file that is no document stops the start, and nothing changes.        *)
Start ==
  /\ memory = None /\ saving = None
  /\ \/ file = NoFile /\ Save(DefaultDoc) /\ UNCHANGED memory
     \/ /\ file \in Docs
        /\ IF Loaded(file) # file
           THEN Save(Loaded(file)) /\ UNCHANGED memory
           ELSE memory' = file /\ UNCHANGED <<saving, step>>
  /\ UNCHANGED <<file, tmp, answered>>

\* Mutation: the posted document is stored as it came.
PostUnmigrated(doc) ==
  /\ memory # None /\ saving = None
  /\ MigrateIds[doc] \in Valid
  /\ Save(doc)
  /\ UNCHANGED <<file, tmp, memory, answered>>

(* A document with errors is answered with 422 and changes nothing. *)
Post(doc) ==
  /\ memory # None /\ saving = None
  /\ MigrateIds[doc] \in Valid
  /\ Save(MigrateIds[doc])
  /\ UNCHANGED <<file, tmp, memory, answered>>

\* Mutation: the file itself is opened for writing, and so truncated.
WriteInPlace ==
  /\ saving # None /\ step = "write"
  /\ file' = Torn /\ tmp' = saving /\ step' = "replace"
  /\ UNCHANGED <<memory, saving, answered>>

WriteTmp ==
  /\ saving # None /\ step = "write"
  /\ tmp' = saving /\ step' = "replace"
  /\ UNCHANGED <<file, memory, saving, answered>>

Replace ==
  /\ saving # None /\ step = "replace"
  /\ file' = tmp /\ tmp' = NoFile /\ step' = "done"
  /\ UNCHANGED <<memory, saving, answered>>

\* Mutation: the error is swallowed and the document used all the same.
FailUnnoticed ==
  /\ saving # None /\ step # "done"
  /\ memory' = saving
  /\ answered' = IF memory = None THEN answered ELSE saving
  /\ saving' = None /\ step' = "done"
  /\ UNCHANGED <<file, tmp>>

(* OSError: the start is abandoned, a POST is answered with an error. *)
Fail ==
  /\ saving # None /\ step # "done"
  /\ tmp' \in IF step = "write" THEN {tmp, Torn} ELSE {tmp}
  /\ saving' = None /\ step' = "done"
  /\ UNCHANGED <<file, memory, answered>>

(* The document is on disk: use it, and tell a client that waits for it. *)
Install ==
  /\ saving # None /\ step = "done"
  /\ memory' = saving
  /\ answered' = IF memory = None THEN answered ELSE saving
  /\ saving' = None
  /\ UNCHANGED <<file, tmp, step>>

(* Killed, or stopped: a write may be left half done.  Until then the     *)
(* answer of an earlier POST counts; a document that reached the disk      *)
(* without an answer replaces it.                                          *)
Stop ==
  /\ memory # None \/ saving # None
  /\ tmp' \in IF saving # None /\ step = "write" THEN {tmp, Torn} ELSE {tmp}
  /\ answered' = IF saving # None /\ step = "done" THEN None ELSE answered
  /\ memory' = None /\ saving' = None /\ step' = "done"
  /\ UNCHANGED file

(* Somebody edits or removes the file while the service is down. *)
EditFile ==
  /\ memory = None /\ saving = None
  /\ file' \in Docs \cup {NoFile, Torn}
  /\ answered' = None
  /\ UNCHANGED <<tmp, memory, saving, step>>

Next ==
  \/ Start \/ WriteTmp \/ Replace \/ Fail \/ Install \/ Stop \/ EditFile
  \/ \E doc \in Docs : Post(doc)

Spec == Init /\ [][Next]_vars
----------------------------------------------------------------------------
(* Properties.                                                             *)

(* A document a client was told is saved is what a later start reads, or   *)
(* what that start has upgraded it to, whatever failed or was killed since *)
(* (save_config before set_config; the temporary file).                    *)
AnsweredIsDurable ==
  answered # None =>
    file \in {answered, Loaded(answered)} \/ (saving # None /\ step = "done")

(* Identifiers in use are canonical, on the way in through the file and    *)
(* through the API (migrate_sensor_ids).                                   *)
ServedIsCanonical == memory # None => MigrateIds[memory] = memory

(* The inductive invariant behind these: at every step of a save the       *)
(* temporary file and the file hold what that step may rely on.            *)
IInv ==
  /\ TypeOK
  /\ saving # None /\ step = "replace" => tmp = saving
  /\ saving # None /\ step = "done" => file = saving
  /\ saving # None => MigrateIds[saving] = saving
  /\ memory # None /\ (saving = None \/ step # "done") => file = memory
  /\ saving # None /\ memory = None /\ answered # None => saving = Loaded(answered)
  /\ ServedIsCanonical
  /\ AnsweredIsDurable

(* The rest of the system may treat the configuration as a register that   *)
(* is written in one step and survives restarts.                           *)
Register == INSTANCE ConfigRegister
              WITH Foreign <- {NoFile, Torn}, stored <- file, served <- memory

ImplementsRegister == Register!Spec
=============================================================================
