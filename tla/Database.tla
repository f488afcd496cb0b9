------------------------------- MODULE Database ------------------------------
(***************************************************************************)
(* The result database (morf/db/db.go, morf/db/migrations/migrate_data.go, *)
(* the duplicate lookup of morf/utils/database.go).  Several processes     *)
(* boot against one MySQL server: each connects with retries, runs the     *)
(* migrations in order and then stores one scan result or, for morf        *)
(* migrate --backfill, copies a legacy row.  All results are of one hash,  *)
(* which is where they meet.  A transaction sees the rows committed when   *)
(* it began and its unique keys block a second writer until it ends.       *)
(***************************************************************************)
EXTENDS Integers, FiniteSets

CONSTANTS Procs,       \* the processes that boot and store
          DBRetries,   \* maxRetries of InitDB
          MigrationFiles, \* how many files migrationNames lists
          NoWriterYet  \* no result is stored

ASSUME MigrationsAssumption == MigrationFiles \in Nat /\ NoWriterYet \notin Procs

VARIABLES schema,    \* the migration files whose statements are in effect
          required,  \* DatabaseRequired of each process
          proc,      \* each process: step, counter, errors, transaction
          package,   \* the package_data row exists
          secret,    \* the writer of the committed secret row
          children,  \* the committed child rows
          finder     \* a CheckDuplicateInDB call

dbVars == <<schema, required, proc, package, secret, children, finder>>

Kinds == {"android", "ios", "backfill"}

(* The child tables a result fills. *)
Rows(kind) == IF kind = "ios" THEN {"findings", "ios_metadata"}
                              ELSE {"findings", "components"}

NewProc == [pc |-> "connect", kind |-> "android", at |-> 1, errs |-> FALSE,
            sawPackage |-> FALSE, sawSecret |-> FALSE, holds |-> {}]
TxSteps == {"package", "existing", "secret", "findings", "rest", "commit"}

DBTypeOK ==
  /\ schema \subseteq 1..MigrationFiles
  /\ required \in [Procs -> BOOLEAN]
  /\ \A p \in Procs : proc[p].pc \in TxSteps \cup {"connect", "auto", "migrate", "ready", "done"}
  /\ package \in BOOLEAN /\ secret \in Procs \cup {NoWriterYet}
  /\ children \subseteq {"findings", "ios_metadata", "components"}
  /\ finder.pc \in {"idle", "preload", "done"}

DBInit ==
  /\ schema = {} /\ required = [p \in Procs |-> FALSE]
  /\ proc = [p \in Procs |-> NewProc]
  /\ package = FALSE /\ secret = NoWriterYet /\ children = {}
  /\ finder = [pc |-> "idle", found |-> NoWriterYet, rows |-> {}]

Go(p, step) == proc' = [proc EXCEPT ![p].pc = step]
Stored == <<package, secret, children>>

-----------------------------------------------------------------------------
(* InitDB: connectToDatabase up to maxRetries times; DatabaseRequired is   *)
(* set by the connection and taken back when the migrations fail.          *)
Connect(p) ==
  /\ proc[p].pc = "connect"
  /\ \/ /\ required' = [required EXCEPT ![p] = TRUE]
        /\ \E k \in Kinds : proc' = [proc EXCEPT ![p].pc = "auto", ![p].kind = k]
     \/ /\ proc' = IF proc[p].at < DBRetries THEN [proc EXCEPT ![p].at = @ + 1]
                                             ELSE [proc EXCEPT ![p].pc = "done"]
        /\ UNCHANGED required
  /\ UNCHANGED <<schema, finder>> /\ UNCHANGED Stored

(* runMigrations, GORM part: skipped by the flag, or an error about JSON   *)
(* or defaults is tolerated; any other error ends it.                      *)
AutoMigrate(p) ==
  /\ proc[p].pc = "auto"
  /\ \/ proc' = [proc EXCEPT ![p].pc = "migrate", ![p].at = 1] /\ UNCHANGED required
     \/ Go(p, "done") /\ required' = [required EXCEPT ![p] = FALSE]
  /\ UNCHANGED <<schema, finder>> /\ UNCHANGED Stored

(* What MySQL answers to file i: done, already there, a duplicate entry    *)
(* under a new unique index, or anything else (a file that cannot be read  *)
(* and a refused connection included).                                     *)
Answer(i) == IF i \in schema THEN {"exists", "other"} ELSE {"ok", "duplicate", "other"}

(* Mutant: every duplicate error counts as already applied. *)
AlreadyExistsLenient(answer) == answer \in {"exists", "duplicate"}

IsAlreadyExistsErr(answer) == answer = "exists"

(* One file of migrationNames: an error is noted and the next one is tried. *)
MigrateFile(p) ==
  /\ proc[p].pc = "migrate" /\ proc[p].at <= MigrationFiles
  /\ \E answer \in Answer(proc[p].at) :
       /\ schema' = IF answer = "ok" THEN schema \cup {proc[p].at} ELSE schema
       /\ proc' = [proc EXCEPT ![p].at = @ + 1,
                               ![p].errs = @ \/ ~(answer = "ok" \/ IsAlreadyExistsErr(answer))]
  /\ UNCHANGED <<required, finder>> /\ UNCHANGED Stored

EndMigrations(p) ==
  /\ proc[p].pc = "migrate" /\ proc[p].at > MigrationFiles
  /\ IF proc[p].errs THEN Go(p, "done") /\ required' = [required EXCEPT ![p] = FALSE]
                     ELSE Go(p, "ready") /\ UNCHANGED required
  /\ UNCHANGED <<schema, finder>> /\ UNCHANGED Stored

-----------------------------------------------------------------------------
(* insertSecretsSync and BackfillNormalized, statement by statement. *)
BlockedOn(p, row) == \E q \in Procs \ {p} : row \in proc[q].holds
Hold(p, row, step) == proc' = [proc EXCEPT ![p].pc = step, ![p].holds = @ \cup {row}]
Rollback(p) == proc' = [proc EXCEPT ![p].pc = "done", ![p].holds = {}]

(* The transaction's snapshot is taken by its first read. *)
Snapshot(p, step) ==
  proc' = [proc EXCEPT ![p].pc = step, ![p].sawPackage = package,
                       ![p].sawSecret = secret # NoWriterYet]

(* The caller asks DatabaseRequired; an open "db" breaker refuses. *)
BeginTx(p) ==
  /\ proc[p].pc = "ready" /\ proc[p].kind # "backfill"
  /\ (required[p] /\ Snapshot(p, "package")) \/ Go(p, "done")
  /\ UNCHANGED <<schema, required, finder>> /\ UNCHANGED Stored

(* morf migrate --backfill: a legacy row already migrated is skipped.  Its *)
(* package and then its other rows are written as by insertSecretsSync.    *)
BackfillNormalized(p) ==
  /\ proc[p].pc = "ready" /\ proc[p].kind = "backfill" /\ required[p]
  /\ Snapshot(p, IF secret # NoWriterYet THEN "commit" ELSE "package")
  /\ UNCHANGED <<schema, required, finder>> /\ UNCHANGED Stored

(* FirstOrCreate by apk_hash. *)
FirstOrCreate(p) ==
  /\ proc[p].pc = "package"
  /\ LET next == IF proc[p].kind = "backfill" THEN "secret" ELSE "existing" IN
     IF proc[p].sawPackage THEN Go(p, next)
     ELSE /\ ~BlockedOn(p, "package")
          /\ IF package THEN Rollback(p) ELSE Hold(p, "package", next)
  /\ UNCHANGED <<schema, required, finder>> /\ UNCHANGED Stored

(* An existing secret row ends the work; the transaction is committed. *)
CheckExisting(p) ==
  /\ proc[p].pc = "existing"
  /\ Go(p, IF proc[p].sawSecret THEN "commit" ELSE "secret")
  /\ UNCHANGED <<schema, required, finder>> /\ UNCHANGED Stored

(* Mutant: the secret row is written outside the transaction. *)
CreateSecretNow(p) ==
  /\ proc[p].pc = "secret" /\ ~BlockedOn(p, "secret")
  /\ IF secret # NoWriterYet THEN Rollback(p) /\ UNCHANGED secret
                             ELSE Go(p, "findings") /\ secret' = p
  /\ UNCHANGED <<schema, required, finder, package, children>>

CreateSecret(p) ==
  /\ proc[p].pc = "secret" /\ ~BlockedOn(p, "secret")
  /\ IF secret # NoWriterYet THEN Rollback(p) ELSE Hold(p, "secret", "findings")
  /\ UNCHANGED <<schema, required, finder>> /\ UNCHANGED Stored

CreateFindings(p) ==
  /\ proc[p].pc = "findings" /\ Hold(p, "findings", "rest")
  /\ UNCHANGED <<schema, required, finder>> /\ UNCHANGED Stored

(* The four component tables, or the ios_metadata row of an iOS result. *)
CreateRest(p) ==
  /\ proc[p].pc = "rest"
  /\ Hold(p, IF proc[p].kind = "ios" THEN "ios_metadata" ELSE "components", "commit")
  /\ UNCHANGED <<schema, required, finder>> /\ UNCHANGED Stored

Commit(p) ==
  /\ proc[p].pc = "commit"
  /\ package' = (package \/ "package" \in proc[p].holds)
  /\ secret' = IF "secret" \in proc[p].holds THEN p ELSE secret
  /\ children' = children \cup (proc[p].holds \cap Rows(proc[p].kind))
  /\ Rollback(p)
  /\ UNCHANGED <<schema, required, finder>>

(* A statement fails, or the process dies: MySQL rolls back. *)
TxFails(p) ==
  /\ proc[p].pc \in TxSteps /\ Rollback(p)
  /\ UNCHANGED <<schema, required, finder>> /\ UNCHANGED Stored

-----------------------------------------------------------------------------
(* CheckDuplicateInDB: the row, then one query per preloaded child table. *)
FindRow ==
  /\ finder.pc = "idle"
  /\ finder' = [finder EXCEPT !.pc = IF secret = NoWriterYet THEN "idle" ELSE "preload",
                              !.found = secret]
  /\ UNCHANGED <<schema, required, proc>> /\ UNCHANGED Stored

Preload ==
  /\ finder.pc = "preload"
  /\ finder' = [finder EXCEPT !.pc = "done", !.rows = children]
  /\ UNCHANGED <<schema, required, proc>> /\ UNCHANGED Stored

DBNext ==
  \/ \E p \in Procs :
       \/ Connect(p) \/ AutoMigrate(p) \/ MigrateFile(p) \/ EndMigrations(p)
       \/ BeginTx(p) \/ BackfillNormalized(p) \/ FirstOrCreate(p) \/ CheckExisting(p)
       \/ CreateSecret(p) \/ CreateFindings(p) \/ CreateRest(p) \/ Commit(p) \/ TxFails(p)
  \/ FindRow \/ Preload

-----------------------------------------------------------------------------
(* DB-2: a duplicate lookup that finds a result finds all of it, although  *)
(* it is written and read table by table (the single transaction).         *)
DuplicateIsWhole ==
  finder.pc = "done" => finder.rows = Rows(proc[finder.found].kind)

(* Results are only written to a completely migrated schema: a process     *)
(* with a failed migration disables its database (InitDB), also when the   *)
(* error merely looks like one about an existing object.                   *)
WritesAreMigrated == secret # NoWriterYet \/ package => schema = 1..MigrationFiles
=============================================================================
