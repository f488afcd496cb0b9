---------------------------- MODULE StoreProofs -----------------------------
(***************************************************************************)
(* What the stored state of the system promises, for every value of the    *)
(* constants: the database, the status index, the result cache and the     *)
(* local object store, and the two parts around them: the life of the      *)
(* process and the circuit breaker.                                        *)
(***************************************************************************)
EXTENDS Database, StatusIndex, ResultCache, Lifecycle, LocalStore, CircuitBreaker,
        TLAPS

-----------------------------------------------------------------------------
(* Database.  WritesAreMigrated alone is not inductive: a process that may *)
(* still write has seen every file before its own place applied, and files *)
(* are never taken back.  DuplicateIsWhole needs what every open           *)
(* transaction has written, and that one of them at most can commit.       *)

Process == [pc : TxSteps \cup {"connect", "auto", "migrate", "ready", "done"}, kind : Kinds,
            at : Nat \ {0}, errs : BOOLEAN, sawPackage : BOOLEAN, sawSecret : BOOLEAN,
            holds : SUBSET {"package", "secret", "findings", "ios_metadata", "components"}]

(* A process that has met no migration error so far has not missed a file. *)
Caught(r, files) ==
  /\ r.pc \in {"connect", "auto"} => ~r.errs
  /\ r.pc = "migrate" /\ ~r.errs => \A i \in 1..MigrationFiles : i < r.at => i \in files
  /\ r.pc \in TxSteps \cup {"ready"} => files = 1..MigrationFiles

DBInv ==
  /\ schema \subseteq 1..MigrationFiles
  /\ proc \in [Procs -> Process]
  /\ \A p \in Procs : Caught(proc[p], schema)
  /\ package \in BOOLEAN
  /\ WritesAreMigrated

(* An empty database and processes that have not connected satisfy it. *)
LEMMA DBInvInit == DBInit => DBInv
<1> SUFFICES ASSUME DBInit PROVE DBInv
  BY Zenon
<1>1. NewProc \in Process
  BY DEF NewProc, Process, TxSteps, Kinds
<1>2. Caught(NewProc, schema)
  BY Zenon DEF NewProc, Caught, TxSteps
<1>3. proc \in [Procs -> Process] /\ \A p \in Procs : Caught(proc[p], schema)
  BY <1>1, <1>2, Zenon DEF DBInit
<1>4. package \in BOOLEAN /\ WritesAreMigrated
  BY Zenon DEF DBInit, WritesAreMigrated
<1> QED BY <1>3, <1>4, Zenon DEF DBInit, DBInv

(* A step that gives one process a new record and leaves the schema and    *)
(* the stored rows alone keeps the invariant if the record does.           *)
LEMMA OneProcess ==
  ASSUME DBInv, NEW p \in Procs, NEW r \in Process, Caught(r, schema),
         proc' = [proc EXCEPT ![p] = r], UNCHANGED <<schema, package, secret>>
  PROVE  DBInv'
<1>1. proc' \in [Procs -> Process] /\ \A q \in Procs : Caught(proc'[q], schema)
  BY Zenon DEF DBInv
<1> QED BY <1>1, Zenon DEF DBInv, WritesAreMigrated

(* Connecting, with its retries, and the GORM part. *)
LEMMA ConnectInv == ASSUME DBInv, NEW p \in Procs, Connect(p) \/ AutoMigrate(p) PROVE DBInv'
<1>1. proc[p] \in Process /\ Caught(proc[p], schema)
  BY Zenon DEF DBInv
<1>2. PICK r \in Process : Caught(r, schema) /\ proc' = [proc EXCEPT ![p] = r]
  <2>1. CASE Connect(p)
    <3>1. CASE \E k \in Kinds : proc' = [proc EXCEPT ![p].pc = "auto", ![p].kind = k]
      <4>1. PICK k \in Kinds : proc' = [proc EXCEPT ![p].pc = "auto", ![p].kind = k]
        BY <3>1, Zenon
      <4>2. [[proc[p] EXCEPT !.pc = "auto"] EXCEPT !.kind = k] \in Process
        BY <1>1, Zenon DEF Process
      <4> DEFINE r == [[proc[p] EXCEPT !.pc = "auto"] EXCEPT !.kind = k]
      <4>3. proc' = [proc EXCEPT ![p] = r] /\ r.pc = "auto" /\ r.errs = proc[p].errs
        BY <4>1, <1>1, Zenon DEF DBInv, Process
      <4>4. ~proc[p].errs
        BY <1>1, <2>1, Zenon DEF Connect, Caught
      <4> HIDE DEF r
      <4>5. Caught(r, schema)
        BY <4>3, <4>4, Zenon DEF Caught, TxSteps
      <4> QED BY <4>2, <4>3, <4>5, Zenon DEF r
    <3>2. CASE proc' = [proc EXCEPT ![p].at = @ + 1]
      <4>1. [proc[p] EXCEPT !.at = @ + 1] \in Process
        BY <1>1 DEF Process
      <4> QED BY <3>2, <4>1, <1>1, <2>1, Zenon DEF DBInv, Connect, Caught, Process, TxSteps
    <3>3. CASE proc' = [proc EXCEPT ![p].pc = "done"]
      <4>1. [proc[p] EXCEPT !.pc = "done"] \in Process
        BY <1>1, Zenon DEF Process
      <4> QED BY <3>3, <4>1, Zenon DEF DBInv, Caught, Process, TxSteps
    <3> QED BY <2>1, <3>1, <3>2, <3>3, Zenon DEF Connect
  <2>2. CASE AutoMigrate(p)
    <3>0. [proc[p] EXCEPT !.pc = "migrate"] \in Process
      BY <1>1, Zenon DEF Process
    <3>1. [[proc[p] EXCEPT !.pc = "migrate"] EXCEPT !.at = 1] \in Process
      <4>1. 1 \in Nat \ {0}
        OBVIOUS
      <4> QED BY <3>0, <4>1, Zenon DEF Process
    <3>2. [proc[p] EXCEPT !.pc = "done"] \in Process
      BY <1>1, Zenon DEF Process
    <3>3. CASE proc' = [proc EXCEPT ![p].pc = "migrate", ![p].at = 1]
      <4> DEFINE r == [[proc[p] EXCEPT !.pc = "migrate"] EXCEPT !.at = 1]
      <4>1. proc' = [proc EXCEPT ![p] = r]
        BY <3>3, Zenon DEF DBInv
      <4>2. r.pc = "migrate" /\ r.at = 1
        BY <1>1, Zenon DEF Process
      <4>3. \A i \in 1..MigrationFiles : ~(i < 1)
        OBVIOUS
      <4> HIDE DEF r
      <4>4. Caught(r, schema)
        BY <4>2, <4>3, Zenon DEF Caught, TxSteps
      <4> QED BY <3>1, <4>1, <4>4, Zenon DEF r
    <3>4. CASE proc' = [proc EXCEPT ![p].pc = "done"]
      <4> DEFINE r == [proc[p] EXCEPT !.pc = "done"]
      <4>1. proc' = [proc EXCEPT ![p] = r]
        BY <3>4, Zenon DEF DBInv
      <4>2. r.pc = "done"
        BY <1>1, Zenon DEF Process
      <4> HIDE DEF r
      <4>3. Caught(r, schema)
        BY <4>2, Zenon DEF Caught, TxSteps
      <4> QED BY <3>2, <4>1, <4>3, Zenon DEF r
    <3> QED BY <2>2, <3>3, <3>4, Zenon DEF AutoMigrate, Go
  <2> QED BY <2>1, <2>2, Zenon
<1> QED BY <1>2, OneProcess, Zenon DEF Connect, AutoMigrate, Stored

(* One migration file: only an error-free process counts it as applied. *)
LEMMA MigrateInv == ASSUME DBInv, NEW p \in Procs, MigrateFile(p) PROVE DBInv'
<1>1. proc[p] \in Process /\ Caught(proc[p], schema) /\ proc[p].at \in 1..MigrationFiles
  BY MigrationsAssumption DEF DBInv, MigrateFile, Process
<1>2. PICK answer \in Answer(proc[p].at) :
        /\ schema' = IF answer = "ok" THEN schema \cup {proc[p].at} ELSE schema
        /\ proc' = [proc EXCEPT ![p].at = @ + 1,
                                ![p].errs = @ \/ ~(answer = "ok" \/ IsAlreadyExistsErr(answer))]
  BY Zenon DEF MigrateFile
<1>3. schema \subseteq schema' /\ schema' \subseteq 1..MigrationFiles
  BY <1>1, <1>2, Zenon DEF DBInv
<1>4. PICK e \in BOOLEAN : e = (proc[p].errs \/ ~(answer = "ok" \/ IsAlreadyExistsErr(answer)))
  BY Zenon
<1>5. proc' = [proc EXCEPT ![p] = [[proc[p] EXCEPT !.at = @ + 1] EXCEPT !.errs = e]]
  BY <1>1, <1>2, <1>4, Zenon DEF DBInv, Process
<1>6. ~e => ~proc[p].errs /\ proc[p].at \in schema'
  BY <1>1, <1>2, <1>4, Zenon DEF Answer, IsAlreadyExistsErr
<1>7. proc' \in [Procs -> Process]
  <2>1. [proc[p] EXCEPT !.at = @ + 1] \in Process
    BY <1>1 DEF Process
  <2>2. [[proc[p] EXCEPT !.at = @ + 1] EXCEPT !.errs = e] \in Process
    BY <2>1, Zenon DEF Process
  <2> QED BY <1>5, <2>2, Zenon DEF DBInv
<1>8. ASSUME NEW q \in Procs PROVE Caught(proc'[q], schema')
  <2>1. CASE q = p
    <3>1. proc'[p].pc = "migrate" /\ proc'[p].at = proc[p].at + 1 /\ proc'[p].errs = e
      BY <1>1, <1>5, Zenon DEF DBInv, Process, MigrateFile
    <3>2. \A i \in 1..MigrationFiles : i < proc[p].at + 1 => i < proc[p].at \/ i = proc[p].at
      BY <1>1, MigrationsAssumption
    <3>3. ~proc[p].errs => \A i \in 1..MigrationFiles : i < proc[p].at => i \in schema
      BY <1>1, Zenon DEF Caught, MigrateFile
    <3> QED BY <2>1, <1>3, <1>6, <3>1, <3>2, <3>3, Zenon DEF Caught, TxSteps
  <2>2. CASE q # p
    <3>1. proc'[q] = proc[q] /\ Caught(proc[q], schema)
      BY <1>5, <2>2, Zenon DEF DBInv
    <3> QED BY <1>3, <3>1, Zenon DEF Caught
  <2> QED BY <2>1, <2>2, Zenon
<1> QED BY <1>3, <1>7, <1>8, Zenon DEF DBInv, WritesAreMigrated, MigrateFile, Stored

(* The end of the migrations: a process without errors has seen them all. *)
LEMMA EndInv == ASSUME DBInv, NEW p \in Procs, EndMigrations(p) PROVE DBInv'
<1>1. proc[p] \in Process /\ Caught(proc[p], schema)
  BY Zenon DEF DBInv
<1>2. \A s \in {"done", "ready"} : [proc[p] EXCEPT !.pc = s] \in Process
  BY <1>1, Zenon DEF Process
<1>3. ~proc[p].errs => schema = 1..MigrationFiles
  <2>1. \A i \in 1..MigrationFiles : i < proc[p].at
    BY <1>1, MigrationsAssumption DEF EndMigrations, Process
  <2> QED BY <1>1, <2>1, Zenon DEF DBInv, Caught, EndMigrations
<1>4. PICK r \in Process : Caught(r, schema) /\ proc' = [proc EXCEPT ![p] = r]
  BY <1>1, <1>2, <1>3, Zenon DEF EndMigrations, Go, Caught, TxSteps, Process
<1> QED BY <1>4, OneProcess, Zenon DEF EndMigrations, Stored

(* The statements of a transaction: a process that runs them is migrated.  *)
LEMMA TxInv ==
  ASSUME DBInv, NEW p \in Procs,
         BeginTx(p) \/ BackfillNormalized(p) \/ FirstOrCreate(p) \/ CheckExisting(p)
           \/ CreateSecret(p) \/ CreateFindings(p) \/ CreateRest(p) \/ Commit(p) \/ TxFails(p)
  PROVE  DBInv'
<1>1. proc[p] \in Process /\ Caught(proc[p], schema)
  BY Zenon DEF DBInv
<1>2. schema' = schema /\ schema = 1..MigrationFiles
  BY <1>1, Zenon DEF Caught, TxSteps, BeginTx, BackfillNormalized, FirstOrCreate, CheckExisting,
              CreateSecret,
              CreateFindings, CreateRest, Commit, TxFails
<1>3. \A s \in TxSteps \cup {"ready", "done"} : [proc[p] EXCEPT !.pc = s] \in Process
  BY <1>1, Zenon DEF Process
<1>4. \A s \in TxSteps :
      \A row \in {"package", "secret", "findings", "ios_metadata", "components"} :
        [[proc[p] EXCEPT !.pc = s] EXCEPT !.holds = @ \cup {row}] \in Process
  BY <1>1, Zenon DEF Process
<1>5. [[proc[p] EXCEPT !.pc = "done"] EXCEPT !.holds = {}] \in Process
  BY <1>1, Zenon DEF Process
<1>6. \A a, b \in BOOLEAN : \A s \in TxSteps :
        [[[proc[p] EXCEPT !.pc = s] EXCEPT !.sawPackage = a] EXCEPT !.sawSecret = b] \in Process
  BY <1>1, <1>3, Zenon DEF Process
<1>7. PICK r \in Process : proc' = [proc EXCEPT ![p] = r]
  <2>1. CASE \E s \in TxSteps : Snapshot(p, s)
    <3>1. PICK a, b \in BOOLEAN : a = package /\ b = (secret # NoWriterYet)
      BY Zenon DEF DBInv
    <3>2. PICK s \in TxSteps :
            proc' = [proc EXCEPT ![p].pc = s, ![p].sawPackage = a, ![p].sawSecret = b]
      BY <2>1, <3>1, Zenon DEF Snapshot
    <3> QED BY <3>2, <1>6, Zenon DEF DBInv
  <2>2. CASE \E s \in TxSteps \cup {"done"} : Go(p, s)
    BY <2>2, <1>3, Zenon DEF Go, DBInv
  <2>3. CASE \E s \in TxSteps :
               \E row \in {"package", "secret", "findings", "ios_metadata", "components"} :
                 Hold(p, row, s)
    <3>1. PICK s \in TxSteps,
               row \in {"package", "secret", "findings", "ios_metadata", "components"} :
                 Hold(p, row, s)
      BY <2>3, Zenon
    <3>2. proc' = [proc EXCEPT ![p] = [[proc[p] EXCEPT !.pc = s] EXCEPT !.holds = @ \cup {row}]]
      BY <3>1, <1>1, Zenon DEF Hold, DBInv, Process
    <3> QED BY <3>2, <1>4, Zenon
  <2>4. CASE Rollback(p)
    BY <2>4, <1>5, Zenon DEF Rollback, DBInv
  <2> QED BY <2>1, <2>2, <2>3, <2>4, Zenon
          DEF BeginTx, BackfillNormalized, FirstOrCreate, CheckExisting,
              CreateSecret,
              CreateFindings, CreateRest, Commit, TxFails, TxSteps
<1>8. \A q \in Procs : q # p => Caught(proc'[q], schema)
  BY <1>7, Zenon DEF DBInv
<1>9. proc'[p].pc \in TxSteps \cup {"ready", "done"}
  <2>1. \/ \E s \in TxSteps : Snapshot(p, s)
        \/ \E s \in TxSteps \cup {"done"} : Go(p, s)
        \/ \E s \in TxSteps : \E row : Hold(p, row, s)
        \/ Rollback(p)
    BY Zenon DEF BeginTx, BackfillNormalized, FirstOrCreate, CheckExisting, CreateSecret,
                 CreateFindings, CreateRest, Commit, TxFails, TxSteps
  <2>2. proc \in [Procs -> Process]
    BY Zenon DEF DBInv
  <2>3. \A s : Snapshot(p, s) => proc'[p].pc = s
    BY <2>2 DEF Snapshot, Process
  <2>4. \A s : Go(p, s) => proc'[p].pc = s
    BY <2>2 DEF Go, Process
  <2>5. \A s, row : Hold(p, row, s) => proc'[p].pc = s
    BY <2>2 DEF Hold, Process
  <2>6. Rollback(p) => proc'[p].pc = "done"
    BY <2>2 DEF Rollback, Process
  <2> QED  BY <2>1, <2>3, <2>4, <2>5, <2>6, Zenon
<1>10. Caught(proc'[p], schema)
  BY <1>2, <1>9, Zenon DEF Caught, TxSteps
<1>11. package' \in BOOLEAN
  BY Zenon DEF DBInv, BeginTx, BackfillNormalized, FirstOrCreate, CheckExisting, CreateSecret,
          CreateFindings, CreateRest,
         Commit, TxFails, Stored
<1>12. proc' \in [Procs -> Process]
  BY <1>7, Zenon DEF DBInv
<1> QED BY <1>2, <1>8, <1>10, <1>11, <1>12, Zenon DEF DBInv, WritesAreMigrated

(* Every step of a process and of the duplicate lookup keeps it.           *)
LEMMA DBInvStep == DBInv /\ [DBNext]_dbVars => DBInv'
<1> SUFFICES ASSUME DBInv, [DBNext]_dbVars PROVE DBInv'
  BY Zenon
<1>1. CASE FindRow \/ Preload \/ UNCHANGED dbVars
  BY <1>1 DEF FindRow, Preload, dbVars, Stored, DBInv, WritesAreMigrated
<1> QED BY <1>1, ConnectInv, MigrateInv, EndInv, TxInv, Zenon DEF DBNext

(* Results are only written to a completely migrated schema, whatever the  *)
(* processes that migrate at the same time meet (InitDB, runMigrations,    *)
(* isAlreadyExistsErr, insertSecretsSync).                                 *)
THEOREM OnlyMigratedWrites == DBInit /\ [][DBNext]_dbVars => []WritesAreMigrated
<1>1. DBInv => WritesAreMigrated
  BY Zenon DEF DBInv
<1> QED BY <1>1, DBInvInit, DBInvStep, PTL

-----------------------------------------------------------------------------
(* A duplicate lookup that finds a result finds all of it. *)

(* What a transaction has written at each step: a secret row it commits    *)
(* goes with all the child rows of its kind.                               *)
Fits(r) ==
  /\ r.pc \notin {"findings", "rest", "commit"} => r.holds \subseteq {"package"}
  /\ r.pc = "findings" => "secret" \in r.holds /\ r.holds \subseteq {"package", "secret"}
  /\ r.pc = "rest" => /\ {"secret", "findings"} \subseteq r.holds
                      /\ r.holds \subseteq {"package", "secret", "findings"}
  /\ r.pc = "commit" => \/ r.holds \subseteq {"package"}
                        \/ "secret" \in r.holds /\ Rows(r.kind) \subseteq r.holds

Holds(p) == "secret" \in proc[p].holds

(* One transaction at a time has an uncommitted secret row, and only while *)
(* none is committed; the committed children are those of its writer; the  *)
(* lookup has found that writer.                                           *)
WholeRows ==
  /\ \A p \in Procs : Fits(proc[p])
  /\ \A p, q \in Procs : Holds(p) /\ Holds(q) => p = q
  /\ \A p \in Procs : Holds(p) => secret = NoWriterYet
  /\ secret = NoWriterYet => children = {}
  /\ secret # NoWriterYet => /\ secret \in Procs /\ proc[secret].pc = "done"
                             /\ children = Rows(proc[secret].kind)

Finder == [pc : {"idle", "preload", "done"}, found : Procs \cup {NoWriterYet},
           rows : SUBSET {"findings", "ios_metadata", "components"}]

WholeFinder ==
  /\ finder \in Finder
  /\ finder.pc # "idle" => secret # NoWriterYet /\ finder.found = secret
  /\ finder.pc = "done" => finder.rows = children

WholeInv == DBInv /\ WholeRows /\ WholeFinder

(* A statement of process p that commits nothing keeps it, if what p holds *)
(* then fits its step and it takes the secret row only when it is free.    *)
LEMMA StatementStep ==
  ASSUME WholeRows, WholeFinder, NEW p \in Procs, \A q \in Procs \ {p} : proc'[q] = proc[q],
         proc[p].pc # "done", Fits(proc'[p]),
         Holds(p)' => Holds(p) \/ (secret = NoWriterYet /\ \A q \in Procs \ {p} : ~Holds(q)),
         UNCHANGED <<package, secret, children, finder>>
  PROVE  WholeRows' /\ WholeFinder'
<1>1. secret # p
  BY MigrationsAssumption, Zenon DEF WholeRows
<1>2. WholeRows'
  BY <1>1, Zenon DEF WholeRows, Holds
<1> QED BY <1>2, Zenon DEF WholeFinder

(* The start of a process and its migrations write no row.                 *)
LEMMA BootWhole ==
  ASSUME WholeInv, NEW p \in Procs,
         Connect(p) \/ AutoMigrate(p) \/ MigrateFile(p) \/ EndMigrations(p)
  PROVE  WholeRows' /\ WholeFinder'
<1>1. proc \in [Procs -> Process] /\ proc[p] \in Process /\ Fits(proc[p])
      /\ WholeRows /\ WholeFinder
  BY Zenon DEF WholeInv, DBInv, WholeRows
<1>2. /\ proc[p].pc \in {"connect", "auto", "migrate"}
      /\ UNCHANGED <<package, secret, children, finder>>
  BY Zenon DEF Connect, AutoMigrate, MigrateFile, EndMigrations, Stored
<1>3. proc[p].holds \subseteq {"package"}
  BY <1>1, <1>2, Zenon DEF Fits
<1>4. /\ proc'[p].holds = proc[p].holds
      /\ proc'[p].pc \in {"connect", "auto", "migrate", "ready", "done"}
      /\ \A q \in Procs \ {p} : proc'[q] = proc[q]
  <2>1. CASE Connect(p)
    BY <1>1, <2>1 DEF Connect, Process
  <2>2. CASE AutoMigrate(p)
    BY <1>1, <2>2 DEF AutoMigrate, Go, Process
  <2>3. CASE MigrateFile(p)
    <3>1. PICK e : proc' = [proc EXCEPT ![p].at = @ + 1, ![p].errs = e]
      BY <2>3, Zenon DEF MigrateFile
    <3> QED BY <1>1, <1>2, <3>1, Zenon DEF Process
  <2>4. CASE EndMigrations(p)
    BY <1>1, <2>4 DEF EndMigrations, Go, Process
  <2> QED BY <2>1, <2>2, <2>3, <2>4, Zenon
<1>5. Fits(proc'[p]) /\ ~Holds(p)'
  BY <1>3, <1>4 DEF Fits, Holds
<1> QED BY <1>1, <1>2, <1>4, <1>5, StatementStep, Zenon

(* The statements of a transaction before its commit, and its rollback.    *)
LEMMA StatementsWhole ==
  ASSUME WholeInv, NEW p \in Procs,
         BeginTx(p) \/ BackfillNormalized(p) \/ FirstOrCreate(p) \/ CheckExisting(p)
           \/ CreateSecret(p) \/ CreateFindings(p) \/ CreateRest(p) \/ TxFails(p)
  PROVE  WholeRows' /\ WholeFinder'
<1>1. proc \in [Procs -> Process] /\ proc[p] \in Process /\ Fits(proc[p])
      /\ WholeRows /\ WholeFinder
  BY Zenon DEF WholeInv, DBInv, WholeRows
<1>2. /\ proc[p].pc \in TxSteps \cup {"ready"} /\ UNCHANGED <<package, secret, children, finder>>
  BY Zenon DEF BeginTx, BackfillNormalized, FirstOrCreate, CheckExisting, CreateSecret,
         CreateFindings, CreateRest, TxFails, Stored, TxSteps
<1>3. ASSUME NEW s, Go(p, s) \/ Snapshot(p, s)
      PROVE  /\ proc'[p].pc = s /\ proc'[p].holds = proc[p].holds
             /\ \A q \in Procs \ {p} : proc'[q] = proc[q]
  BY <1>1, <1>3 DEF Go, Snapshot, Process
<1>4. ASSUME NEW s, NEW row, Hold(p, row, s)
      PROVE  /\ proc'[p].pc = s /\ proc'[p].holds = proc[p].holds \cup {row}
             /\ proc'[p].kind = proc[p].kind
             /\ \A q \in Procs \ {p} : proc'[q] = proc[q]
  BY <1>1, <1>4, Zenon DEF Hold, Process
<1>5. ASSUME Rollback(p)
      PROVE  WholeRows' /\ WholeFinder'
  <2>1. /\ proc'[p].pc = "done" /\ proc'[p].holds = {}
        /\ \A q \in Procs \ {p} : proc'[q] = proc[q]
    BY <1>1, <1>5, Zenon DEF Rollback, Process
  <2>2. Fits(proc'[p]) /\ ~Holds(p)'
    BY <2>1, Zenon DEF Fits, Holds
  <2> QED BY <1>1, <1>2, <2>1, <2>2, StatementStep, Zenon DEF TxSteps
<1>6. ASSUME NEW s \in {"package", "existing", "secret", "commit", "done"},
             Go(p, s) \/ Snapshot(p, s), proc[p].pc \notin {"findings", "rest", "commit"}
      PROVE  WholeRows' /\ WholeFinder'
  <2>1. /\ proc'[p].pc = s /\ proc'[p].holds = proc[p].holds
        /\ \A q \in Procs \ {p} : proc'[q] = proc[q]
    BY <1>3, <1>6, Zenon
  <2>2. proc[p].holds \subseteq {"package"}
    BY <1>1, <1>6, Zenon DEF Fits
  <2>3. Fits(proc'[p]) /\ ~Holds(p)'
    BY <1>6, <2>1, <2>2 DEF Fits, Holds
  <2> QED BY <1>1, <1>2, <2>1, <2>3, StatementStep, Zenon DEF TxSteps
<1>7. ASSUME NEW s, NEW row, Hold(p, row, s), Fits(proc'[p]),
             row = "secret" => secret = NoWriterYet /\ \A q \in Procs \ {p} : ~Holds(q)
      PROVE  WholeRows' /\ WholeFinder'
  <2>1. /\ proc'[p].holds = proc[p].holds \cup {row}
        /\ \A q \in Procs \ {p} : proc'[q] = proc[q]
    BY <1>4, <1>7, Zenon
  <2>2. Holds(p)' => Holds(p) \/ (secret = NoWriterYet /\ \A q \in Procs \ {p} : ~Holds(q))
    BY <1>7, <2>1, Zenon DEF Holds
  <2> QED BY <1>1, <1>2, <1>7, <2>1, <2>2, StatementStep, Zenon DEF TxSteps
<1>8. CASE BeginTx(p) \/ BackfillNormalized(p) \/ CheckExisting(p)
  BY <1>6, <1>8, Zenon DEF BeginTx, BackfillNormalized, CheckExisting
<1>9. CASE FirstOrCreate(p)
  <2>1. PICK s \in {"secret", "existing"} : Go(p, s) \/ Rollback(p) \/ Hold(p, "package", s)
    BY <1>9, Zenon DEF FirstOrCreate
  <2>2. proc[p].pc = "package"
    BY <1>9, Zenon DEF FirstOrCreate
  <2>3. ASSUME Hold(p, "package", s)
        PROVE  WholeRows' /\ WholeFinder'
    <3>1. proc'[p].pc = s /\ proc'[p].holds = proc[p].holds \cup {"package"}
      BY <1>4, <2>3, Zenon
    <3>2. proc[p].holds \subseteq {"package"}
      BY <1>1, <2>2, Zenon DEF Fits
    <3>3. Fits(proc'[p])
      BY <3>1, <3>2, Zenon DEF Fits
    <3> QED BY <1>7, <2>3, <3>3, Zenon
  <2> QED BY <1>5, <1>6, <2>1, <2>2, <2>3, Zenon
<1>10. CASE CreateSecret(p)
  <2>1. ASSUME secret = NoWriterYet
        PROVE  WholeRows' /\ WholeFinder'
    <3>1. Hold(p, "secret", "findings") /\ proc[p].pc = "secret"
          /\ \A q \in Procs \ {p} : ~Holds(q)
      BY <1>10, <2>1, Zenon DEF CreateSecret, BlockedOn, Holds
    <3>2. proc'[p].pc = "findings" /\ proc'[p].holds = proc[p].holds \cup {"secret"}
      BY <1>4, <3>1, Zenon
    <3>3. proc[p].holds \subseteq {"package"}
      BY <1>1, <3>1, Zenon DEF Fits
    <3>4. Fits(proc'[p])
      BY <3>2, <3>3, Zenon DEF Fits
    <3> QED BY <1>7, <2>1, <3>1, <3>4, Zenon
  <2> QED BY <1>5, <1>10, <2>1, Zenon DEF CreateSecret
<1>11. CASE CreateFindings(p)
  <2>1. Hold(p, "findings", "rest") /\ proc[p].pc = "findings"
    BY <1>11, Zenon DEF CreateFindings
  <2>2. proc'[p].pc = "rest" /\ proc'[p].holds = proc[p].holds \cup {"findings"}
    BY <1>4, <2>1, Zenon
  <2>3. "secret" \in proc[p].holds /\ proc[p].holds \subseteq {"package", "secret"}
    BY <1>1, <2>1, Zenon DEF Fits
  <2>4. Fits(proc'[p])
    BY <2>2, <2>3, Zenon DEF Fits
  <2> QED BY <1>7, <2>1, <2>4, Zenon
<1>12. CASE CreateRest(p)
  <2>1. PICK row : /\ Hold(p, row, "commit") /\ proc[p].pc = "rest"
                   /\ row = IF proc[p].kind = "ios" THEN "ios_metadata" ELSE "components"
    BY <1>12, Zenon DEF CreateRest
  <2>2. /\ proc'[p].pc = "commit" /\ proc'[p].holds = proc[p].holds \cup {row}
        /\ proc'[p].kind = proc[p].kind
    BY <1>4, <2>1, Zenon
  <2>3. {"secret", "findings"} \subseteq proc[p].holds
    BY <1>1, <2>1, Zenon DEF Fits
  <2>4. Fits(proc'[p])
    BY <2>1, <2>2, <2>3, Zenon DEF Fits, Rows
  <2>5. row # "secret"
    BY <2>1, Zenon
  <2> QED BY <1>7, <2>1, <2>4, <2>5, Zenon
<1>13. CASE TxFails(p)
  BY <1>5, <1>13, Zenon DEF TxFails
<1> QED BY <1>8, <1>9, <1>10, <1>11, <1>12, <1>13, Zenon

(* The commit makes all rows of a transaction visible together.            *)
LEMMA CommitWhole ==
  ASSUME WholeInv, NEW p \in Procs, Commit(p)
  PROVE  WholeRows' /\ WholeFinder'
<1> USE MigrationsAssumption
<1>1. proc \in [Procs -> Process] /\ proc[p] \in Process /\ Fits(proc[p])
      /\ WholeRows /\ WholeFinder /\ proc[p].pc = "commit"
  BY Zenon DEF WholeInv, DBInv, WholeRows, Commit
<1>2. /\ proc'[p].pc = "done" /\ proc'[p].holds = {} /\ proc'[p].kind = proc[p].kind
      /\ \A q \in Procs \ {p} : proc'[q] = proc[q]
      /\ UNCHANGED finder
  BY <1>1, Zenon DEF Commit, Rollback, Process
<1>3. Fits(proc'[p]) /\ ~Holds(p)'
  BY <1>2, Zenon DEF Fits, Holds
<1>4. secret # p
  BY <1>1, Zenon DEF WholeRows
<1>5. CASE ~Holds(p)
  <2>1. proc[p].holds \subseteq {"package"}
    BY <1>1, <1>5, Zenon DEF Fits, Holds
  <2>2. UNCHANGED secret
    BY <1>5, Zenon DEF Commit, Holds
  <2>3. proc[p].holds \cap Rows(proc[p].kind) = {}
    BY <2>1, Zenon DEF Rows
  <2>4. UNCHANGED children
    BY <2>3, Zenon DEF Commit
  <2>5. WholeRows'
    BY <1>1, <1>2, <1>3, <1>4, <2>2, <2>4, Zenon DEF WholeRows, Holds
  <2> QED BY <1>1, <1>2, <2>2, <2>4, <2>5, Zenon DEF WholeFinder
<1>6. CASE Holds(p)
  <2>1. secret = NoWriterYet /\ children = {} /\ \A q \in Procs \ {p} : ~Holds(q)
    BY <1>1, <1>6, Zenon DEF WholeRows
  <2>2. Rows(proc[p].kind) \subseteq proc[p].holds
    BY <1>1, <1>6, Zenon DEF Fits, Holds
  <2>3. secret' = p /\ children' = Rows(proc[p].kind)
    BY <1>6, <2>1, <2>2, Zenon DEF Commit, Holds
  <2>4. p # NoWriterYet
    BY Zenon
  <2>5. WholeRows'
    BY <1>1, <1>2, <1>3, <2>1, <2>3, <2>4, Zenon DEF WholeRows, Holds
  <2>6. finder.pc = "idle"
    BY <1>1, <2>1, Zenon DEF WholeFinder
  <2> QED BY <1>1, <1>2, <2>5, <2>6, Zenon DEF WholeFinder
<1> QED BY <1>5, <1>6, Zenon

(* The lookup reads the row, then the child tables.                        *)
LEMMA FinderWhole ==
  ASSUME WholeInv, FindRow \/ Preload
  PROVE  WholeRows' /\ WholeFinder'
<1>1. UNCHANGED <<proc, package, secret, children>> /\ WholeRows /\ WholeFinder
  BY Zenon DEF WholeInv, FindRow, Preload, Stored
<1>2. WholeRows'
  BY <1>1, Zenon DEF WholeRows, Holds
<1>3. /\ secret \in Procs \cup {NoWriterYet}
      /\ children \in SUBSET {"findings", "ios_metadata", "components"}
  BY <1>1, Zenon DEF WholeRows, Rows
<1>4. CASE FindRow
  <2>1. finder.pc = "idle" /\ finder'.found = secret
        /\ finder'.pc = IF secret = NoWriterYet THEN "idle" ELSE "preload"
    BY <1>1, <1>4, Zenon DEF FindRow, WholeFinder, Finder
  <2>2. finder' \in Finder
    BY <1>1, <1>3, <1>4, Zenon DEF FindRow, WholeFinder, Finder
  <2> QED BY <1>1, <1>2, <2>1, <2>2, Zenon DEF WholeFinder
<1>5. CASE Preload
  <2>1. /\ finder.pc = "preload" /\ finder'.pc = "done" /\ finder'.rows = children
        /\ finder'.found = finder.found
    BY <1>1, <1>5, Zenon DEF Preload, WholeFinder, Finder
  <2>2. finder' \in Finder
    BY <1>1, <1>3, <1>5, Zenon DEF Preload, WholeFinder, Finder
  <2> QED BY <1>1, <1>2, <2>1, <2>2, Zenon DEF WholeFinder
<1> QED BY <1>4, <1>5, Zenon

(* A duplicate lookup finds a result with all its rows, for any number of  *)
(* processes that store, fail and roll back around it (insertSecretsSync,  *)
(* BackfillNormalized, CheckDuplicateInDB).                                *)
THEOREM DuplicatesAreWhole == DBInit /\ [][DBNext]_dbVars => []DuplicateIsWhole
<1>1. DBInit => WholeInv
  <2> SUFFICES ASSUME DBInit PROVE WholeInv
    BY Zenon
  <2>1. \A p \in Procs : proc[p].pc = "connect" /\ proc[p].holds = {}
    BY Zenon DEF DBInit, NewProc
  <2>2. WholeRows
    BY <2>1, Zenon DEF DBInit, WholeRows, Fits, Holds
  <2>3. WholeFinder
    BY Zenon DEF DBInit, WholeFinder, Finder
  <2> QED BY <2>2, <2>3, DBInvInit, Zenon DEF WholeInv
<1>2. WholeInv /\ [DBNext]_dbVars => WholeInv'
  <2> SUFFICES ASSUME WholeInv, [DBNext]_dbVars PROVE WholeInv'
    BY Zenon
  <2>1. DBInv'
    BY DBInvStep, Zenon DEF WholeInv
  <2>2. CASE UNCHANGED dbVars
    BY <2>1, <2>2, Zenon DEF dbVars, WholeInv, WholeRows, WholeFinder, Holds
  <2>3. CASE DBNext
    BY <2>1, <2>3, BootWhole, StatementsWhole, CommitWhole, FinderWhole, Zenon DEF DBNext, WholeInv
  <2> QED BY <2>2, <2>3, Zenon
<1>3. WholeInv => DuplicateIsWhole
  BY Zenon DEF WholeInv, WholeRows, WholeFinder, DuplicateIsWhole
<1> QED BY <1>1, <1>2, <1>3, PTL

-----------------------------------------------------------------------------
(* StatusIndex.  There is one copy of the job; what its sets hold follows  *)
(* from the next command of the worker that has it.                        *)

(* The worker holds the one copy of the job.                               *)
Holding == writer.pc \notin {"idle", "ack"}

IndexTypes ==
  /\ stat \in {"none"} \cup IndexPending \cup IndexTerminal
  /\ member \subseteq IndexPending \cup IndexTerminal
  /\ queued \in Nat /\ parked \in Nat /\ reviving \in Nat
  /\ writer \in [pc : Commands, old : {"none"} \cup IndexPending \cup IndexTerminal,
                 new : {"none"} \cup IndexPending \cup IndexTerminal]
  /\ sweep \in {"none"} \cup IndexTerminal
  /\ left \in [{"cancel", "revive", "retry"} -> Nat]
  /\ left["cancel"] <= IndexCancels

(* One copy: queued, parked, between the two, or with the worker.          *)
OneCopy ==
  /\ queued + parked + reviving <= 1
  /\ Holding => queued + parked + reviving = 0
  /\ parked + reviving > 0 => stat \in {"failed", "none"}
  /\ queued > 0 => stat \in {"queued", "cancelled"}
  /\ stat = "none" => writer.pc = "idle" /\ queued = 0
  /\ sweep # "none" => stat = "none"
  /\ stat = "cancelled" => left["cancel"] < IndexCancels

Filed ==
  \/ stat \in member
  \/ stat = "cancelled" /\ CancelledAgain /\ member \cap IndexPending # {}

Preceding(s) == IF s = "processing" THEN {"queued", "cancelled"} ELSE {"processing", "cancelled"}

(* Where the job is filed, by the next command of the worker.              *)
FiledAt ==
  /\ At("idle") \/ At("ack") =>
       \/ stat = "none"
       \/ stat = "failed" /\ parked + reviving > 0
       \/ stat \in {"queued", "cancelled", "completed"} /\ Filed
  /\ At("load") => stat \in {"queued", "cancelled"} /\ Filed
  /\ At("hget") => /\ writer.new \in {"processing", "queued", "completed", "failed"}
                   /\ stat \in Preceding(writer.new) /\ Filed
  /\ At("hset") => /\ writer.new \in {"processing", "queued", "completed", "failed"}
                   /\ writer.old \in Preceding(writer.new) /\ stat \in Preceding(writer.new)
                   /\ writer.old = "cancelled" => stat = "cancelled"
  /\ At("srem") \/ At("sadd") =>
       /\ writer.new \in {"processing", "queued", "completed", "failed"}
       /\ writer.old \in Preceding(writer.new)
       /\ writer.old = "cancelled" => left["cancel"] < IndexCancels
       /\ \/ stat = writer.new
          \/ /\ writer.new \in IndexPending /\ stat = "cancelled"
             /\ ("cancelled" \in member /\ writer.old # "cancelled") \/ CancelledAgain
  /\ At("scan") => stat \in {"processing", "cancelled"} /\ Filed
  /\ At("push") => stat \in {"queued", "cancelled"} /\ Filed
  /\ At("cleanq") \/ At("cleanp") =>
       writer.new \in {"completed", "failed"} /\ stat = writer.new /\ stat \in member
  /\ At("todlq") => stat = "failed"

IndexInv == IndexTypes /\ OneCopy /\ FiledAt

(* A job that was never enqueued is in no set.                             *)
LEMMA IndexStart == IndexInit => IndexInv
<1> SUFFICES ASSUME IndexInit PROVE IndexInv
  BY Zenon
<1> USE IndexAssumption DEF IndexInit, NoWriter
<1>1. IndexTypes
  BY DEF IndexTypes, IndexPending, IndexTerminal, Commands
<1>2. OneCopy /\ FiledAt
  BY DEF OneCopy, FiledAt, Holding, Filed, At
<1> QED  BY <1>1, <1>2, Zenon DEF IndexInv

(* Every command of the worker, the cancel script, a retry from the DLQ    *)
(* and the expiry of the hash keep the job filed as its next command       *)
(* expects (UpdateJob).                                                    *)
LEMMA IndexStep == IndexInv /\ [IndexNext]_indexVars => IndexInv'
<1> SUFFICES ASSUME IndexInv, [IndexNext]_indexVars PROVE IndexInv'
  BY Zenon
<1> USE IndexAssumption DEF IndexInv
<1>1. CASE IndexPop
  <2>1. IndexTypes'
    BY <1>1 DEF IndexPop, Then, IndexTypes, Commands
  <2>2. OneCopy'
    BY <1>1 DEF IndexPop, IndexTypes, OneCopy
  <2>3. FiledAt'
    BY <1>1 DEF IndexPop, Then, OneCopy, FiledAt, Filed, CancelledAgain, At
  <2> QED  BY <2>1, <2>2, <2>3, Zenon
<1>2. CASE IndexLoad
  <2>1. IndexTypes'
    BY <1>2 DEF IndexLoad, Then, Updating, IndexTypes, IndexPending, Commands
  <2>2. OneCopy'
    BY <1>2, Zenon DEF IndexLoad, OneCopy, Holding, At
  <2>3. FiledAt'
    BY <1>2 DEF IndexLoad, Then, Updating, IndexTypes, FiledAt, Filed, Preceding, CancelledAgain, At
  <2> QED  BY <2>1, <2>2, <2>3, Zenon
<1>3. CASE ReadOld
  <2>1. IndexTypes'
    BY <1>3, Zenon DEF ReadOld, IndexTypes, Commands
  <2>2. OneCopy'
    BY <1>3, Zenon DEF ReadOld, OneCopy, Holding, At
  <2>3. FiledAt'
    BY <1>3 DEF ReadOld, FiledAt, At
  <2> QED  BY <2>1, <2>2, <2>3, Zenon
<1>4. CASE WriteHash
  <2>1. IndexTypes'
    BY <1>4, Zenon DEF WriteHash, Then, AfterBookkeeping, IndexTypes, Commands
  <2>2. OneCopy'
    <3>1. /\ writer.new \in {"processing", "queued", "completed", "failed"}
          /\ writer'.pc \in {"srem", "scan", "push", "cleanq"}
      <4>1. writer.new \in {"processing", "queued", "completed", "failed"}
        BY <1>4, Zenon DEF WriteHash, FiledAt, At
      <4>2. AfterBookkeeping(writer.new) \in {"scan", "push", "cleanq"}
        BY <4>1, Zenon DEF AfterBookkeeping
      <4> QED  BY <1>4, <4>1, <4>2, Zenon DEF WriteHash, Then, IndexTypes
    <3>2. queued + parked + reviving = 0 /\ sweep = "none"
      BY <1>4, Zenon DEF WriteHash, OneCopy, Holding, At
    <3> QED  BY <1>4, <3>1, <3>2 DEF WriteHash, OneCopy, Holding, IndexTypes
  <2>3. FiledAt'
    BY <1>4, Zenon DEF WriteHash, Then, IndexTypes, OneCopy, FiledAt, Preceding, At
  <2> QED  BY <2>1, <2>2, <2>3, Zenon
<1>5. CASE RemoveOld
  <2>1. IndexTypes'
    BY <1>5, Zenon DEF RemoveOld, Then, IndexTypes, Commands
  <2>2. OneCopy'
    BY <1>5, Zenon DEF RemoveOld, OneCopy, Holding, At
  <2>3. FiledAt'
    <3>1. /\ writer'.pc = "sadd" /\ writer'.old = writer.old /\ writer'.new = writer.new
          /\ stat' = stat /\ left' = left /\ member' = member \ {writer.old}
      BY <1>5, Zenon DEF RemoveOld, Then, IndexTypes
    <3>2. /\ writer.new \in {"processing", "queued", "completed", "failed"}
          /\ writer.old \in Preceding(writer.new)
          /\ writer.old = "cancelled" => left["cancel"] < IndexCancels
          /\ \/ stat = writer.new
             \/ /\ writer.new \in IndexPending /\ stat = "cancelled"
                /\ ("cancelled" \in member /\ writer.old # "cancelled") \/ CancelledAgain
      BY <1>5, Zenon DEF RemoveOld, FiledAt, At
    <3> QED  BY <3>1, <3>2, Zenon DEF FiledAt, At, CancelledAgain, Preceding
  <2> QED  BY <2>1, <2>2, <2>3, Zenon
<1>6. CASE AddNew
  <2>1. IndexTypes'
    <3>1. writer.new \in {"processing", "queued", "completed", "failed"}
      BY <1>6, Zenon DEF AddNew, FiledAt, At
    <3>2. AfterBookkeeping(writer.new) \in {"scan", "push", "cleanq"}
      BY <3>1, Zenon DEF AfterBookkeeping
    <3> QED  BY <1>6, <3>1, <3>2, Zenon DEF AddNew, Then, IndexTypes, Commands
  <2>2. OneCopy'
    BY <1>6, Zenon DEF AddNew, OneCopy, Holding, At
  <2>3. FiledAt'
    BY <1>6, Zenon DEF AddNew, Then, AfterBookkeeping, IndexTypes, FiledAt, Filed,
          CancelledAgain, At, IndexPending
  <2> QED  BY <2>1, <2>2, <2>3, Zenon
<1>7. CASE CleanPending
  <2>1. IndexTypes'
    BY <1>7, Zenon DEF CleanPending, Then, IndexTypes, Commands
  <2>2. OneCopy'
    BY <1>7, Zenon DEF CleanPending, OneCopy, Holding, At
  <2>3. FiledAt'
    BY <1>7, Zenon DEF CleanPending, Then, IndexTypes, FiledAt, Filed, At
  <2> QED  BY <2>1, <2>2, <2>3, Zenon
<1>8. CASE IndexScan
  <2>1. IndexTypes'
    BY <1>8 DEF IndexScan, Then, Updating, IndexTypes, IndexPending, IndexTerminal, Commands
  <2>2. OneCopy'
    BY <1>8, Zenon DEF IndexScan, OneCopy, Holding, At
  <2>3. FiledAt'
    <3>0. stat \in {"processing", "cancelled"} /\ Filed /\ Filed'
      BY <1>8, Zenon DEF IndexScan, FiledAt, Filed, CancelledAgain
    <3>1. CASE \E s \in {"completed", "failed", "queued"} : Updating(s)
      BY <1>8, <3>0, <3>1 DEF IndexScan, Updating, FiledAt, At, Preceding
    <3>2. CASE stat = "cancelled" /\ Then("ack")
      <4>1. writer'.pc = "ack" /\ stat' = "cancelled"
        BY <1>8, <3>2, Zenon DEF IndexScan, Then, IndexTypes
      <4> QED  BY <3>0, <4>1, Zenon DEF FiledAt, At
    <3> QED  BY <1>8, <3>1, <3>2, Zenon DEF IndexScan
  <2> QED  BY <2>1, <2>2, <2>3, Zenon
<1>9. CASE IndexPush
  <2>1. IndexTypes'
    BY <1>9 DEF IndexPush, Then, IndexTypes, Commands
  <2>2. OneCopy'
    BY <1>9 DEF IndexPush, Then, IndexTypes, OneCopy, FiledAt, Holding, At
  <2>3. FiledAt'
    BY <1>9 DEF IndexPush, Then, FiledAt, Filed, CancelledAgain, At
  <2> QED  BY <2>1, <2>2, <2>3, Zenon
<1>10. CASE IndexToDLQ
  <2>1. IndexTypes'
    BY <1>10 DEF IndexToDLQ, Then, IndexTypes, Commands
  <2>2. OneCopy'
    BY <1>10 DEF IndexToDLQ, Then, IndexTypes, OneCopy, FiledAt, Holding, At
  <2>3. FiledAt'
    BY <1>10 DEF IndexToDLQ, Then, IndexTypes, FiledAt, At
  <2> QED  BY <2>1, <2>2, <2>3, Zenon
<1>11. CASE IndexAck
  <2>1. IndexTypes'
    BY <1>11, Zenon DEF IndexAck, NoWriter, IndexTypes, Commands
  <2>2. OneCopy'
    BY <1>11, Zenon DEF IndexAck, NoWriter, OneCopy, Holding
  <2>3. FiledAt'
    BY <1>11, Zenon DEF IndexAck, NoWriter, FiledAt, Filed, CancelledAgain, At
  <2> QED  BY <2>1, <2>2, <2>3, Zenon
<1>12. CASE IndexCancel
  <2>1. IndexTypes'
    BY <1>12 DEF IndexCancel, IndexTypes, IndexTerminal
  <2>2. OneCopy'
    <3>1. /\ queued \in Nat /\ parked \in Nat /\ reviving \in Nat /\ left["cancel"] \in Nat
          /\ left'["cancel"] = left["cancel"] - 1 /\ left["cancel"] > 0
          /\ left["cancel"] <= IndexCancels /\ stat' = "cancelled" /\ stat \in IndexPending
          /\ UNCHANGED <<parked, reviving, writer, sweep>>
          /\ queued' = IF stat = "queued" /\ queued > 0 THEN queued - 1 ELSE queued
      BY <1>12, Zenon DEF IndexCancel, IndexTypes
    <3>2. left'["cancel"] < IndexCancels
      BY <3>1 DEF IndexAssumption
    <3>3. queued' \in Nat /\ queued' <= queued
      BY <3>1
    <3>4. /\ queued + parked + reviving <= 1 /\ (Holding => queued + parked + reviving = 0)
          /\ parked + reviving = 0 /\ sweep = "none" /\ Holding' = Holding
      BY <3>1 DEF OneCopy, IndexPending, Holding
    <3>5. /\ queued' + parked' + reviving' <= 1 /\ (Holding => queued' + parked' + reviving' = 0)
          /\ ~(parked' + reviving' > 0)
      BY <3>1, <3>3, <3>4
    <3> QED  BY <3>1, <3>2, <3>4, <3>5, Zenon DEF OneCopy
  <2>3. FiledAt'
    <3>1. /\ stat \in IndexPending /\ stat' = "cancelled" /\ "cancelled" \in member'
          /\ writer' = writer /\ left'["cancel"] = left["cancel"] - 1
          /\ left["cancel"] \in Nat /\ left["cancel"] <= IndexCancels
      BY <1>12, Zenon DEF IndexCancel, IndexTypes
    <3>2. Filed' /\ (left["cancel"] < IndexCancels => CancelledAgain')
      BY <3>1 DEF Filed, CancelledAgain
    <3> HIDE DEF IndexInv
    <3>3. CASE At("srem") \/ At("sadd")
      <4>1. /\ writer.new \in {"processing", "queued", "completed", "failed"}
            /\ writer.old \in Preceding(writer.new)
            /\ writer.old = "cancelled" => left["cancel"] < IndexCancels
            /\ stat = writer.new
        BY <3>1, <3>3, Zenon DEF IndexInv, FiledAt, At, IndexPending
      <4>2. writer.new \in IndexPending
        BY <3>1, <4>1, Zenon
      <4> QED  BY <3>1, <3>2, <3>3, <4>1, <4>2 DEF FiledAt, At, Preceding
    <3>4. CASE ~(At("srem") \/ At("sadd"))
      BY <3>1, <3>2, <3>4, Zenon DEF IndexInv, FiledAt, At, Preceding, IndexPending
    <3> QED  BY <3>3, <3>4, Zenon
  <2> QED  BY <2>1, <2>2, <2>3, Zenon
<1>13. CASE IndexUnpark
  <2>1. IndexTypes'
    BY <1>13 DEF IndexUnpark, IndexTypes
  <2>2. OneCopy'
    BY <1>13 DEF IndexUnpark, IndexTypes, OneCopy, Holding
  <2>3. FiledAt'
    BY <1>13 DEF IndexUnpark, IndexTypes, FiledAt, Filed, CancelledAgain, At
  <2> QED  BY <2>1, <2>2, <2>3, Zenon
<1>14. CASE IndexRevive
  <2>1. IndexTypes'
    BY <1>14 DEF IndexRevive, IndexTypes, IndexPending
  <2>2. OneCopy'
    BY <1>14 DEF IndexRevive, IndexTypes, OneCopy, Holding
  <2>3. FiledAt'
    BY <1>14 DEF IndexRevive, IndexTypes, OneCopy, FiledAt, Holding, Filed, At
  <2> QED  BY <2>1, <2>2, <2>3, Zenon
<1>15. CASE HashExpires
  <2>1. IndexTypes'
    BY <1>15, Zenon DEF HashExpires, IndexTypes
  <2>2. OneCopy'
    BY <1>15 DEF HashExpires, Settled, OneCopy, Holding, At
  <2>3. FiledAt'
    BY <1>15, Zenon DEF HashExpires, Settled, FiledAt, At
  <2> QED  BY <2>1, <2>2, <2>3, Zenon
<1>16. CASE TrimTerminalStatusSets
  <2>1. IndexTypes'
    BY <1>16, Zenon DEF TrimTerminalStatusSets, IndexTypes
  <2>2. OneCopy'
    BY <1>16, Zenon DEF TrimTerminalStatusSets, OneCopy, Holding
  <2>3. FiledAt'
    BY <1>16, Zenon DEF TrimTerminalStatusSets, OneCopy, FiledAt, At
  <2> QED  BY <2>1, <2>2, <2>3, Zenon
<1>17. CASE UNCHANGED indexVars
  <2>1. IndexTypes'
    BY <1>17, Zenon DEF indexVars, IndexTypes
  <2>2. OneCopy'
    BY <1>17, Zenon DEF indexVars, OneCopy, Holding
  <2>3. FiledAt'
    BY <1>17, Zenon DEF indexVars, FiledAt, Filed, CancelledAgain, At
  <2> QED  BY <2>1, <2>2, <2>3, Zenon
<1> QED
  BY <1>1, <1>2, <1>3, <1>4, <1>5, <1>6, <1>7, <1>8, <1>9, <1>10, <1>11, <1>12, <1>13, <1>14, <1>15, <1>16, <1>17, Zenon DEF IndexNext, UpdateJobIndex

(* Whenever nobody is between two commands, a job is in the set of its     *)
(* status, but for a failed one that is parked and one that was cancelled  *)
(* again while the worker overwrote the first cancel (UpdateJob,           *)
(* CancelJob). For any number of retries, cancels and revivals.            *)
THEOREM JobsAreFiled == IndexSpec => []IndexFindsJob
<1>1. IndexInv => IndexFindsJob
  BY Zenon DEF IndexInv, FiledAt, Filed, IndexFindsJob, Settled
<1> QED  BY <1>1, IndexStart, IndexStep, PTL DEF IndexSpec

-----------------------------------------------------------------------------
(* ResultCache.  NeverAhead is inductive once it covers every place that   *)
(* holds a version.                                                        *)

(* What a pod knows, stored, read or still to be stored, is a version that *)
(* Redis has reached.                                                      *)
Reached(v) == v \in Nat /\ v <= version

CacheInv ==
  /\ version \in Nat
  /\ local \in [Pods -> Nat] /\ \A p \in Pods : Reached(local[p])
  /\ load \in [Pods -> [Loaders -> Int]]
  /\ \A p \in Pods, l \in Loaders : load[p][l] = -1 \/ Reached(load[p][l])
  /\ bump \in [Pods -> [at : {"idle", "store", "publish"}, got : Nat]]
  /\ \A p \in Pods : Reached(bump[p].got)
  /\ \A v \in entries : Reached(v)

(* A GET reads the version Redis has; a store takes over what was read     *)
(* (loadPatternVersion).                                                   *)
LEMMA LoadStep ==
  ASSUME CacheInv, NEW p \in Pods, NEW l \in Loaders,
         (GetVersion(p, l) /\ UNCHANGED local) \/ LoadStores(p, l),
         UNCHANGED <<version, bump, entries>>
  PROVE  CacheInv'
<1> USE DEF CacheInv, Reached
<1>1. CASE GetVersion(p, l) /\ UNCHANGED local
  <2>1. load' = [load EXCEPT ![p] = [load[p] EXCEPT ![l] = version]] \/ load' = load
    BY <1>1, Zenon DEF GetVersion
  <2>2. load' \in [Pods -> [Loaders -> Int]]
    BY <2>1
  <2>3. ASSUME NEW q \in Pods, NEW k \in Loaders
        PROVE  load'[q][k] \in {load[q][k], version}
    BY <2>1
  <2> QED  BY <1>1, <2>2, <2>3
<1>2. CASE LoadStores(p, l)
  <2>1. /\ load[p][l] \in Nat /\ load[p][l] <= version
        /\ local' = [local EXCEPT ![p] = load[p][l]]
        /\ load' = [load EXCEPT ![p] = [load[p] EXCEPT ![l] = -1]]
    BY <1>2, Zenon DEF LoadStores
  <2>2. load' \in [Pods -> [Loaders -> Int]]
    BY <2>1
  <2>3. \A q \in Pods, k \in Loaders : load'[q][k] = -1 \/ (load'[q][k] \in Nat /\ load'[q][k] <= version)
    BY <2>1, Zenon
  <2>4. local' \in [Pods -> Nat] /\ \A q \in Pods : local'[q] <= version
    BY <2>1, Zenon
  <2> QED  BY <2>2, <2>3, <2>4, Zenon
<1> QED  BY <1>1, <1>2, Zenon

(* Every step of a pod keeps it: INCR returns the version it leaves in     *)
(* Redis, and the version never goes back (InvalidateAllMetadataCache).    *)
LEMMA PodStep == ASSUME CacheInv, NEW p \in Pods, CachePod(p) PROVE CacheInv'
<1> USE DEF CacheInv, Reached
<1>1. CASE IncrVersion(p)
  <2>1. CASE UNCHANGED <<version, bump>>
    BY <1>1, <2>1, Zenon DEF IncrVersion
  <2>2. CASE version' = version + 1 /\ bump' = [bump EXCEPT ![p] = [at |-> "store", got |-> version + 1]]
    BY <1>1, <2>2 DEF IncrVersion
  <2> QED  BY <1>1, <2>1, <2>2, Zenon DEF IncrVersion
<1>2. CASE StoreBump(p)
  BY <1>2, Zenon DEF StoreBump
<1>3. CASE PublishInvalidation(p)
  BY <1>3 DEF PublishInvalidation
<1>4. CASE HandleMessage(p)
  <2> HIDE DEF CacheInv
  <2> QED  BY <1>4, LoadStep, Zenon DEF HandleMessage, Loaders
<1>5. CASE RefreshVersion(p)
  <2> HIDE DEF CacheInv
  <2> QED  BY <1>5, LoadStep, Zenon DEF RefreshVersion, Loaders
<1>6. CASE GetMetadata(p)
  BY <1>6, Zenon DEF GetMetadata
<1>7. CASE ReloadOnMiss(p)
  <2> HIDE DEF CacheInv
  <2> QED  BY <1>7, LoadStep, Zenon DEF ReloadOnMiss, Loaders
<1>8. CASE SetMetadata(p)
  BY <1>8, Zenon DEF SetMetadata
<1> QED  BY <1>1, <1>2, <1>3, <1>4, <1>5, <1>6, <1>7, <1>8, Zenon DEF CachePod

(* No pod is ahead of Redis, for any number of pods, invalidations and     *)
(* failing commands: what loadPatternVersion stores was read from Redis,   *)
(* and INCR comes before the store (InvalidateAllMetadataCache).           *)
THEOREM PodsAreNeverAhead == CacheSpec => []NeverAhead
<1>1. CacheInit => CacheInv
  BY DEF CacheInit, CacheInv, Reached, Loaders
<1>2. CacheInv /\ [CacheNext]_cacheVars => CacheInv'
  <2> SUFFICES ASSUME CacheInv, [CacheNext]_cacheVars PROVE CacheInv'
    BY Zenon
  <2>1. CASE EntryExpires
    BY <2>1, Zenon DEF EntryExpires, CacheInv, Reached
  <2>2. CASE UNCHANGED cacheVars
    BY <2>2, Zenon DEF cacheVars, CacheInv, Reached
  <2> QED  BY <2>1, <2>2, PodStep, Zenon DEF CacheNext
<1>3. CacheInv => NeverAhead
  BY Zenon DEF CacheInv, Reached, NeverAhead
<1> QED  BY <1>1, <1>2, <1>3, PTL DEF CacheSpec

-----------------------------------------------------------------------------
(* Lifecycle.  CleanShutdown alone is not inductive: the invariant says    *)
(* what each stage of the shutdown has drained.                            *)

CrewStates == {"off", "popping", "scanning", "storing", "notifying", "resting", "stopped"}
HookStates == {"none", "running", "delivered", "recorded", "lost"}

Shape ==
  /\ visit \in [Visits -> {"none", "running", "answered"}]
  /\ crew \in [Crew -> CrewStates]
  /\ hook \in [Crew -> HookStates]

Early == {"boot", "sweep", "pool"}

(* Nothing runs before the pool is started, a worker that never started    *)
(* has no delivery, and a process without a listener has no request.       *)
NothingEarly ==
  /\ stage \in Early \/ mode = "worker" => \A r \in Visits : visit[r] = "none"
  /\ stage \in Early => \A w \in Crew : crew[w] = "off"
  /\ \A w \in Crew : crew[w] = "off" => hook[w] = "none"

(* What each stage of the shutdown leaves behind. *)
Drained ==
  ~late =>
    /\ stage \in {"background", "workers", "hooks", "db", "exited"} =>
         \A r \in Visits : visit[r] # "running"
    /\ stage \in {"hooks", "db", "exited"} => CrewStopped
    /\ stage \in {"db", "exited"} => \A w \in Crew : hook[w] # "running"

LifeInv == Shape /\ NothingEarly /\ Drained /\ (db = "closed" => stage \in {"db", "exited"})

(* The process starts with nothing running. *)
LEMMA LifeInvInit == LifeInit => LifeInv
BY Zenon DEF LifeInit, LifeInv, Shape, NothingEarly, Drained, Early, CrewStates, HookStates

(* The start, the signal and the stages of the shutdown keep it. *)
LEMMA MainInv == ASSUME LifeInv, Boot \/ Sweep \/ StartPool \/ Signal \/ MainStep PROVE LifeInv'
<1> USE DEF LifeInv, Shape, NothingEarly, Drained, CrewStopped, Early
<1>1. CASE Boot
  BY <1>1, Zenon DEF Boot, RunServer, RunAPIOnly, RunWorkerOnly, InitUpToQueue, ValidateStorageOrExit
<1>2. CASE Sweep
  BY <1>2, Zenon DEF Sweep
<1>3. CASE StartPool
  BY <1>3, Zenon DEF StartPool, CrewStates
<1>4. CASE Signal
  BY <1>4, Zenon DEF Signal
<1>5. CASE DrainHTTP
  BY <1>5, Zenon DEF DrainHTTP
<1>6. CASE StopBackground
  BY <1>6, Zenon DEF StopBackground, HasPool
<1>7. CASE DrainWorkers
  BY <1>7, Zenon DEF DrainWorkers
<1>8. CASE DrainHooks
  BY <1>8, Zenon DEF DrainHooks, InFlight
<1>9. CASE CloseDB
  BY <1>9, Zenon DEF CloseDB
<1> QED BY <1>1, <1>2, <1>3, <1>4, <1>5, <1>6, <1>7, <1>8, <1>9, Zenon DEF MainStep

(* A request that arrives or is answered keeps it. *)
LEMMA VisitInv == ASSUME LifeInv, NEW r \in Visits, Listen(r) \/ Respond(r) PROVE LifeInv'
BY Zenon DEF Listen, Respond, Alive, LifeInv, Shape, NothingEarly, Drained, CrewStopped, Early

(* The loop of a worker keeps it: none starts a job once all have stopped. *)
LEMMA CrewInv ==
  ASSUME LifeInv, NEW w \in Crew, PopOne(w) \/ LeaveLoop(w) \/ ScanEnds(w) \/ StoreEnds(w)
  PROVE  LifeInv'
<1>1. PICK from \in CrewStates \ {"off", "stopped"}, to \in CrewStates \ {"off"} :
        /\ crew[w] = from /\ crew' = [crew EXCEPT ![w] = to]
        /\ UNCHANGED <<mode, stage, visit, hook, db, late>>
  BY Zenon DEF PopOne, LeaveLoop, ScanEnds, StoreEnds, CrewStates
<1>2. Shape' /\ NothingEarly'
  BY <1>1, Zenon DEF LifeInv, Shape, NothingEarly, Early
<1>3. Drained'
  BY <1>1, Zenon DEF LifeInv, Shape, Drained, CrewStopped
<1> QED BY <1>1, <1>2, <1>3, Zenon DEF LifeInv

(* So does a delivery, which only a worker that has not stopped starts. *)
LEMMA HookInv ==
  ASSUME LifeInv, NEW w \in Crew, DispatchWebhook(w) \/ RetryWebhook(w) \/ DeliverWebhook(w)
  PROVE  LifeInv'
<1> USE DEF LifeInv, Shape, NothingEarly, Drained, CrewStopped, Early
<1>1. CASE DispatchWebhook(w)
  BY <1>1, Zenon DEF DispatchWebhook, CrewStates, HookStates
<1>2. CASE RetryWebhook(w)
  BY <1>2, Zenon DEF RetryWebhook
<1>3. CASE DeliverWebhook(w)
  BY <1>3 DEF DeliverWebhook, HookStates
<1> QED BY <1>1, <1>2, <1>3, Zenon

(* A process that meets its drain deadlines closes the database on nobody  *)
(* and takes no webhook with it (runServer, runWorkerOnly, WorkerPool.Stop,*)
(* WaitWebhooks).                                                          *)
THEOREM ShutdownIsClean == LifeInit /\ [][LifeNext]_lifeVars => []CleanShutdown
<1>1. LifeInit => LifeInv
  BY LifeInvInit, Zenon
<1>2. LifeInv /\ [LifeNext]_lifeVars => LifeInv'
  <2> SUFFICES ASSUME LifeInv, [LifeNext]_lifeVars PROVE LifeInv'
    BY Zenon
  <2>1. CASE UNCHANGED lifeVars
    BY <2>1, Zenon DEF lifeVars, LifeInv, Shape, NothingEarly, Drained, CrewStopped
  <2> QED BY <2>1, MainInv, VisitInv, CrewInv, HookInv, Zenon DEF LifeNext
<1>3. LifeInv => CleanShutdown
  BY Zenon DEF LifeInv, Drained, CrewStopped, CleanShutdown
<1> QED BY <1>1, <1>2, <1>3, PTL

-----------------------------------------------------------------------------
(* LocalStore implements Storage, for any number of calls, keys, bodies    *)
(* and chunks.  What makes it true is that a temporary file past the copy  *)
(* holds all of its chunks, so the rename publishes a whole body.          *)

(* A Put past the copy has written everything, and a key that holds a body *)
(* holds all of it.                                                        *)
PastCopy == {"sync", "close", "rename"}
LocalInv ==
  /\ LocalTypeOK
  /\ \A c \in Calls : put[c].at \in PastCopy => temp[c] = Chunks
  /\ \A k \in Keys : file[k].body # Absent => file[k].chunks = Chunks

(* NewLocalStorage starts with an empty directory. *)
LEMMA LocalInvInit == LocalInit => LocalInv
BY LocalAssumption
   DEF LocalInit, LocalInv, LocalTypeOK, NoFile, Idle, PastCopy, Steps

(* An error of any system call of Put keeps it: only the temporary file    *)
(* goes.                                                                   *)
LEMMA PutFailsInv == ASSUME LocalInv, NEW c \in Calls, PutFails(c) PROVE LocalInv'
<1>1. put' = [put EXCEPT ![c].at = "failed"] /\ temp' = [temp EXCEPT ![c] = -1] /\ file' = file
  BY Zenon DEF PutFails, GoPut
<1>2. LocalTypeOK'
  BY <1>1, LocalAssumption DEF LocalInv, LocalTypeOK, Steps
<1>3. \A d \in Calls : put'[d].at \in PastCopy => temp'[d] = Chunks
  BY <1>1, Zenon DEF LocalInv, LocalTypeOK, PastCopy
<1> QED BY <1>1, <1>2, <1>3, Zenon DEF LocalInv

(* So does a step that only moves the call on, to where it may be. *)
LEMMA MoveInv ==
  ASSUME LocalInv, NEW c \in Calls, NEW step \in Steps, GoPut(c, step),
         UNCHANGED <<file, temp>>,
         put[c].at \in {"copy"} \cup PastCopy,
         step \in PastCopy => temp[c] = Chunks
  PROVE  LocalInv'
<1>1. put' = [put EXCEPT ![c].at = step]
  BY Zenon DEF GoPut
<1>2. put[c].key \in Keys /\ put[c].body \in Bodies
  BY Zenon DEF LocalInv, LocalTypeOK, PastCopy
<1>3. LocalTypeOK'
  BY <1>1, <1>2, Zenon DEF LocalInv, LocalTypeOK
<1>4. \A d \in Calls : put'[d].at \in PastCopy => temp'[d] = Chunks
  BY <1>1, Zenon DEF LocalInv, LocalTypeOK
<1> QED BY <1>3, <1>4, Zenon DEF LocalInv

(* Every step of the store keeps the invariant: each system call of Put,   *)
(* its failure, the death of its process, and Delete.                      *)
LEMMA LocalInvStep == LocalInv /\ [LocalNext]_localVars => LocalInv'
<1> SUFFICES ASSUME LocalInv, [LocalNext]_localVars PROVE LocalInv'
  BY Zenon
<1>1. ASSUME NEW c \in Calls, NEW k \in Keys, NEW b \in Bodies, PutStart(c, k, b) PROVE LocalInv'
  <2>1. CASE PutFails(c)
    BY <2>1, PutFailsInv, Zenon
  <2>2. CASE /\ put' = [put EXCEPT ![c] = [at |-> "copy", key |-> k, body |-> b]]
             /\ temp' = [temp EXCEPT ![c] = 0]
             /\ UNCHANGED file
    <3>1. LocalTypeOK'
      BY <2>2, LocalAssumption DEF LocalInv, LocalTypeOK, Steps
    <3>2. \A d \in Calls : put'[d].at \in PastCopy => temp'[d] = Chunks
      BY <2>2, Zenon DEF LocalInv, LocalTypeOK, PastCopy
    <3> QED BY <2>2, <3>1, <3>2, Zenon DEF LocalInv
  <2> QED BY <1>1, <2>1, <2>2, Zenon DEF PutStart
<1>2. ASSUME NEW c \in Calls, PutCopy(c) PROVE LocalInv'
  <2>1. CASE PutFails(c)
    BY <2>1, PutFailsInv, Zenon
  <2>2. CASE /\ temp[c] < Chunks
             /\ temp' = [temp EXCEPT ![c] = @ + 1]
             /\ UNCHANGED <<file, put>>
    <3>1. temp[c] \in -1..Chunks
      BY Zenon DEF LocalInv, LocalTypeOK
    <3>2. temp[c] + 1 \in -1..Chunks
      BY <2>2, <3>1, LocalAssumption
    <3>3. LocalTypeOK'
      BY <2>2, <3>2, Zenon DEF LocalInv, LocalTypeOK
    <3>4. \A d \in Calls : put'[d].at \in PastCopy => temp'[d] = Chunks
      BY <1>2, <2>2, Zenon DEF LocalInv, LocalTypeOK, PutCopy, PutAt, PastCopy
    <3> QED BY <2>2, <3>3, <3>4, Zenon DEF LocalInv
  <2>3. CASE temp[c] = Chunks /\ GoPut(c, "sync") /\ UNCHANGED <<file, temp>>
    BY <1>2, <2>3, MoveInv, Zenon DEF PutCopy, PutAt, Steps
  <2> QED BY <1>2, <2>1, <2>2, <2>3, Zenon DEF PutCopy
<1>3. ASSUME NEW c \in Calls, PutSync(c) PROVE LocalInv'
  <2>1. temp[c] = Chunks
    BY <1>3, Zenon DEF PutSync, PutAt, LocalInv, PastCopy
  <2> QED BY <1>3, <2>1, PutFailsInv, MoveInv, Zenon DEF PutSync, PutAt, PastCopy, Steps
<1>4. ASSUME NEW c \in Calls, PutClose(c) PROVE LocalInv'
  <2>1. temp[c] = Chunks
    BY <1>4, Zenon DEF PutClose, PutAt, LocalInv, PastCopy
  <2> QED BY <1>4, <2>1, PutFailsInv, MoveInv, Zenon DEF PutClose, PutAt, PastCopy, Steps
<1>5. ASSUME NEW c \in Calls, PutRename(c) PROVE LocalInv'
  <2>1. CASE PutFails(c)
    BY <2>1, PutFailsInv, Zenon
  <2>2. CASE /\ file' = [file EXCEPT ![put[c].key] = [body |-> put[c].body, chunks |-> temp[c]]]
             /\ temp' = [temp EXCEPT ![c] = -1]
             /\ GoPut(c, "done")
    <3>1. put[c].key \in Keys /\ put[c].body \in Bodies /\ temp[c] = Chunks
      BY <1>5, Zenon DEF PutRename, PutAt, LocalInv, LocalTypeOK, PastCopy
    <3>2. put' = [put EXCEPT ![c].at = "done"]
      BY <2>2, Zenon DEF GoPut
    <3>3. LocalTypeOK'
      BY <2>2, <3>1, <3>2, LocalAssumption DEF LocalInv, LocalTypeOK, Steps
    <3>4. \A d \in Calls : put'[d].at \in PastCopy => temp'[d] = Chunks
      BY <2>2, <3>2, Zenon DEF LocalInv, LocalTypeOK, PastCopy
    <3>5. \A k \in Keys : file'[k].body # Absent => file'[k].chunks = Chunks
      BY <2>2, <3>1, Zenon DEF LocalInv, LocalTypeOK
    <3> QED BY <3>3, <3>4, <3>5, Zenon DEF LocalInv
  <2> QED BY <1>5, <2>1, <2>2, Zenon DEF PutRename
<1>6. ASSUME NEW c \in Calls, PutDies(c) PROVE LocalInv'
  BY <1>6, MoveInv, Zenon DEF PutDies, PastCopy, Steps, LocalInv, LocalTypeOK
<1>7. ASSUME NEW k \in Keys, LocalDelete(k) PROVE LocalInv'
  <2>1. file' = [file EXCEPT ![k] = NoFile] /\ temp' = temp /\ put' = put
    BY <1>7, Zenon DEF LocalDelete
  <2>2. LocalTypeOK'
    BY <2>1, LocalAssumption DEF LocalInv, LocalTypeOK, NoFile
  <2> QED BY <2>1, <2>2, Zenon DEF LocalInv, LocalTypeOK, NoFile
<1>8. CASE UNCHANGED localVars
  BY <1>8, Zenon DEF localVars, LocalInv, LocalTypeOK
<1> QED BY <1>1, <1>2, <1>3, <1>4, <1>5, <1>6, <1>7, <1>8, Zenon DEF LocalNext, LocalPut

-----------------------------------------------------------------------------
(* The value of the refinement mapping. *)
Shown == [k \in Keys |-> Contents(k)]

(* An empty directory stores nothing. *)
LEMMA StoreInit == LocalInit => Store!StorageInit
BY DEF LocalInit, Store!StorageInit, Contents, NoFile

(* A step that leaves the keys' paths alone leaves what Open returns. *)
LEMMA SameFiles == ASSUME UNCHANGED file PROVE Shown' = Shown
BY Zenon DEF Shown, Contents

(* Every step is a Put, a Delete or a stutter of the abstract store. *)
LEMMA StoreStep == LocalInv /\ [LocalNext]_localVars => [Store!StorageNext]_Shown
<1> SUFFICES ASSUME LocalInv, [LocalNext]_localVars PROVE [Store!StorageNext]_Shown
  BY Zenon
<1>1. ASSUME NEW c \in Calls, PutRename(c), ~UNCHANGED file PROVE Store!StorageNext
  <2>1. file' = [file EXCEPT ![put[c].key] = [body |-> put[c].body, chunks |-> temp[c]]]
    BY <1>1, Zenon DEF PutRename, PutFails
  <2>2. put[c].key \in Keys /\ put[c].body \in Bodies /\ temp[c] = Chunks
    BY <1>1, Zenon DEF PutRename, PutAt, LocalInv, LocalTypeOK, PastCopy
  <2>3. Shown' = [Shown EXCEPT ![put[c].key] = put[c].body]
    BY <2>1, <2>2, LocalAssumption, Zenon DEF Shown, Contents, LocalInv, LocalTypeOK
  <2>4. Store!PutBody(put[c].key, put[c].body)
    BY <2>3, Zenon DEF Store!PutBody, Shown
  <2> QED BY <2>2, <2>4, Zenon DEF Store!StorageNext
<1>2. ASSUME NEW k \in Keys, LocalDelete(k) PROVE Store!StorageNext
  <2>1. Shown' = [Shown EXCEPT ![k] = Absent]
    BY <1>2, Zenon DEF LocalDelete, Shown, Contents, NoFile, LocalInv, LocalTypeOK
  <2>2. Store!DeleteKey(k)
    BY <2>1, Zenon DEF Store!DeleteKey, Shown
  <2> QED BY <2>2, Zenon DEF Store!StorageNext
<1>3. \/ UNCHANGED file
      \/ \E c \in Calls : PutRename(c)
      \/ \E k \in Keys : LocalDelete(k)
  BY Zenon DEF LocalNext, LocalPut, PutStart, PutCopy, PutSync, PutClose, PutDies, PutFails, localVars
<1> QED BY <1>1, <1>2, <1>3, SameFiles, Zenon

(* The local store is a Storage, whatever its calls, keys and chunks: a    *)
(* crash or an error at any system call of Put leaves each key with a      *)
(* whole body or with none.                                                *)
THEOREM LocalImplementsStorage == LocalSpec => LocalIsStorage
<1>1. LocalInit => LocalInv
  BY LocalInvInit, Zenon
<1>2. LocalInv /\ [LocalNext]_localVars => LocalInv'
  BY LocalInvStep, Zenon
<1>3. LocalInit => Store!StorageInit
  BY StoreInit, Zenon
<1>4. LocalInv /\ [LocalNext]_localVars => [Store!StorageNext]_([k \in Keys |-> Contents(k)])
  BY StoreStep, Zenon DEF Shown
<1> QED BY <1>1, <1>2, <1>3, <1>4, PTL DEF LocalSpec, LocalIsStorage, Store!StorageSpec

-----------------------------------------------------------------------------
(* CircuitBreaker, for any number of callers and any threshold.            *)

IInv == TypeOK /\ HalfOpenHasProbe /\ ClosedBelowThreshold

(* Every critical section of Call and Reset, and every callback, keeps the *)
(* invariant.                                                              *)
LEMMA BreakerStep == IInv /\ [Next]_vars => IInv'
<1> SUFFICES ASSUME IInv, [Next]_vars
             PROVE  IInv'
  BY Zenon
<1> USE BreakerAssumption
        DEF IInv, TypeOK, HalfOpenHasProbe, ClosedBelowThreshold, Probing, CircuitState
<1>1. ASSUME NEW c \in Callers, Admit(c)
      PROVE  IInv'
  BY <1>1, Zenon DEF Admit, Goto, breakerVars
<1>2. ASSUME NEW c \in Callers, AdmitProbe(c)
      PROVE  IInv'
  BY <1>2, Zenon DEF AdmitProbe, ProbeAdmitted, SetState, Goto
<1>3. ASSUME NEW c \in Callers, FireStateChange(c)
      PROVE  IInv'
  BY <1>3, Zenon DEF FireStateChange, Goto, breakerVars
<1>4. ASSUME NEW c \in Callers, Finish(c)
      PROVE  IInv'
  <2>1. state' # "half-open" /\ inFlightProbe' \in BOOLEAN
    BY <1>4, Zenon DEF Finish, RecordSuccess, RecordFailure, SetState
  <2>2. /\ state' \in CircuitState /\ failureCount' \in 0..MaxFailures
        /\ state' = "closed" => failureCount' < MaxFailures
    BY <1>4 DEF Finish, RecordSuccess, RecordFailure, SetState
  <2>3. /\ pc' \in [Callers -> {"idle", "call", "announce", "probe", "report"}]
        /\ news' \in [Callers -> CircuitState]
    BY <1>4, Zenon DEF Finish, RecordSuccess, RecordFailure, SetState, Goto
  <2>4. waited' \in BOOLEAN /\ UNCHANGED <<gauge, healthy>>
    BY <1>4, Zenon DEF Finish, RecordSuccess, RecordFailure
  <2> QED  BY <2>1, <2>2, <2>3, <2>4, Zenon
<1>5. ASSUME NEW c \in Callers, Reset(c)
      PROVE  IInv'
  <2>1. /\ state' = "closed" /\ failureCount' \in 0..MaxFailures
        /\ failureCount' < MaxFailures
    BY <1>5 DEF Reset, SetState
  <2>2. /\ pc' \in [Callers -> {"idle", "call", "announce", "probe", "report"}]
        /\ news' \in [Callers -> CircuitState]
    BY <1>5, Zenon DEF Reset, SetState, Goto
  <2> QED  BY <1>5, <2>1, <2>2, Zenon DEF Reset
<1>6. CASE Elapse
  BY <1>6, Zenon DEF Elapse
<1>7. CASE Service
  BY <1>7, Zenon DEF Service, breakerVars
<1>8. CASE UNCHANGED vars
  BY <1>8, Zenon DEF vars, breakerVars
<1> HIDE BreakerAssumption DEF IInv, TypeOK, HalfOpenHasProbe, ClosedBelowThreshold,
         Probing, CircuitState
<1> QED  BY <1>1, <1>2, <1>3, <1>4, <1>5, <1>6, <1>7, <1>8, Zenon DEF Next

(* The invariant holds of every breaker (NewCircuitBreaker, Call, Reset).  *)
LEMMA BreakerInvariant == Spec => []IInv
<1>1. ASSUME Init
      PROVE  IInv
  <2>1. inFlightProbe \in BOOLEAN /\ waited \in BOOLEAN /\ healthy \in BOOLEAN
    BY <1>1, Zenon DEF Init
  <2>2. /\ failureCount = 0 /\ 0 \in 0..MaxFailures /\ 0 < MaxFailures
    BY <1>1, BreakerAssumption DEF Init
  <2>3. /\ state = "closed" /\ gauge = "closed"
        /\ pc \in [Callers -> {"idle", "call", "announce", "probe", "report"}]
        /\ news \in [Callers -> CircuitState]
    BY <1>1, Zenon DEF Init, CircuitState
  <2> QED  BY <2>1, <2>2, <2>3, Zenon
           DEF IInv, TypeOK, HalfOpenHasProbe, ClosedBelowThreshold, CircuitState
<1> QED  BY <1>1, BreakerStep, PTL DEF Spec

(* A half-open circuit always has a probe under way that will decide it:   *)
(* the breaker never sheds calls with nobody left to close it (Call).      *)
THEOREM HalfOpenIsProbed == Spec => []HalfOpenHasProbe
<1>1. IInv => HalfOpenHasProbe
  BY Zenon DEF IInv
<1> QED  BY <1>1, BreakerInvariant, PTL

(* A closed circuit is below its threshold (setState, recordSuccess).      *)
THEOREM ClosedIsBelowThreshold == Spec => []ClosedBelowThreshold
<1>1. IInv => ClosedBelowThreshold
  BY Zenon DEF IInv
<1> QED  BY <1>1, BreakerInvariant, PTL
=============================================================================
