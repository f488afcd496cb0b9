---------------------------- MODULE ScanPipeline ----------------------------
(***************************************************************************)
(* What one execution of a scan does to its package (morf/worker/worker.go *)
(* scanAPK, scanIPA, resolveAPKPath; morf/apk/analysis.go, scanner.go,     *)
(* metadata.go; morf/ios/analysis.go, unpack.go; morf/utils/jobcontext.go) *)
(* Executions of one package run on one host.  A worker's workspace is     *)
(* named after its job, and the executions of workers here are of one job; *)
(* a command, a chat request or a tool call draws a fresh workspace.  The  *)
(* secrets of the package are where a pass has to look for them: smali and *)
(* res (text), bin (binary), strings (the string corpus of an .ipa).       *)
(***************************************************************************)
EXTENDS Naturals, FiniteSets

CONSTANTS Execs,       \* executions
          JobDir,      \* the workspace of the job
          Overlap,     \* may two executions run at the same time?
          NoRow        \* no database row

ASSUME OverlapAssumption == Overlap \in BOOLEAN /\ JobDir \notin Execs

VARIABLES tree,    \* what a workspace holds
          exec,    \* the executions
          row,     \* secrets_new by hash: the findings stored, or NoRow
          writing  \* InsertSecretsAsync calls in flight: [hash, found]

pipeVars == <<tree, exec, row, writing>>

Secrets  == {"smali", "res", "bin", "strings"}
Dirs         == Execs \cup {JobDir}
WorkerKinds  == {"apk", "ipa"}
RowKinds     == {"cli", "jira", "extract"}
ScanKinds    == {"scan apk", "scan ipa"}
IpaKinds     == {"ipa", "scan ipa"}
Hashes   == {"hash", "blank"}   \* ExtractHash, and "" when it or aapt fails
Finished == {"success", "duplicate", "error", "fatal", "crashed"}
Points   == {"idle", "begin", "open", "copy", "safe", "dup", "meta", "tools", "unpack",
             "corpus", "text", "binary", "persist", "report", "cleanup", "done"}
Tools    == {"source", "res"}

NoExec == [pc |-> "idle", kind |-> "apk", remote |-> FALSE, live |-> TRUE,
           tool |-> [t \in Tools |-> "idle"], hash |-> "hash",
           made |-> {}, found |-> {}, result |-> "none"]

PipeTypeOK ==
  /\ tree \in [Dirs -> SUBSET ({"dirs", "temp"} \cup Secrets)]
  /\ \A e \in Execs : /\ exec[e].pc \in Points /\ exec[e].hash \in Hashes
                      /\ exec[e].found \subseteq Secrets
                      /\ exec[e].result \in Finished \cup {"none"}
  /\ \A h \in Hashes : row[h] = NoRow \/ row[h] \subseteq Secrets
  /\ \A w \in writing : w.hash \in Hashes /\ w.found \subseteq Secrets

PipeInit ==
  /\ tree = [d \in Dirs |-> {}]
  /\ exec = [e \in Execs |-> NoExec]
  /\ row = [h \in Hashes |-> NoRow]
  /\ writing = {}

-----------------------------------------------------------------------------
IsWorker(e) == exec[e].kind \in WorkerKinds
Dir(e) == IF IsWorker(e) THEN JobDir ELSE e
In(e, points) == exec[e].pc \in points
To(e, point) == exec' = [exec EXCEPT ![e].pc = point]
Holds(e, thing) == thing \in tree[Dir(e)]
Write(e, things) == tree' = [tree EXCEPT ![Dir(e)] = @ \cup things]
Wipe(e, things) == tree' = [tree EXCEPT ![Dir(e)] = @ \ things]

(* What is left of an execution: its answer. *)
Over(e, result) ==
  LET answer == [NoExec EXCEPT !.pc = "done", !.kind = exec[e].kind, !.result = result]
  IN IF result \notin {"success", "duplicate"} THEN answer
     ELSE [answer EXCEPT !.made = exec[e].made, !.found = exec[e].found]

(* Every return runs the deferred CleanupWorkspace. *)
Return(e, result) == exec' = [exec EXCEPT ![e].pc = "cleanup", ![e].result = result]

(* Can the tools read the package?  A local artifact stays for the scan. *)
Readable(e) == exec[e].remote => Holds(e, "temp")

Start(e, kind, remote) ==
  /\ In(e, {"idle"})
  /\ Overlap \/ \A d \in Execs : exec[d].pc \in {"idle", "done"}
  /\ \A d \in Execs : exec[d].pc # "idle" => (kind \in IpaKinds) = (exec[d].kind \in IpaKinds)
  /\ exec' = [exec EXCEPT ![e] = [NoExec EXCEPT !.pc = "begin", !.kind = kind, !.remote = remote]]
  /\ UNCHANGED <<tree, row, writing>>

(* The worker takes the job; a command, the JIRA and the chat handlers and *)
(* the scan tools start.                                                   *)
scanAPK(e) == \E remote \in BOOLEAN : Start(e, "apk", remote)
scanIPA(e) == \E remote \in BOOLEAN : Start(e, "ipa", remote)
StartCliExtraction(e)  == Start(e, "cli", FALSE)
StartJiraProcess(e)    == Start(e, "jira", FALSE)
StartExtractProcess(e) == Start(e, "extract", FALSE)
StartScanTool(e)       == \E kind \in ScanKinds : Start(e, kind, FALSE)

(* POST /jira and POST /slackscan answer first: the scan runs in a         *)
(* detached goroutine, unless the request is refused, the database is off  *)
(* or the package cannot be downloaded.                                    *)
PostJira(e)      == StartJiraProcess(e)
PostSlackScan(e) == StartExtractProcess(e)

(* CreateWorkspace; a failure may leave some directories, and returns      *)
(* before the clean-up is deferred.  Then the first look at the context.   *)
CreateWorkspace(e) ==
  /\ In(e, {"begin"})
  /\ \/ /\ Write(e, {"dirs"})
        /\ \/ exec[e].live /\ To(e, CASE exec[e].kind = "scan apk" -> "tools"
                                       [] exec[e].kind = "scan ipa" -> "unpack"
                                       [] exec[e].kind \in RowKinds -> "dup"
                                       [] OTHER                     -> "open")
           \/ ~ exec[e].live /\ Return(e, "error")
     \/ /\ \/ Write(e, {"dirs"}) \/ UNCHANGED tree
        /\ exec' = [exec EXCEPT ![e] = Over(e, "error")]
  /\ UNCHANGED <<row, writing>>

(* The job is cancelled, or its deadline passes: worker contexts only. *)
StopScan(e) ==
  /\ IsWorker(e) /\ ~ In(e, {"idle", "cleanup", "done"}) /\ exec[e].live
  /\ exec' = [exec EXCEPT ![e].live = FALSE] /\ UNCHANGED <<tree, row, writing>>

-----------------------------------------------------------------------------
(* The disk has room for the expansion, or not; unknown counts as room. *)
checkDiskAdmission == BOOLEAN

(* resolveAPKPath, local backend or no storage key: the path of the        *)
(* artifact, if it is there and its expansion fits.                        *)
FindLocal(e) ==
  /\ In(e, {"open"}) /\ ~ exec[e].remote
  /\ \E present \in BOOLEAN, admitted \in checkDiskAdmission :
       IF present /\ admitted THEN To(e, "safe") ELSE Return(e, "error")
  /\ UNCHANGED <<tree, row, writing>>

(* Remote backend: Stat and the disk admission, Open, then CreateTemp in   *)
(* the workspace.                                                          *)
OpenObject(e) ==
  /\ In(e, {"open"}) /\ exec[e].remote
  /\ \/ exec[e].live /\ Holds(e, "dirs") /\ Write(e, {"temp"}) /\ To(e, "copy")
     \/ Return(e, "error") /\ UNCHANGED tree
  /\ UNCHANGED <<row, writing>>

(* The copy, os.Stat and the second admission; the deferred os.Remove runs *)
(* when resolveAPKPath returns, whatever it returns.                       *)
CopyObject(e) ==
  /\ In(e, {"copy"})
  /\ Wipe(e, {"temp"})
  /\ \/ exec[e].live /\ Holds(e, "temp") /\ To(e, "safe")
     \/ Return(e, "error")
  /\ UNCHANGED <<row, writing>>

(* CheckAPKSafe: an archive that cannot be opened fails like a bad one.    *)
(* The worker tags it non-retryable.                                       *)
CheckAPKSafe(e) ==
  /\ In(e, {"safe"})
  /\ \/ Readable(e) /\ To(e, CASE exec[e].kind \in WorkerKinds -> "dup"
                               [] OTHER -> "meta")
     \/ Return(e, IF IsWorker(e) THEN "fatal" ELSE "error")
  /\ UNCHANGED <<tree, row, writing>>

(* CheckDuplicateInDB: a row answers for the package; a failed query finds *)
(* nothing.                                                                *)
Known(e) == row[IF Readable(e) THEN "hash" ELSE "blank"]
Duplicate(e) == /\ Known(e) # NoRow
                /\ exec' = [exec EXCEPT ![e].pc = "cleanup", ![e].result = "duplicate",
                                        ![e].found = Known(e)]

(* A worker scans in full when the stored answer does not parse. *)
DuplicateAPK(e) ==
  /\ In(e, {"dup"}) /\ exec[e].kind = "apk"
  /\ Duplicate(e) \/ To(e, "meta")
  /\ UNCHANGED <<tree, row, writing>>

DuplicateIPA(e) ==
  /\ In(e, {"dup"}) /\ exec[e].kind = "ipa"
  /\ Duplicate(e) \/ To(e, "unpack")
  /\ UNCHANGED <<tree, row, writing>>

(* The command line logs the stored answer, and scans. *)
CliDuplicate(e) ==
  In(e, {"dup"}) /\ exec[e].kind = "cli" /\ To(e, "safe") /\ UNCHANGED <<tree, row, writing>>

(* JIRA is told what is stored. *)
JiraDuplicate(e) ==
  /\ In(e, {"dup"}) /\ exec[e].kind = "jira"
  /\ Duplicate(e) \/ (Known(e) = NoRow /\ To(e, "safe"))
  /\ UNCHANGED <<tree, row, writing>>

(* An extract answers with it; what does not parse is an error, not a scan. *)
handleExistingAPK(e) ==
  /\ In(e, {"dup"}) /\ exec[e].kind = "extract"
  /\ \/ Duplicate(e)
     \/ IF Known(e) = NoRow THEN To(e, "safe") ELSE Return(e, "error")
  /\ UNCHANGED <<tree, row, writing>>

(* The hash of the package data: of a cached record, or of what aapt says; *)
(* an aapt error leaves a blank package, hash and all.  aapt is not under  *)
(* the scan's context.                                                     *)
ExtractPackageData == {"hash", "blank"}

(* ExtractMetadataAndPackageData: both goroutines have ended.  Metadata    *)
(* errors fail the scan.                                                   *)
ExtractMetadata(e) ==
  /\ In(e, {"meta"})
  /\ \/ \E hash \in ExtractPackageData : exec' = [exec EXCEPT ![e].pc = "tools", ![e].hash = hash]
     \/ Return(e, "error")
  /\ UNCHANGED <<tree, row, writing>>

-----------------------------------------------------------------------------
Output(t) == IF t = "source" THEN {"smali", "bin"} ELSE {"res"}

(* StartSecScanE: the two apktool goroutines; -f empties the output first. *)
StartTool(e, t) ==
  /\ In(e, {"tools"}) /\ exec[e].tool[t] = "idle"
  /\ Wipe(e, Output(t))
  /\ exec' = [exec EXCEPT ![e].tool[t] = IF exec[e].live THEN "running" ELSE "failed"]
  /\ UNCHANGED <<row, writing>>

EndTool(e, t) ==
  /\ In(e, {"tools"}) /\ exec[e].tool[t] = "running"
  /\ \/ /\ exec[e].live /\ Readable(e) /\ Write(e, Output(t) \cup {"dirs"})
        /\ exec' = [exec EXCEPT ![e].tool[t] = "ok", ![e].made = @ \cup Output(t)]
     \/ exec' = [exec EXCEPT ![e].tool[t] = "failed"] /\ UNCHANGED tree
  /\ UNCHANGED <<row, writing>>

(* Mutant: only the error of the sources is looked at after wg.Wait. *)
JoinToolsHalf(e) ==
  /\ In(e, {"tools"}) /\ \A t \in Tools : exec[e].tool[t] \in {"ok", "failed"}
  /\ IF exec[e].tool["source"] = "ok" THEN To(e, "text") ELSE Return(e, "fatal")
  /\ UNCHANGED <<tree, row, writing>>

(* wg.Wait: one failed tool fails the scan for good. *)
JoinTools(e) ==
  /\ In(e, {"tools"}) /\ \A t \in Tools : exec[e].tool[t] \in {"ok", "failed"}
  /\ IF \A t \in Tools : exec[e].tool[t] = "ok" THEN To(e, "text") ELSE Return(e, "fatal")
  /\ UNCHANGED <<tree, row, writing>>

(* StartUnpack checks the archive again, then unzips and finds the bundle. *)
StartUnpack(e) ==
  /\ In(e, {"unpack"})
  /\ \/ Readable(e) /\ Write(e, {"dirs"}) /\ To(e, "corpus")
     \/ Return(e, "error") /\ UNCHANGED tree
  /\ UNCHANGED <<row, writing>>

(* The corpus is created anew, then fed; a part that cannot be read or     *)
(* appended is logged and left out.                                        *)
BuildCorpus(e) ==
  /\ In(e, {"corpus"})
  /\ \/ \E parts \in SUBSET {"strings"} :
          /\ tree' = [tree EXCEPT ![Dir(e)] = (@ \ {"strings"}) \cup parts \cup {"dirs"}]
          /\ exec' = [exec EXCEPT ![e].pc = "text", ![e].made = parts]
     \/ Return(e, "error") /\ UNCHANGED tree
  /\ UNCHANGED <<row, writing>>

(* scanCorpusWithOpts: roots that do not exist are left out, and ripgrep   *)
(* finds what is under the others; a timeout or an error fails the pass.   *)
ScanCorpusWithOpts(e, looked, next) ==
  /\ \/ /\ exec[e].live
        /\ exec' = [exec EXCEPT ![e].pc = next,
                                ![e].found = @ \cup (tree[Dir(e)] \cap looked)]
     \/ Return(e, "error")
  /\ UNCHANGED <<tree, row, writing>>

(* StartScanE: the text pass over sources and resources, then the binary   *)
(* pass; the corpus of an .ipa takes one pass.                             *)
ScanText(e) ==
  /\ In(e, {"text"})
  /\ IF exec[e].kind \in IpaKinds THEN ScanCorpusWithOpts(e, {"strings"}, "persist")
                                  ELSE ScanCorpusWithOpts(e, {"smali", "res"}, "binary")

ScanBinary(e) == In(e, {"binary"}) /\ ScanCorpusWithOpts(e, {"bin"}, "persist")

-----------------------------------------------------------------------------
(* insertSecretsSync: the first row of a hash stays, an error rolls back.  *)
InsertRow(hash, found) ==
  \/ row' = [row EXCEPT ![hash] = IF @ = NoRow THEN found ELSE @]
  \/ UNCHANGED row

(* The worker inserts before it answers. *)
PersistAPK(e) ==
  /\ In(e, {"persist"}) /\ exec[e].kind = "apk" /\ To(e, "report")
  /\ InsertRow(exec[e].hash, exec[e].found) /\ UNCHANGED <<tree, writing>>

(* scanIPA hashes the file only here. *)
PersistIPA(e) ==
  /\ In(e, {"persist"}) /\ exec[e].kind = "ipa" /\ To(e, "report")
  /\ InsertRow(IF Readable(e) THEN "hash" ELSE "blank", exec[e].found)
  /\ UNCHANGED <<tree, writing>>

(* The others leave the insert to a goroutine. *)
Later(e) == writing' = writing \cup {[hash |-> exec[e].hash, found |-> exec[e].found]}

(* is_db_req: a command may run without a database. *)
PersistCli(e) ==
  /\ In(e, {"persist"}) /\ exec[e].kind = "cli" /\ To(e, "report")
  /\ Later(e) \/ UNCHANGED writing
  /\ UNCHANGED <<tree, row>>

PersistJira(e) ==
  /\ In(e, {"persist"}) /\ exec[e].kind = "jira" /\ To(e, "report")
  /\ Later(e) /\ UNCHANGED <<tree, row>>

(* The goroutine pings the database first, and gives up if it is gone. *)
handleDatabaseOperations(e) ==
  /\ In(e, {"persist"}) /\ exec[e].kind = "extract" /\ To(e, "report")
  /\ Later(e) \/ UNCHANGED writing
  /\ UNCHANGED <<tree, row>>

InsertSecretsAsync ==
  \E w \in writing : /\ InsertRow(w.hash, w.found)
                     /\ writing' = writing \ {w} /\ UNCHANGED <<tree, exec>>

(* The answer is built; the SBOM and the platform findings are best effort. *)
Report(e, kinds) == /\ In(e, {"report"}) /\ exec[e].kind \in kinds
                    /\ Return(e, "success") /\ UNCHANGED <<tree, row, writing>>

ReportAPK(e)     == Report(e, {"apk"})
ReportIPA(e)     == Report(e, {"ipa"})
ReportCli(e)     == Report(e, {"cli"})
ReportJira(e)    == Report(e, {"jira"})
ReportExtract(e) == Report(e, {"extract"})

(* A scan tool stores nothing. *)
ReportScan(e) == /\ In(e, {"persist"}) /\ exec[e].kind \in ScanKinds
                 /\ Return(e, "success") /\ UNCHANGED <<tree, row, writing>>

(* Mutant: the workspace of a failed scan is kept. *)
CleanupOnSuccess(e) ==
  /\ In(e, {"cleanup"}) /\ exec' = [exec EXCEPT ![e] = Over(e, exec[e].result)]
  /\ IF exec[e].result \in {"error", "fatal"} THEN UNCHANGED tree
     ELSE tree' = [tree EXCEPT ![Dir(e)] = {}]
  /\ UNCHANGED <<row, writing>>

(* CleanupWorkspace: os.RemoveAll of the job's directory.  That the file   *)
(* system refuses the removal, which is only logged, is left out.          *)
CleanupWorkspace(e) ==
  /\ In(e, {"cleanup"}) /\ exec' = [exec EXCEPT ![e] = Over(e, exec[e].result)]
  /\ tree' = [tree EXCEPT ![Dir(e)] = {}]
  /\ UNCHANGED <<row, writing>>

(* The process dies: no clean-up.  main.go sweeps the workspaces when it   *)
(* starts again, before it takes a job; a failed removal is only logged.   *)
ScanCrash(e) ==
  /\ ~ In(e, {"idle", "done"})
  /\ exec' = [d \in Execs |-> IF exec[d].pc \in {"idle", "done"} THEN exec[d]
                              ELSE Over(d, "crashed")]
  /\ writing' = {} /\ UNCHANGED row
  /\ \/ UNCHANGED tree
     \/ tree' = [d \in Dirs |-> {}]

PipeNext ==
  \/ \E e \in Execs :
       \/ scanAPK(e) \/ scanIPA(e) \/ StartCliExtraction(e) \/ PostJira(e)
       \/ PostSlackScan(e) \/ StartScanTool(e)
       \/ CreateWorkspace(e) \/ StopScan(e) \/ FindLocal(e) \/ OpenObject(e) \/ CopyObject(e)
       \/ CheckAPKSafe(e) \/ DuplicateAPK(e) \/ DuplicateIPA(e) \/ CliDuplicate(e)
       \/ JiraDuplicate(e) \/ handleExistingAPK(e) \/ ExtractMetadata(e)
       \/ \E t \in Tools : StartTool(e, t) \/ EndTool(e, t)
       \/ JoinTools(e) \/ StartUnpack(e) \/ BuildCorpus(e) \/ ScanText(e) \/ ScanBinary(e)
       \/ PersistAPK(e) \/ PersistIPA(e) \/ PersistCli(e) \/ PersistJira(e)
       \/ handleDatabaseOperations(e)
       \/ ReportAPK(e) \/ ReportIPA(e) \/ ReportCli(e) \/ ReportJira(e) \/ ReportExtract(e)
       \/ ReportScan(e) \/ CleanupWorkspace(e) \/ ScanCrash(e)
  \/ InsertSecretsAsync

PipeSpec == PipeInit /\ [][PipeNext]_pipeVars

-----------------------------------------------------------------------------
(* A failed scan is never mistaken for "no secrets" (SCAN-1): a scan that  *)
(* ends with success, or answers from a stored row, reports everything the *)
(* package holds where a pass looks, even over the leftovers of a crash.   *)
FindingsComplete ==
  \A e \in Execs :
    /\ exec[e].result = "success" /\ exec[e].kind \in IpaKinds => exec[e].found = exec[e].made
    /\ exec[e].result \in {"success", "duplicate"} /\ exec[e].kind \notin IpaKinds
         => exec[e].found = {"smali", "res", "bin"}

(* Every return of a scan removes its workspace (the deferred              *)
(* CleanupWorkspace), whichever step failed; only a crash, or a workspace  *)
(* that could not be created, leaves one.                                  *)
WorkspaceReclaimed ==
  \A d \in Dirs :
    LET users == {e \in Execs : exec[e].pc # "idle" /\ Dir(e) = d}
    IN (\A e \in users : exec[e].pc = "done" /\ exec[e].result # "crashed")
         => tree[d] \subseteq {"dirs"}

(* The temp file of a remote package is there until the scan returns       *)
(* (the comments of resolveAPKPath and scanAPK).                           *)
TempOutlivesResolve ==
  \A e \in Execs : exec[e].remote /\ In(e, {"safe", "dup", "meta", "tools", "unpack"})
                     => Holds(e, "temp")
=============================================================================
