------------------------------- MODULE ReadApi -------------------------------
(***************************************************************************)
(* The read side of the HTTP API (morf/router/routers.go): the job result, *)
(* its exports and comparisons, the stored findings, and the probes; and   *)
(* the tools of the MCP server (morf/mcp/server.go), which answer a model. *)
(* Each handler reads one or two job hashes, rows or a file and answers;   *)
(* what it may hand out is a finding in one of the forms of Forms.  The    *)
(* probe of the external tools is cached, and several requests may run it  *)
(* at once.                                                                *)
(***************************************************************************)
EXTENDS Integers

CONSTANTS ReadJobs,      \* job IDs
          Values,        \* secret values a package may hold
          Probes,        \* concurrent /health requests
          ToolsTTL,      \* toolsHealthTTL, in ticks
          CheckTime,     \* the longest run of the four tool checks, in ticks
          ReadHorizon    \* ticks explored

ASSUME ReadAssumption == {ToolsTTL, CheckTime, ReadHorizon} \subseteq Nat

VARIABLES jobs,       \* job hashes
          rows,       \* findings of secret_findings, in their stored form
          config,     \* the environment of the process
          compare,    \* a /compare request between its two GetJob calls
          reply,      \* the last answer of a read
          tools,      \* do the external tools work?
          lastGood,   \* the last tick at which they did; -1: never
          toolsCache, \* toolsHealthCached, toolsHealthAt
          probe,      \* /health requests
          ticks

readVars   == <<jobs, rows, config, compare, reply>>
healthVars == <<tools, lastGood, toolsCache, probe, ticks>>

Forms   == {"raw", "enc", "masked"}
Shown   == Values \X Forms
Results == [is : {"none", "broken"}, has : {{}}]
             \cup [is : {"findings"},
                   has : {{<<v, f>> : v \in V} : V \in SUBSET Values, f \in Forms}]
NoResult  == [is |-> "none", has |-> {}]
NoReply   == [to |-> "nobody", code |-> 0, body |-> {}]
Formats   == {"sarif", "json", "csv", "pdf", "cyclonedx", "other"}
NoCompare == [pc |-> "idle", first |-> NoResult]
NoProbe   == [pc |-> "idle", ok |-> FALSE, since |-> 0, age |-> 0]
NoHealth  == [is |-> "empty", ok |-> FALSE, at |-> 0]

ReadTypeOK ==
  /\ \A j \in ReadJobs : /\ jobs[j].status \in {"gone", "processing", "completed", "failed"}
                         /\ jobs[j].result \in Results
  /\ rows \subseteq Shown /\ reply.body \subseteq Shown
  /\ config \in [mask : BOOLEAN, key : BOOLEAN]
  /\ toolsCache.at \in 0..ReadHorizon /\ ticks \in 0..ReadHorizon

ReadInit ==
  /\ jobs = [j \in ReadJobs |-> [status |-> "processing", result |-> NoResult]]
  /\ rows = {} /\ config = [mask |-> TRUE, key |-> FALSE]
  /\ compare = NoCompare /\ reply = NoReply
  /\ tools = TRUE /\ lastGood = 0 /\ toolsCache = NoHealth
  /\ probe = [p \in Probes |-> NoProbe] /\ ticks = 0

-----------------------------------------------------------------------------
(* ProtectAtRest: the ciphertext when a key is set, else a masked preview. *)
ProtectAtRest(v) == <<v, IF config.key THEN "enc" ELSE "masked">>

(* A scan of the package with the values V ends: its findings are stored   *)
(* by buildSecretFinding, or the insert fails, and published raw; or the   *)
(* package is a duplicate, answered from the rows.                         *)
JobEnds(j) ==
  /\ jobs[j].status = "processing"
  /\ \/ \E V \in SUBSET Values :
          /\ rows' \in {rows, IF rows = {} THEN {ProtectAtRest(v) : v \in V} ELSE rows}
          /\ \E has \in {{<<v, "raw">> : v \in V}} \cup ({rows} \ {{}}) :
               jobs' = [jobs EXCEPT ![j] = [status |-> "completed",
                                            result |-> [is |-> "findings", has |-> has]]]
     \/ /\ \E end \in {[status |-> "failed", result |-> NoResult],
                       [status |-> "completed", result |-> NoResult],
                       [status |-> "completed", result |-> [is |-> "broken", has |-> {}]]} :
             jobs' = [jobs EXCEPT ![j] = end]
        /\ UNCHANGED rows
  /\ reply' = NoReply /\ UNCHANGED <<config, compare, healthVars>>

JobExpires(j) ==
  /\ jobs[j].status \in {"completed", "failed"}
  /\ jobs' = [jobs EXCEPT ![j] = [status |-> "gone", result |-> NoResult]]
  /\ reply' = NoReply /\ UNCHANGED <<rows, config, compare, healthVars>>

(* The process restarts with MORF_MASK_RESULTS and the key set otherwise.  *)
Reconfigure ==
  /\ config' \in [mask : BOOLEAN, key : BOOLEAN]
  /\ compare' = NoCompare /\ reply' = NoReply
  /\ toolsCache' = NoHealth /\ probe' = [p \in Probes |-> NoProbe]
  /\ UNCHANGED <<jobs, rows, tools, lastGood, ticks>>

(* maskSecret over the findings of an envelope. *)
MaskAll(has) == {<<s[1], "masked">> : s \in has}

(* MaskResultJSON: nothing of what does not parse. *)
Mask(result) ==
  IF result.is = "findings" THEN [result EXCEPT !.has = MaskAll(@)] ELSE NoResult

Give(code, body) == reply' = [to |-> "client", code |-> code, body |-> body]

(* GET /results/:jobID. *)
GetResults(j) ==
  /\ LET job == jobs[j]
         out == IF config.mask THEN Mask(job.result) ELSE job.result
     IN CASE job.status = "gone"       -> Give(404, {})
          [] job.status = "processing" -> Give(202, {})
          [] job.status = "failed"     -> Give(500, {})
          [] OTHER                     -> Give(200, out.has)
  /\ UNCHANGED <<jobs, rows, config, compare, healthVars>>

(* The exporters, by the findings whose value they write: the JSON is the  *)
(* envelope, a CSV line has the value, the PDF and the CycloneDX document  *)
(* do not.                                                                 *)
exportJSON(result)      == result.has
exportCSV(result)       == result.has
exportPDF(result)       == {}
exportCycloneDX(result) == {}

ExportResult(result, format) ==
  IF result.is # "findings" \/ format = "other" THEN Give(500, {})
  ELSE Give(200, CASE format = "json" -> exportJSON(result)
                   [] format = "csv"  -> exportCSV(result)
                   [] format = "pdf"  -> exportPDF(result)
                   [] OTHER           -> exportCycloneDX(result))

(* SARIF is built from findings masked whatever the setting. *)
ExportSARIF(result) ==
  IF result.is # "findings" THEN Give(400, {}) ELSE Give(200, MaskAll(result.has))

(* The other formats export a masked copy, or nothing if masking fails. *)
MaskForExport(result) ==
  IF config.mask /\ result.is # "none" THEN Mask(result) ELSE result

(* GET /results/:jobID/export. *)
GetExport(j, format) ==
  /\ LET job == jobs[j] IN
     IF job.status = "gone" THEN Give(404, {})
     ELSE IF job.status # "completed" THEN Give(400, {})
     ELSE IF format = "sarif" THEN ExportSARIF(job.result)
     ELSE ExportResult(MaskForExport(job.result), format)
  /\ UNCHANGED <<jobs, rows, config, compare, healthVars>>

(* CompareScans, on the key of getSecretKey: value, file and line. *)
CompareScans(first, second) ==
  [added     |-> second \ first,
   removed   |-> first \ second,
   unchanged |-> first \cap second]

(* Mutant: the secrets of both scans keep their values. *)
MaskComparisonTwo(diff) ==
  MaskAll(diff.added) \cup MaskAll(diff.removed) \cup diff.unchanged

(* MaskComparisonJSON: the three lists. *)
MaskComparison(diff) ==
  MaskAll(diff.added) \cup MaskAll(diff.removed) \cup MaskAll(diff.unchanged)

(* GET /compare/:jobID1/:jobID2: one GetJob, then the other and the answer. *)
CompareFirst(j) ==
  /\ compare.pc = "idle"
  /\ IF jobs[j].status = "gone" THEN Give(404, {}) /\ UNCHANGED compare
     ELSE compare' = [pc |-> jobs[j].status, first |-> jobs[j].result] /\ reply' = NoReply
  /\ UNCHANGED <<jobs, rows, config, healthVars>>

CompareSecond(j) ==
  /\ compare.pc # "idle" /\ compare' = NoCompare
  /\ LET second == jobs[j].result
         diff   == CompareScans(compare.first.has, second.has)
     IN IF jobs[j].status = "gone" THEN Give(404, {})
        ELSE IF {compare.pc, jobs[j].status} # {"completed"} THEN Give(400, {})
        ELSE IF {compare.first.is, second.is} # {"findings"} THEN Give(500, {})
        ELSE Give(200, IF config.mask THEN MaskComparison(diff)
                         ELSE diff.added \cup diff.removed \cup diff.unchanged)
  /\ UNCHANGED <<jobs, rows, config, healthVars>>

(* GetSecretsPage: some rows, in order; an error of the query, or of       *)
(* another page, shows none.                                               *)
querySecrets == SUBSET rows

(* convertSecretToOldFormat copies the stored form and decrypts nothing. *)
convertSecretToOldFormat(page) == page

(* GET /secrets. *)
GetSecrets ==
  /\ \/ \E page \in querySecrets : Give(200, convertSecretToOldFormat(page))
     \/ Give(503, {})        \* checkDatabaseStatus: disabled, nil, or no answer
  /\ UNCHANGED <<jobs, rows, config, compare, healthVars>>

-----------------------------------------------------------------------------
(* The MCP tools.  A reply to a model is masked whatever the setting. *)
Tell(ok, body) == reply' = [to |-> "model", code |-> IF ok THEN 0 ELSE 1, body |-> body]

(* scan_file: renderFindings over a scan of a package with the values V. *)
renderFindings(V) == MaskAll({<<v, "raw">> : v \in V})

ScanFileTool ==
  /\ \/ \E V \in SUBSET Values : Tell(TRUE, renderFindings(V))
     \/ Tell(FALSE, {})                    \* not a package, or the scan failed
  /\ UNCHANGED <<jobs, rows, config, compare, healthVars>>

(* verify_secret takes a value and answers with the status alone. *)
VerifySecretTool ==
  /\ \E ok \in BOOLEAN : Tell(ok, {})
  /\ UNCHANGED <<jobs, rows, config, compare, healthVars>>

(* get_results on a file an earlier scan wrote, with or without            *)
(* --reveal-secrets: the JSON envelope is masked again, of the SARIF only  *)
(* rules, places and levels are told, of anything else nothing.            *)
handleJSONResults(file) ==
  IF Mask(file).is = "findings" THEN Tell(TRUE, Mask(file).has) ELSE Tell(FALSE, {})

handleSARIFResults(file) == Tell(file.is = "findings", {})

GetResultsTool ==
  /\ \E file \in Results, format \in {"json", "sarif", "other"} :
       CASE file.is = "none" \/ format = "other" -> Tell(FALSE, {})
         [] format = "json"                      -> handleJSONResults(file)
         [] OTHER                                -> handleSARIFResults(file)
  /\ UNCHANGED <<jobs, rows, config, compare, healthVars>>

ToolStep == ScanFileTool \/ VerifySecretTool \/ GetResultsTool

ReadStep ==
  \/ \E j \in ReadJobs : \/ JobEnds(j) \/ JobExpires(j) \/ GetResults(j)
                         \/ \E format \in Formats : GetExport(j, format)
                         \/ CompareFirst(j) \/ CompareSecond(j)
  \/ Reconfigure \/ GetSecrets \/ ToolStep

-----------------------------------------------------------------------------
(* A tool breaks, or is repaired. *)
ToolsChange ==
  /\ tools' = ~ tools /\ lastGood' = ticks
  /\ UNCHANGED <<readVars, toolsCache, probe, ticks>>

(* Time passes; the four checks take at most CheckTime together. *)
ReadTick ==
  /\ ticks < ReadHorizon
  /\ \A p \in Probes : probe[p].pc \in {"checking", "checked"} => ticks - probe[p].since < CheckTime
  /\ ticks' = ticks + 1 /\ lastGood' = IF tools THEN ticks + 1 ELSE lastGood
  /\ probe' = [p \in Probes |-> IF probe[p].pc = "answered" THEN NoProbe ELSE probe[p]]
  /\ UNCHANGED <<readVars, tools, toolsCache>>

(* The answer of /health: degraded when the database, Redis or a tool is. *)
Health(p, toolsOk) ==
  \E others \in BOOLEAN :
    probe' = [probe EXCEPT ![p] = [pc |-> "answered", ok |-> toolsOk /\ others, since |-> 0,
                                   age |-> IF toolsOk /\ others THEN ticks - lastGood ELSE 0]]

(* Mutant: a hit renews the entry. *)
ToolsHitSliding(p) ==
  /\ probe[p].pc \in {"idle", "answered"}
  /\ toolsCache.is = "full" /\ ticks - toolsCache.at < ToolsTTL
  /\ Health(p, toolsCache.ok) /\ toolsCache' = [toolsCache EXCEPT !.at = ticks]
  /\ UNCHANGED <<readVars, tools, lastGood, ticks>>

(* checkExternalToolsHealth: under the lock, a fresh entry answers. *)
ToolsHit(p) ==
  /\ probe[p].pc \in {"idle", "answered"}
  /\ toolsCache.is = "full" /\ ticks - toolsCache.at < ToolsTTL
  /\ Health(p, toolsCache.ok) /\ UNCHANGED <<readVars, tools, lastGood, toolsCache, ticks>>

(* Otherwise the lock is released and the tools are run. *)
ToolsMiss(p) ==
  /\ probe[p].pc \in {"idle", "answered"}
  /\ toolsCache.is = "full" => ticks - toolsCache.at >= ToolsTTL
  /\ probe' = [probe EXCEPT ![p] = [NoProbe EXCEPT !.pc = "checking", !.since = ticks]]
  /\ UNCHANGED <<readVars, tools, lastGood, toolsCache, ticks>>

ToolsCheck(p) ==
  /\ probe[p].pc = "checking"
  /\ probe' = [probe EXCEPT ![p].pc = "checked", ![p].ok = tools]
  /\ UNCHANGED <<readVars, tools, lastGood, toolsCache, ticks>>

(* The entry is stamped when the checks are over; the last writer wins. *)
ToolsStore(p) ==
  /\ probe[p].pc = "checked"
  /\ toolsCache' = [is |-> "full", ok |-> probe[p].ok, at |-> ticks]
  /\ Health(p, probe[p].ok) /\ UNCHANGED <<readVars, tools, lastGood, ticks>>

HealthStep == \/ ToolsChange \/ ReadTick
              \/ \E p \in Probes : ToolsHit(p) \/ ToolsMiss(p) \/ ToolsCheck(p) \/ ToolsStore(p)

ReadNext == ReadStep \/ HealthStep

ReadSpec == ReadInit /\ [][ReadNext]_<<readVars, healthVars>>

-----------------------------------------------------------------------------
(* No read hands out a secret value unless MORF_MASK_RESULTS=false: not    *)
(* results, exports, comparisons or stored rows (the SEC comments of the   *)
(* handlers), whatever the job published and whenever its hash was read.   *)
(* A model is never told one: get_results and scan_file mask even what     *)
(* --reveal-secrets left in a file.                                        *)
RawNeedsOptOut ==
  config.mask \/ reply.to = "model" => \A s \in reply.body : s[2] # "raw"

(* A pod that answers /health as healthy had working tools at most one TTL *)
(* and one check ago (checkExternalToolsHealth), however many probes ran   *)
(* the checks at once.                                                     *)
ToolsHealthFresh ==
  \A p \in Probes : probe[p].ok /\ probe[p].pc = "answered" => probe[p].age <= ToolsTTL + CheckTime
=============================================================================
