------------------------------- MODULE CIGate --------------------------------
(***************************************************************************)
(* The CI commands (morf/cmd/scan.go, morf/cmd/gate.go, morf/gate/gate.go):*)
(* morf scan, morf gate, morf gate --update-baseline and morf gate allow,  *)
(* run by several pipelines that share one baseline file.  A finding is    *)
(* its fingerprint with what the scan made of it; all are of one type.     *)
(***************************************************************************)
EXTENDS Integers, FiniteSets

CONSTANTS Pipelines,     \* the invocations
          Fingerprints   \* crypto.Fingerprint of the secrets

VARIABLES baselineFile,  \* the file: "missing", "torn" or "whole", and its baseline
          pipeline,      \* each invocation; stale once another saves after it loaded
          verdict,       \* what a gate or scan has just decided
          everAccepted,  \* fingerprints an operator has ever accepted
          latest         \* the last baseline written whole, the empty one at first

gateVars == <<baselineFile, pipeline, verdict, everAccepted, latest>>

NewBaseline == [known |-> {}, allowed |-> {}, allowType |-> FALSE]
Baselines == [known : SUBSET Fingerprints, allowed : SUBSET Fingerprints, allowType : BOOLEAN]

(* What a scan says of each secret it finds: verified active, of tier keep. *)
Reports == UNION {[fps -> [active : BOOLEAN, keep : BOOLEAN]] : fps \in SUBSET Fingerprints}

exitOK          == 0
exitOperational == 1
exitPolicy      == 4

NoPipeline == [pc |-> "idle", cmd |-> "none", base |-> NewBaseline, stale |-> FALSE]
NoVerdict  == [code |-> exitOperational, policy |-> "none", report |-> << >>]

GateTypeOK ==
  /\ baselineFile \in [is : {"missing", "torn", "whole"}, base : Baselines]
  /\ \A p \in Pipelines : /\ pipeline[p].pc \in {"idle", "load", "judge", "truncate", "write"}
                          /\ pipeline[p].base \in Baselines
  /\ verdict.code \in {exitOK, exitOperational, exitPolicy}
  /\ everAccepted \subseteq Fingerprints /\ latest \in Baselines

GateInit ==
  /\ baselineFile = [is |-> "missing", base |-> NewBaseline]
  /\ pipeline = [p \in Pipelines |-> NoPipeline]
  /\ verdict = NoVerdict /\ everAccepted = {} /\ latest = NewBaseline

Exit(p) == pipeline' = [pipeline EXCEPT ![p] = NoPipeline]

-----------------------------------------------------------------------------
(* Baseline.isKnown, on a set of fingerprints. *)
IsKnown(base, fp) == fp \in base.known \/ fp \in base.allowed \/ base.allowType

NewFindings(report, base) == {fp \in DOMAIN report : ~IsKnown(base, fp)}

(* scanFailOn: the flag's values, the empty one among them; "bad" is any   *)
(* other, which is refused.                                                *)
Flags == {"", "verified", "any", "keep", "none", "bad"}
Policy(flag) == IF flag = "" THEN "verified" ELSE flag

(* Mutant: the default policy is the one that never fails. *)
FailedByDefault(report, base, policy) ==
  LET new == NewFindings(report, base)
  IN  CASE policy = "any"  -> new # {}
        [] policy = "keep" -> \E fp \in new : report[fp].keep
        [] OTHER           -> FALSE

(* gate.Evaluate. *)
Failed(report, base, policy) ==
  LET new == NewFindings(report, base)
  IN  CASE policy = "any"  -> new # {}
        [] policy = "keep" -> \E fp \in new : report[fp].keep
        [] policy = "none" -> FALSE
        [] OTHER           -> \E fp \in new : report[fp].active

-----------------------------------------------------------------------------
(* A command is started.  scan and gate begin with runScanForFile, which   *)
(* may fail, as may the arguments of gate allow.                           *)
RunScanForFile(p, cmd) ==
  /\ pipeline[p].pc = "idle" /\ cmd \in {"scan", "gate", "update", "allow"}
  /\ pipeline' = [pipeline EXCEPT ![p].pc = IF cmd = "scan" THEN "judge" ELSE "load",
                                  ![p].cmd = cmd]
  /\ verdict' = NoVerdict /\ UNCHANGED <<baselineFile, everAccepted, latest>>

Loaded(p, base) == pipeline' = [pipeline EXCEPT ![p].pc = "judge", ![p].base = base]

(* Mutant: a baseline that does not parse counts as an empty one. *)
LoadBaselineLenient(p) ==
  /\ pipeline[p].pc = "load" /\ Loaded(p, baselineFile.base)
  /\ verdict' = NoVerdict /\ UNCHANGED <<baselineFile, everAccepted, latest>>

(* loadBaselineOrEmpty: a missing file is an empty baseline, one that does *)
(* not parse ends the command with exitOperational.                        *)
LoadBaselineOrEmpty(p) ==
  /\ pipeline[p].pc = "load"
  /\ IF baselineFile.is = "torn" THEN Exit(p) ELSE Loaded(p, baselineFile.base)
  /\ verdict' = NoVerdict /\ UNCHANGED <<baselineFile, everAccepted, latest>>

Judging(p, cmds) == pipeline[p].pc = "judge" /\ pipeline[p].cmd \in cmds

(* The exit code of a scan's findings; an unknown policy is an error. *)
Judge(p, report, flag) ==
  /\ verdict' = IF flag = "bad" THEN NoVerdict ELSE
       [code   |-> IF Failed(report, pipeline[p].base, Policy(flag)) THEN exitPolicy ELSE exitOK,
        policy |-> Policy(flag), report |-> report]
  /\ Exit(p) /\ UNCHANGED <<baselineFile, everAccepted, latest>>

(* evaluateAndRender: a plain scan is judged against the empty baseline,   *)
(* an SBOM is an inventory to which no policy applies.                     *)
EvaluateAndRender(p, report, flag) == Judging(p, {"scan"}) /\ Judge(p, report, flag)

RenderSBOM(p, report) ==
  /\ Judging(p, {"scan"}) /\ verdict' = [code |-> exitOK, policy |-> "none", report |-> report]
  /\ Exit(p) /\ UNCHANGED <<baselineFile, everAccepted, latest>>

EvaluateGate(p, report, flag) == Judging(p, {"gate"}) /\ Judge(p, report, flag)

(* --update-baseline saves the fingerprints of this scan, and only those. *)
BaselineFromScan(p, report) ==
  /\ Judging(p, {"update"})
  /\ pipeline' = [pipeline EXCEPT ![p].pc = "truncate",
                                  ![p].base = [NewBaseline EXCEPT !.known = DOMAIN report]]
  /\ verdict' = NoVerdict /\ UNCHANGED <<baselineFile, everAccepted, latest>>

RunGateAllow(p, more, type) ==
  /\ Judging(p, {"allow"}) /\ (more # {} \/ type)
  /\ pipeline' = [pipeline EXCEPT ![p].pc = "truncate", ![p].base.allowed = @ \cup more,
                                  ![p].base.allowType = @ \/ type]
  /\ verdict' = NoVerdict /\ UNCHANGED <<baselineFile, everAccepted, latest>>

(* Baseline.Save is os.WriteFile: the file is truncated, then written. *)
Truncate(p) ==
  /\ pipeline[p].pc = "truncate" /\ baselineFile' = [is |-> "torn", base |-> NewBaseline]
  /\ pipeline' = [pipeline EXCEPT ![p].pc = "write"]
  /\ verdict' = NoVerdict /\ UNCHANGED <<everAccepted, latest>>

Save(p) ==
  /\ pipeline[p].pc = "write"
  /\ LET base == pipeline[p].base
     IN  /\ baselineFile' = [is |-> "whole", base |-> base] /\ latest' = base
         /\ everAccepted' = everAccepted \cup {fp \in Fingerprints : IsKnown(base, fp)}
  /\ pipeline' = [q \in Pipelines |->
       IF q = p THEN NoPipeline
       ELSE [pipeline[q] EXCEPT !.stale = pipeline[q].pc \in {"judge", "truncate", "write"}]]
  /\ verdict' = NoVerdict

(* The command fails or is killed, in the middle of a save too. *)
PipelineDies(p) ==
  /\ pipeline[p].pc # "idle" /\ Exit(p)
  /\ verdict' = NoVerdict /\ UNCHANGED <<baselineFile, everAccepted, latest>>

GateNext ==
  \E p \in Pipelines :
    \/ \E cmd \in {"scan", "gate", "update", "allow"} : RunScanForFile(p, cmd)
    \/ LoadBaselineOrEmpty(p) \/ Truncate(p) \/ Save(p) \/ PipelineDies(p)
    \/ \E report \in Reports, flag \in Flags :
         EvaluateAndRender(p, report, flag) \/ EvaluateGate(p, report, flag)
    \/ \E report \in Reports : RenderSBOM(p, report) \/ BaselineFromScan(p, report)
    \/ \E more \in SUBSET Fingerprints, type \in BOOLEAN : RunGateAllow(p, more, type)

GateSpec == GateInit /\ [][GateNext]_gateVars

-----------------------------------------------------------------------------
(* A passing build ships no live secret nobody accepted: exit 0 under the  *)
(* default policy or "any" means every verified finding was accepted or    *)
(* allowed at some time, whatever other pipelines did to the file          *)
(* (isKnown, Evaluate).                                                    *)
LiveSecretsGate ==
  verdict.code = exitOK /\ verdict.policy \in {"verified", "any"} =>
    \A fp \in DOMAIN verdict.report : verdict.report[fp].active => fp \in everAccepted

(* morf gate allow only adds: unless another command saved in between, the *)
(* file it writes still accepts all the last complete file accepted.  A    *)
(* file caught half written, or left so by a crash, is an operational      *)
(* error and not an empty baseline (loadBaselineOrEmpty).                  *)
AllowKeepsBaseline ==
  \A p \in Pipelines :
    LET q == pipeline[p]
    IN  q.pc = "write" /\ q.cmd = "allow" /\ ~q.stale =>
          latest.known \subseteq q.base.known /\ latest.allowed \subseteq q.base.allowed
=============================================================================
