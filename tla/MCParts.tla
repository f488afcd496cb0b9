------------------------------ MODULE MCParts ------------------------------
(***************************************************************************)
(* The components that share no state with each other, in one specification*)
(* for TLC: a behaviour is a behaviour of the part Init chooses, and the   *)
(* variables of the other parts keep their initial values.                 *)
(***************************************************************************)
EXTENDS StatusIndex, LocalStore, KeyAuth, KeyUsage, ClientLimiter, Patterns,
        ScanPipeline, Database, CIGate, Detection, Verification, DeadLetters,
        ReadApi

VARIABLE part

Parts == {"index", "local", "keys", "usage", "limiter", "patterns", "scans",
          "database", "gate", "detection", "verification", "letters",
          "reads", "health"}

partVars == <<part, indexVars, localVars, keyVars, usageVars, limiterVars,
              patternVars, pipeVars, dbVars, gateVars, detectVars,
              verifyVars, letterVars, readVars, healthVars>>

(* One rule of each kind. *)
TwoKinds == <<"credential", "private key">>

PartInit ==
  /\ part \in Parts
  /\ IndexInit
  /\ LocalInit
  /\ KeyInit
  /\ UsageInit
  /\ LimiterInit
  /\ PatternInit
  /\ PipeInit
  /\ DBInit
  /\ GateInit
  /\ DetectInit
  /\ VerifyInit
  /\ LetterInit
  /\ ReadInit

(* Only the variables of one part change. *)
Only(name) ==
  /\ part = name /\ UNCHANGED part
  /\ name # "index" => UNCHANGED indexVars
  /\ name # "local" => UNCHANGED localVars
  /\ name # "keys" => UNCHANGED keyVars
  /\ name # "usage" => UNCHANGED usageVars
  /\ name # "limiter" => UNCHANGED limiterVars
  /\ name # "patterns" => UNCHANGED patternVars
  /\ name # "scans" => UNCHANGED pipeVars
  /\ name # "database" => UNCHANGED dbVars
  /\ name # "gate" => UNCHANGED gateVars
  /\ name # "detection" => UNCHANGED detectVars
  /\ name # "verification" => UNCHANGED verifyVars
  /\ name # "letters" => UNCHANGED letterVars
  /\ name # "reads" => UNCHANGED readVars
  /\ name # "health" => UNCHANGED healthVars

PartNext ==
  \/ Only("index") /\ IndexNext
  \/ Only("local") /\ LocalNext
  \/ Only("keys") /\ KeyNext
  \/ Only("usage") /\ UsageNext
  \/ Only("limiter") /\ LimiterNext
  \/ Only("patterns") /\ PatternNext
  \/ Only("scans") /\ PipeNext
  \/ Only("database") /\ DBNext
  \/ Only("gate") /\ GateNext
  \/ Only("detection") /\ DetectNext
  \/ Only("verification") /\ VerifyNext
  \/ Only("letters") /\ LetterNext
  \/ Only("reads") /\ ReadStep
  \/ Only("health") /\ HealthStep

PartSpec == PartInit /\ [][PartNext]_partVars
=============================================================================
