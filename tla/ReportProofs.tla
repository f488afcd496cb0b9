---------------------------- MODULE ReportProofs ----------------------------
(***************************************************************************)
(* The findings of a scan and what is made of them, for every value of     *)
(* the constants: how flagged lines become findings, the verdicts on them, *)
(* the gate of a build and what the readers of a result are shown.         *)
(***************************************************************************)
EXTENDS Detection, Verification, CIGate, ReadApi, SumLemmas

-----------------------------------------------------------------------------
(* Verification.  The verdict of every verifier is sound for what its      *)
(* provider may answer; a cached one is as old as its expiry says.         *)

(* No verifier calls a value dead that its provider accepts, or live one   *)
(* that it does not.                                                       *)
LEMMA VerdictSound ==
  ASSUME NEW provider \in defaultRegistry, NEW live \in BOOLEAN, NEW r \in Responses(provider, live)
  PROVE  /\ Verdict(provider, r) = "active" => live
         /\ Verdict(provider, r) = "inactive" => ~live
<1>1. CASE provider \notin {"datadog", "figma", "slack", "google", "cloudflare"}
  <2>1. Verdict(provider, r) = ByCode("401", r)
    BY <1>1, Zenon DEF defaultRegistry, Verdict, githubVerifier, gitlabVerifier, stripeVerifier,
      twilioVerifier, sendgridVerifier, npmVerifier, mailgunVerifier, digitalOceanVerifier,
      openaiVerifier, anthropicVerifier, pagerdutyVerifier, discordBotVerifier,
      telegramBotVerifier, mapboxVerifier, squareVerifier, herokuVerifier, notionVerifier,
      airtableVerifier
  <2>2. Responses(provider, live) = {"other"} \cup (IF live THEN {"200 ok", "403"} ELSE {"401"})
    BY <1>1, Zenon DEF Responses
  <2> QED  BY <2>1, <2>2, Zenon DEF ByCode
<1>2. CASE provider \in {"datadog", "figma"}
  <2>1. Verdict(provider, r) = ByCode("403", r)
    BY <1>2, Zenon DEF Verdict, datadogVerifier, figmaVerifier
  <2>2. Responses(provider, live) = {"other"} \cup (IF live THEN {"200 ok"} ELSE {"403"})
    BY <1>2, Zenon DEF Responses
  <2> QED  BY <2>1, <2>2, Zenon DEF ByCode
<1>3. CASE provider = "slack"
  BY <1>3, Zenon DEF Verdict, slackVerifier, Responses
<1>4. CASE provider = "google"
  BY <1>4, Zenon DEF Verdict, googleVerifier, Responses
<1>5. CASE provider = "cloudflare"
  BY <1>5, Zenon DEF Verdict, cloudflareVerifier, Responses
<1> QED  BY <1>1, <1>2, <1>3, <1>4, <1>5, Zenon


(* A verdict is one of three.                                              *)
LEMMA VerdictType ==
  ASSUME NEW provider \in defaultRegistry, NEW r PROVE Verdict(provider, r) \in Statuses
BY DEF defaultRegistry, Verdict, githubVerifier, gitlabVerifier, stripeVerifier,
      twilioVerifier, sendgridVerifier, npmVerifier, mailgunVerifier, digitalOceanVerifier,
      openaiVerifier, anthropicVerifier, pagerdutyVerifier, discordBotVerifier,
      telegramBotVerifier, mapboxVerifier, squareVerifier, herokuVerifier, notionVerifier,
      airtableVerifier, datadogVerifier, figmaVerifier, slackVerifier, googleVerifier,
      cloudflareVerifier, ByCode, Statuses

CheckStates == [pc : {"new", "asked", "done"}, provider : defaultRegistry \cup {"none"},
                asked : Nat, status : Statuses \cup {"unchecked"}]

VerifyShape ==
  /\ vclock \in Nat
  /\ InPlay \subseteq defaultRegistry /\ lastLive = [f \in InPlay |-> lastLive[f]]
  /\ \A f \in InPlay : lastLive[f] \in Nat /\ (lastLive[f] = VerifyHorizon \/ lastLive[f] <= vclock)
  /\ verdicts \in [status : {"none", "active", "inactive"}, expires : Nat]
  /\ check \in [Checks -> CheckStates]

(* Some provider accepted the value at t; some provider refuses it now.    *)
WasLive(t) == \E f \in InPlay : t <= lastLive[f]
IsDead == \E f \in InPlay : lastLive[f] < vclock

(* Before the rules are known nothing is said; a cached outcome was true   *)
(* when it was stored, and a request in flight is no older than its limit. *)
VerdictsTrue ==
  /\ InPlay = {} => verdicts.status = "none" /\ \A c \in Checks : check[c].pc = "new"
  /\ verdicts.expires <= vclock + VerdictTTL
  /\ verdicts.status = "active" => WasLive(verdicts.expires - VerdictTTL - RequestTime)
  /\ verdicts.status = "inactive" => IsDead
  /\ \A c \in Checks : check[c].pc = "asked" =>
       /\ check[c].provider \in InPlay
       /\ check[c].asked <= vclock /\ vclock <= check[c].asked + RequestTime
  /\ \A c \in Checks : check[c].pc = "done" =>
       /\ check[c].status = "active" => WasLive(vclock - VerdictTTL - RequestTime)
       /\ check[c].status = "inactive" => IsDead

PairingTrue ==
  /\ pairing.status = "active" => pairing.right # 0
  /\ pairing.status = "inactive" => pairing.right = 0

VerifyInv == VerifyShape /\ VerdictsTrue /\ PairingTrue

(* One finding's check changes.                                            *)
LEMMA OneCheck ==
  ASSUME VerifyShape, NEW c \in Checks, NEW d \in CheckStates, check' = [check EXCEPT ![c] = d]
  PROVE  /\ check' \in [Checks -> CheckStates] /\ check'[c] = d
         /\ \A e \in Checks : e # c => check'[e] = check[e]
BY Zenon DEF VerifyShape

(* The record of a check that ended (verifyWithRegistry).                  *)
LEMMA DoneType ==
  ASSUME NEW status \in Statuses
  PROVE  Done(status) \in CheckStates /\ Done(status).pc = "done" /\ Done(status).status = status
<1>1. NewCheck \in CheckStates
  BY Zenon DEF NewCheck, CheckStates
<1> QED  BY <1>1, Zenon DEF Done, CheckStates

(* The TTL of the verdict cache, the time of a request and the horizon are *)
(* numbers.                                                                *)
LEMMA VerifyConstants == VerdictTTL \in Nat /\ RequestTime \in Nat /\ VerifyHorizon \in Nat
BY VerifyAssumption, Zenon

(* A cached outcome that is served has not expired.                        *)
LEMMA StartCheckStep == ASSUME VerifyInv, NEW c \in Checks, StartCheck(c) PROVE VerifyInv'
<1> USE DEF VerifyInv
<1>0. /\ UNCHANGED <<vclock, lastLive, verdicts>> /\ pairing' = NoPairing /\ InPlay # {}
      /\ check[c].pc = "new" /\ InPlay' = InPlay
  BY Zenon DEF StartCheck, InPlay
<1>1. PairingTrue'
  BY <1>0, Zenon DEF PairingTrue, NoPairing
<1>2. ASSUME NEW d \in CheckStates, check' = [check EXCEPT ![c] = d],
             d.pc = "asked" => d.provider \in InPlay /\ d.asked = vclock,
             d.pc = "done" /\ d.status = "active" => WasLive(vclock - VerdictTTL - RequestTime),
             d.pc = "done" /\ d.status = "inactive" => IsDead
      PROVE  VerifyInv'
  <2>1. /\ check' \in [Checks -> CheckStates] /\ check'[c] = d
        /\ \A e \in Checks : e # c => check'[e] = check[e]
    BY <1>2, OneCheck, Zenon
  <2>2. VerifyShape'
    BY <1>0, <2>1, Zenon DEF VerifyShape
  <2>3. (IsDead' <=> IsDead) /\ \A t : WasLive(t)' <=> WasLive(t)
    BY <1>0, Zenon DEF IsDead, WasLive
  <2>4. vclock \in Nat
    BY Zenon DEF VerifyShape
  <2>5. \A e \in Checks : check'[e].pc = "asked" =>
          /\ check'[e].provider \in InPlay
          /\ check'[e].asked <= vclock /\ vclock <= check'[e].asked + RequestTime
    BY <1>2, <2>1, <2>4, VerifyConstants DEF VerdictsTrue
  <2>6. \A e \in Checks : check'[e].pc = "done" =>
          /\ check'[e].status = "active" => WasLive(vclock - VerdictTTL - RequestTime)
          /\ check'[e].status = "inactive" => IsDead
    BY <1>2, <2>1, Zenon DEF VerdictsTrue
  <2>7. VerdictsTrue'
    BY <1>0, <2>3, <2>5, <2>6, Zenon DEF VerdictsTrue, WasLive, IsDead
  <2> QED  BY <1>1, <2>2, <2>7, Zenon
<1>3. CASE check' = [check EXCEPT ![c] = Done("unknown")]
  <2>1. Done("unknown") \in CheckStates /\ Done("unknown").pc = "done" /\ Done("unknown").status = "unknown"
    BY DoneType, Zenon DEF Statuses
  <2> QED  BY <1>2, <1>3, <2>1, Zenon
<1>4. CASE CacheHit /\ check' = [check EXCEPT ![c] = Done(verdicts.status)]
  <2>1. verdicts.status \in {"active", "inactive"} /\ vclock <= verdicts.expires
        /\ verdicts.expires \in Nat /\ vclock \in Nat
    BY <1>4, Zenon DEF CacheHit, VerifyShape
  <2> DEFINE s == verdicts.status
  <2>2. Done(s) \in CheckStates /\ Done(s).pc = "done" /\ Done(s).status = s
    BY <2>1, DoneType, Zenon DEF Statuses
  <2>3. s = "active" => WasLive(vclock - VerdictTTL - RequestTime)
    <3>1. \A f \in InPlay : lastLive[f] \in Nat
      BY Zenon DEF VerifyShape
    <3> QED  BY <2>1, <3>1, VerifyConstants DEF VerdictsTrue, WasLive
  <2>4. s = "inactive" => IsDead
    BY Zenon DEF VerdictsTrue
  <2> QED  BY <1>2, <1>4, <2>2, <2>3, <2>4, Zenon
<1>5. ASSUME NEW f \in InPlay,
             check' = [check EXCEPT ![c] = [@ EXCEPT !.pc = "asked", !.provider = f, !.asked = vclock]]
      PROVE  VerifyInv'
  <2> DEFINE d == [check[c] EXCEPT !.pc = "asked", !.provider = f, !.asked = vclock]
  <2>1. vclock \in Nat /\ f \in defaultRegistry /\ check[c] \in CheckStates
    BY Zenon DEF VerifyShape
  <2>2. d \in CheckStates /\ d.pc = "asked" /\ d.provider = f /\ d.asked = vclock
    BY <2>1, Zenon DEF CheckStates
  <2>3. check' = [check EXCEPT ![c] = d]
    BY <1>5, Zenon DEF VerifyShape
  <2> HIDE DEF d
  <2> QED  BY <1>2, <2>2, <2>3, Zenon
<1> QED  BY <1>3, <1>4, <1>5, Zenon DEF StartCheck


(* A definite answer was true at some moment of the request.               *)
LEMMA AnswerTrue == ASSUME VerifyInv, NEW c \in Checks, Answered(c) PROVE VerifyInv'
<1> USE DEF VerifyInv
<1>0. /\ UNCHANGED <<vclock, lastLive>> /\ pairing' = NoPairing /\ InPlay' = InPlay
      /\ check[c].pc = "asked" /\ vclock \in Nat /\ \A f \in InPlay : lastLive[f] \in Nat
  BY Zenon DEF Answered, InPlay, VerifyShape
<1>1. PairingTrue'
  BY <1>0, Zenon DEF PairingTrue, NoPairing
<1> DEFINE f == check[c].provider
<1>2. /\ f \in InPlay /\ f \in defaultRegistry /\ check[c].asked \in Nat
      /\ check[c].asked <= vclock /\ vclock <= check[c].asked + RequestTime
  BY <1>0, Zenon DEF VerdictsTrue, VerifyShape, CheckStates
<1>3. PICK at \in check[c].asked..vclock, failed \in BOOLEAN :
        \E r \in Responses(f, LiveAt(f, at)) :
          LET status == IF failed THEN "unknown" ELSE Verdict(f, r)
          IN  /\ check' = [check EXCEPT ![c] = Done(status)]
              /\ verdicts' = CacheSet(status)
  BY Zenon DEF Answered
<1>4. PICK r \in Responses(f, LiveAt(f, at)) :
          LET status == IF failed THEN "unknown" ELSE Verdict(f, r)
          IN  /\ check' = [check EXCEPT ![c] = Done(status)]
              /\ verdicts' = CacheSet(status)
  BY <1>3, Zenon
<1> DEFINE s == IF failed THEN "unknown" ELSE Verdict(f, r)
<1>5. check' = [check EXCEPT ![c] = Done(s)] /\ verdicts' = CacheSet(s)
  BY <1>4, Zenon
<1>6. LiveAt(f, at) \in BOOLEAN
  BY DEF LiveAt
<1>7. s \in Statuses /\ (s = "active" => LiveAt(f, at)) /\ (s = "inactive" => ~LiveAt(f, at))
  BY <1>2, <1>6, VerdictSound, VerdictType, Zenon DEF Statuses
<1>8. at \in Nat /\ at <= vclock /\ vclock <= at + RequestTime
  BY <1>0, <1>2, VerifyConstants
<1> HIDE DEF s, f
<1>9. s = "active" => /\ WasLive(vclock - RequestTime)
                      /\ WasLive(vclock - VerdictTTL - RequestTime)
  BY <1>0, <1>2, <1>7, <1>8, VerifyConstants DEF LiveAt, WasLive
<1>10. s = "inactive" => IsDead
  BY <1>0, <1>2, <1>7, <1>8 DEF LiveAt, IsDead
<1>11. Done(s) \in CheckStates /\ Done(s).pc = "done" /\ Done(s).status = s
  BY <1>7, DoneType, Zenon
<1>12. /\ check' \in [Checks -> CheckStates] /\ check'[c] = Done(s)
       /\ \A e \in Checks : e # c => check'[e] = check[e]
  BY <1>5, <1>11, OneCheck, Zenon
<1>13. /\ verdicts' \in [status : {"none", "active", "inactive"}, expires : Nat]
       /\ \/ verdicts' = verdicts
          \/ verdicts'.status = s /\ verdicts'.expires = vclock + VerdictTTL
  BY <1>0, <1>5, <1>7, VerifyConstants DEF CacheSet, VerifyShape
<1>14. VerifyShape'
  BY <1>0, <1>12, <1>13, Zenon DEF VerifyShape
<1>15. (IsDead' <=> IsDead) /\ \A t : WasLive(t)' <=> WasLive(t)
  BY <1>0, Zenon DEF IsDead, WasLive
<1>16. /\ verdicts'.expires <= vclock + VerdictTTL
       /\ verdicts'.status = "active" => WasLive(verdicts'.expires - VerdictTTL - RequestTime)
       /\ verdicts'.status = "inactive" => IsDead
  <2>1. CASE verdicts' = verdicts
    BY <2>1, Zenon DEF VerdictsTrue
  <2>2. CASE verdicts'.status = s /\ verdicts'.expires = vclock + VerdictTTL
    <3>1. vclock + VerdictTTL - VerdictTTL - RequestTime = vclock - RequestTime
      BY <1>0, VerifyConstants
    <3> QED  BY <1>0, <1>9, <1>10, <2>2, <3>1, VerifyConstants
  <2> QED  BY <1>13, <2>1, <2>2, Zenon
<1>17. /\ \A e \in Checks : check'[e].pc = "asked" =>
             /\ check'[e].provider \in InPlay
             /\ check'[e].asked <= vclock /\ vclock <= check'[e].asked + RequestTime
       /\ \A e \in Checks : check'[e].pc = "done" =>
             /\ check'[e].status = "active" => WasLive(vclock - VerdictTTL - RequestTime)
             /\ check'[e].status = "inactive" => IsDead
  BY <1>9, <1>10, <1>11, <1>12, Zenon DEF VerdictsTrue
<1>18. VerdictsTrue'
  BY <1>0, <1>2, <1>15, <1>16, <1>17, Zenon DEF VerdictsTrue, WasLive, IsDead
<1> QED  BY <1>1, <1>14, <1>18, Zenon

(* The rules become known, the value is revoked, time passes.              *)
LEMMA WorldStep ==
  ASSUME VerifyInv, NewRegistry \/ VerifyTick \/ \E f \in InPlay : RevokeSecret(f)
  PROVE  VerifyInv'
<1> USE DEF VerifyInv
<1>0. vclock \in Nat /\ \A f \in InPlay : lastLive[f] \in Nat
  BY Zenon DEF VerifyShape
<1>1. CASE NewRegistry
  <2>1. PICK f \in defaultRegistry, g \in Partners : lastLive' = [h \in {f, g} |-> VerifyHorizon]
    BY <1>1, Zenon DEF NewRegistry
  <2>2. UNCHANGED <<vclock, verdicts, check, pairing>> /\ InPlay = {}
    BY <1>1, Zenon DEF NewRegistry
  <2>3. InPlay' = {f, g} /\ {f, g} \subseteq defaultRegistry
    BY <2>1, VerifyAssumption, Zenon DEF InPlay
  <2>4. VerifyShape'
    BY <2>1, <2>2, <2>3, VerifyConstants, Zenon DEF VerifyShape
  <2>5. VerdictsTrue'
    BY <2>2, <2>3, Zenon DEF VerdictsTrue
  <2> QED  BY <2>2, <2>4, <2>5, Zenon DEF PairingTrue
<1>2. CASE VerifyTick
  <2>1. /\ vclock' = vclock + 1 /\ UNCHANGED <<lastLive, verdicts>> /\ pairing' = NoPairing
        /\ check' = [c \in Checks |-> IF check[c].pc = "done" THEN NewCheck ELSE check[c]]
        /\ \A c \in Checks : check[c].pc = "asked" => vclock - check[c].asked < RequestTime
        /\ InPlay' = InPlay /\ InPlay # {}
    BY <1>2, Zenon DEF VerifyTick, InPlay
  <2>2. NewCheck \in CheckStates /\ NewCheck.pc = "new"
    BY Zenon DEF NewCheck, CheckStates
  <2>3. /\ check' \in [Checks -> CheckStates]
        /\ \A c \in Checks : (check'[c] = check[c] /\ check[c].pc # "done") \/ check'[c].pc = "new"
    BY <2>1, <2>2, Zenon DEF VerifyShape
  <2>4. VerifyShape'
    BY <1>0, <2>1, <2>3 DEF VerifyShape
  <2>5. (IsDead => IsDead') /\ \A t : WasLive(t) => WasLive(t)'
    BY <1>0, <2>1 DEF IsDead, WasLive
  <2>6. \A c \in Checks : check[c].asked \in Nat
    BY Zenon DEF VerifyShape, CheckStates
  <2>7. \A c \in Checks : check'[c].pc = "asked" =>
          /\ check'[c].provider \in InPlay
          /\ check'[c].asked <= vclock + 1 /\ vclock + 1 <= check'[c].asked + RequestTime
    BY <1>0, <2>1, <2>3, <2>6, VerifyConstants DEF VerdictsTrue
  <2>8. verdicts.expires <= vclock + 1 + VerdictTTL
    BY <1>0, VerifyConstants DEF VerdictsTrue, VerifyShape
  <2>9. verdicts.status = "active" => WasLive(verdicts.expires - VerdictTTL - RequestTime)'
    BY <2>1, <2>5, Zenon DEF VerdictsTrue
  <2>10. VerdictsTrue'
    BY <2>1, <2>3, <2>5, <2>7, <2>8, <2>9, Zenon DEF VerdictsTrue
  <2>11. PairingTrue'
    BY <2>1, Zenon DEF PairingTrue, NoPairing
  <2> QED  BY <2>4, <2>10, <2>11, Zenon
<1>3. ASSUME NEW f \in InPlay, RevokeSecret(f) PROVE VerifyInv'
  <2>1. /\ lastLive' = [lastLive EXCEPT ![f] = vclock] /\ lastLive[f] = VerifyHorizon
        /\ vclock < VerifyHorizon
        /\ UNCHANGED <<vclock, verdicts, check>> /\ pairing' = NoPairing
    BY <1>3, Zenon DEF RevokeSecret
  <2>2. InPlay' = InPlay /\ \A g \in InPlay : lastLive'[g] = IF g = f THEN vclock ELSE lastLive[g]
    BY <2>1, Zenon DEF InPlay
  <2>3. VerifyShape'
    <3>1. lastLive' = [g \in InPlay |-> IF g = f THEN vclock ELSE lastLive[g]]
      BY <2>1, Zenon DEF InPlay
    <3>2. lastLive' = [g \in InPlay' |-> lastLive'[g]]
      BY <2>2, <3>1, Zenon
    <3>3. \A g \in InPlay : lastLive'[g] \in Nat /\ (lastLive'[g] = VerifyHorizon \/ lastLive'[g] <= vclock)
      BY <1>0, <2>2 DEF VerifyShape
    <3> QED  BY <2>1, <2>2, <3>2, <3>3, Zenon DEF VerifyShape
  <2>4. IsDead => IsDead'
    BY <1>0, <2>1, <2>2, VerifyConstants DEF IsDead
  <2>5. ASSUME NEW t \in Int, t <= vclock, WasLive(t) PROVE WasLive(t)'
    BY <1>0, <2>1, <2>2, <2>5, Zenon DEF WasLive
  <2>6. verdicts.status = "active" => WasLive(verdicts.expires - VerdictTTL - RequestTime)'
    <3>1. verdicts.expires \in Nat /\ verdicts.expires <= vclock + VerdictTTL
      BY Zenon DEF VerdictsTrue, VerifyShape
    <3>2. verdicts.expires - VerdictTTL - RequestTime \in Int
          /\ verdicts.expires - VerdictTTL - RequestTime <= vclock
      BY <1>0, <3>1, VerifyConstants
    <3>3. verdicts.status = "active" => WasLive(verdicts.expires - VerdictTTL - RequestTime)
      BY Zenon DEF VerdictsTrue
    <3> QED  BY <2>1, <2>5, <3>2, <3>3, Zenon
  <2>7. WasLive(vclock - VerdictTTL - RequestTime) => WasLive(vclock - VerdictTTL - RequestTime)'
    <3>1. vclock - VerdictTTL - RequestTime \in Int /\ vclock - VerdictTTL - RequestTime <= vclock
      BY <1>0, VerifyConstants
    <3> QED  BY <2>1, <2>5, <3>1, Zenon
  <2>8. VerdictsTrue'
    BY <2>1, <2>2, <2>4, <2>6, <2>7, Zenon DEF VerdictsTrue
  <2>9. PairingTrue'
    BY <2>1, Zenon DEF PairingTrue, NoPairing
  <2> QED  BY <2>3, <2>8, <2>9, Zenon
<1> QED  BY <1>1, <1>2, <1>3, Zenon

(* Active wins, and only the right candidate is accepted.                  *)
LEMMA PairStep == ASSUME VerifyInv, AwsPrePass PROVE VerifyInv'
<1> USE DEF VerifyInv
<1>0. PICK n \in 0..awsMaxCandidates : \E right \in 0..n :
        \E answers \in [1..n -> {"active", "inactive", "unknown", "error"}] :
          /\ \A i \in 1..n : answers[i] \in PairAnswers(i = right)
          /\ pairing' = [right |-> right, status |-> AwsStatus(answers)]
  BY Zenon DEF AwsPrePass
<1>1. PICK right \in 0..n :
        \E answers \in [1..n -> {"active", "inactive", "unknown", "error"}] :
          /\ \A i \in 1..n : answers[i] \in PairAnswers(i = right)
          /\ pairing' = [right |-> right, status |-> AwsStatus(answers)]
  BY <1>0, Zenon
<1>2. PICK answers \in [1..n -> {"active", "inactive", "unknown", "error"}] :
        /\ \A i \in 1..n : answers[i] \in PairAnswers(i = right)
        /\ pairing' = [right |-> right, status |-> AwsStatus(answers)]
  BY <1>1, Zenon
<1>3. \A i \in 1..n : (answers[i] = "active" => i = right) /\ (answers[i] = "inactive" => i # right)
  BY <1>2, Zenon DEF PairAnswers
<1>4. AwsStatus(answers) = "active" => right # 0
  BY <1>3 DEF AwsStatus
<1>5. AwsStatus(answers) = "inactive" => right = 0
  <2>1. AwsStatus(answers) = "inactive" => \A i \in 1..n : answers[i] = "inactive"
    BY Zenon DEF AwsStatus
  <2> QED  BY <1>1, <1>3, <2>1
<1>6. PairingTrue'
  BY <1>2, <1>4, <1>5, Zenon DEF PairingTrue
<1>7. UNCHANGED <<vclock, lastLive, verdicts, check>>
  BY Zenon DEF AwsPrePass
<1> QED  BY <1>6, <1>7 DEF VerifyShape, VerdictsTrue, WasLive, IsDead, InPlay

(* What a verification reports was true within a TTL and a request, for    *)
(* any number of concurrent checks, any TTL and any pair of providers.     *)
THEOREM VerdictsWereTrue == VerifySpec => []StatusWasTrue
<1>1. VerifyInit => VerifyInv
  <2> SUFFICES ASSUME VerifyInit PROVE VerifyInv
    BY Zenon
  <2>1. InPlay = {} /\ lastLive = [f \in InPlay |-> lastLive[f]]
    BY DEF VerifyInit, InPlay
  <2>2. NewCheck \in CheckStates /\ NewCheck.pc = "new"
    BY Zenon DEF NewCheck, CheckStates
  <2>3. VerifyShape
    BY <2>1, <2>2, Zenon DEF VerifyInit, VerifyShape, NoVerdictYet
  <2>4. VerdictsTrue
    BY <2>2, VerifyConstants DEF VerifyInit, VerdictsTrue, NoVerdictYet
  <2> QED  BY <2>3, <2>4, Zenon DEF VerifyInit, VerifyInv, PairingTrue, NoPairing
<1>2. VerifyInv /\ [VerifyNext]_verifyVars => VerifyInv'
  <2> SUFFICES ASSUME VerifyInv, [VerifyNext]_verifyVars PROVE VerifyInv'
    BY Zenon
  <2>1. CASE UNCHANGED verifyVars
    BY <2>1, Zenon DEF verifyVars, VerifyInv, VerifyShape, VerdictsTrue, PairingTrue, WasLive, IsDead, InPlay
  <2> QED  BY <2>1, StartCheckStep, AnswerTrue, WorldStep, PairStep, Zenon DEF VerifyNext
<1>3. VerifyInv => StatusWasTrue
  <2> SUFFICES ASSUME VerifyInv PROVE StatusWasTrue
    BY Zenon
  <2>1. vclock \in Nat /\ \A f \in InPlay : lastLive[f] \in Nat
    BY Zenon DEF VerifyInv, VerifyShape
  <2> QED  BY <2>1 DEF VerifyInv, VerdictsTrue, PairingTrue, StatusWasTrue, WasLive, IsDead, LiveAt
<1> QED  BY <1>1, <1>2, <1>3, PTL DEF VerifySpec

-----------------------------------------------------------------------------
(* CIGate.  Whatever a command judges against was accepted once; whatever  *)
(* it is about to save extends the last complete file, unless it is stale. *)

GateStages == {"idle", "load", "judge", "truncate", "write"}
Invocations == [pc : GateStages, cmd : {"none", "scan", "gate", "update", "allow"},
                base : Baselines, stale : BOOLEAN]

GateShape ==
  /\ baselineFile \in [is : {"missing", "torn", "whole"}, base : Baselines]
  /\ pipeline \in [Pipelines -> Invocations]
  /\ everAccepted \subseteq Fingerprints /\ latest \in Baselines

(* An operator has accepted all that a baseline knows.                     *)
WasAccepted(base) == \A fp \in Fingerprints : IsKnown(base, fp) => fp \in everAccepted

(* A base holds the entries of the last complete file.                     *)
KeepsLatest(base) == latest.known \subseteq base.known /\ latest.allowed \subseteq base.allowed

(* A file that parses is the last one saved; what is judged against was    *)
(* accepted; what gate allow saves extends it unless another one saved.    *)
GateLinks ==
  /\ baselineFile.is # "torn" => baselineFile.base = latest
  /\ WasAccepted(latest)
  /\ \A p \in Pipelines :
       /\ pipeline[p].pc \in {"idle", "load"} => pipeline[p].base = NewBaseline
       /\ pipeline[p].pc = "judge" => WasAccepted(pipeline[p].base)
       /\ pipeline[p].pc \in {"judge", "truncate", "write"} /\ pipeline[p].cmd = "allow"
            /\ ~pipeline[p].stale => KeepsLatest(pipeline[p].base)

GateInv == GateShape /\ GateLinks /\ LiveSecretsGate

(* NewBaseline accepts nothing.                                            *)
LEMMA EmptyBaseline == NewBaseline \in Baselines /\ \A fp : ~IsKnown(NewBaseline, fp)
BY Zenon DEF NewBaseline, Baselines, IsKnown

(* A command that has not started has loaded no baseline.                  *)
LEMMA EmptyPipeline == NoPipeline \in Invocations /\ NoPipeline.pc = "idle" /\ NoPipeline.base = NewBaseline
BY EmptyBaseline, Zenon DEF NoPipeline, Invocations, GateStages

(* One command takes a step that saves nothing: what holds of its new      *)
(* state is all there is to show.                                          *)
LEMMA OnePipelineStep ==
  ASSUME GateInv, NEW p \in Pipelines, NEW c \in Invocations,
         pipeline' = [pipeline EXCEPT ![p] = c], UNCHANGED <<everAccepted, latest>>,
         \/ UNCHANGED baselineFile
         \/ baselineFile' = [is |-> "torn", base |-> NewBaseline],
         c.pc \in {"idle", "load"} => c.base = NewBaseline,
         c.pc = "judge" => WasAccepted(c.base),
         c.pc \in {"judge", "truncate", "write"} /\ c.cmd = "allow" /\ ~c.stale => KeepsLatest(c.base)
  PROVE  GateShape' /\ GateLinks'
<1> USE DEF GateInv
<1>1. /\ pipeline' \in [Pipelines -> Invocations] /\ pipeline'[p] = c
      /\ \A q \in Pipelines : q # p => pipeline'[q] = pipeline[q]
  BY Zenon DEF GateShape
<1>2. baselineFile' \in [is : {"missing", "torn", "whole"}, base : Baselines]
  BY EmptyBaseline DEF GateShape
<1>3. baselineFile'.is # "torn" => baselineFile'.base = latest
  BY DEF GateLinks
<1>4. \A b : (WasAccepted(b)' <=> WasAccepted(b)) /\ (KeepsLatest(b)' <=> KeepsLatest(b))
  BY Zenon DEF WasAccepted, KeepsLatest
<1>5. GateShape'
  BY <1>1, <1>2, Zenon DEF GateShape
<1>6. WasAccepted(latest)'
  BY Zenon DEF WasAccepted, GateLinks
<1>7. ASSUME NEW q \in Pipelines
      PROVE  /\ pipeline'[q].pc \in {"idle", "load"} => pipeline'[q].base = NewBaseline
             /\ pipeline'[q].pc = "judge" => WasAccepted(pipeline'[q].base)
             /\ pipeline'[q].pc \in {"judge", "truncate", "write"} /\ pipeline'[q].cmd = "allow"
                  /\ ~pipeline'[q].stale => KeepsLatest(pipeline'[q].base)
  BY <1>1, Zenon DEF GateLinks
<1> QED  BY <1>3, <1>5, <1>6, <1>7, Zenon DEF GateLinks, WasAccepted, KeepsLatest


(* A command starts, loads the baseline, or ends.                          *)
LEMMA BeginStep ==
  ASSUME GateInv, NEW p \in Pipelines, NEW cmd \in {"scan", "gate", "update", "allow"},
         RunScanForFile(p, cmd) \/ LoadBaselineOrEmpty(p) \/ PipelineDies(p)
  PROVE  GateInv'
<1> USE DEF GateInv
<1>0. /\ verdict' = NoVerdict /\ UNCHANGED <<baselineFile, everAccepted, latest>>
      /\ pipeline[p] \in Invocations
  BY Zenon DEF RunScanForFile, LoadBaselineOrEmpty, PipelineDies, GateShape
<1>1. LiveSecretsGate'
  BY <1>0, Zenon DEF LiveSecretsGate, NoVerdict, exitOK, exitOperational
<1>2. CASE Exit(p)
  BY <1>0, <1>1, <1>2, EmptyPipeline, OnePipelineStep, Zenon DEF Exit
<1>3. CASE RunScanForFile(p, cmd)
  <2> DEFINE stage == IF cmd = "scan" THEN "judge" ELSE "load"
             c == [pipeline[p] EXCEPT !.pc = stage, !.cmd = cmd]
  <2>1. pipeline' = [pipeline EXCEPT ![p] = c] /\ pipeline[p].pc = "idle"
    BY <1>3, Zenon DEF RunScanForFile, GateShape
  <2>2. stage \in {"judge", "load"} /\ (stage = "judge" => cmd = "scan")
    BY Zenon
  <2> HIDE DEF stage
  <2>3. c \in Invocations /\ c.pc = stage /\ c.cmd = cmd /\ c.base = pipeline[p].base
    BY <1>0, <2>2, Zenon DEF Invocations, GateStages
  <2> HIDE DEF c
  <2>4. c.base = NewBaseline
    BY <2>1, <2>3, Zenon DEF GateLinks
  <2>5. WasAccepted(c.base)
    BY <2>4, EmptyBaseline, Zenon DEF WasAccepted
  <2>6. GateShape' /\ GateLinks'
    BY <1>0, <2>1, <2>2, <2>3, <2>4, <2>5, OnePipelineStep, Zenon
  <2> QED  BY <1>1, <2>6, Zenon
<1>4. CASE pipeline[p].pc = "load" /\ baselineFile.is # "torn" /\ Loaded(p, baselineFile.base)
  <2> DEFINE c == [pipeline[p] EXCEPT !.pc = "judge", !.base = baselineFile.base]
  <2>1. pipeline' = [pipeline EXCEPT ![p] = c]
    BY <1>4, Zenon DEF Loaded, GateShape
  <2>2. baselineFile.base = latest /\ WasAccepted(latest) /\ latest \in Baselines
    BY <1>4, Zenon DEF GateLinks, GateShape
  <2>3. c \in Invocations /\ c.pc = "judge" /\ c.base = latest
    BY <1>0, <2>2, Zenon DEF Invocations, GateStages
  <2> HIDE DEF c
  <2>4. KeepsLatest(c.base) /\ WasAccepted(c.base)
    BY <2>2, <2>3, Zenon DEF KeepsLatest
  <2>5. GateShape' /\ GateLinks'
    BY <1>0, <2>1, <2>3, <2>4, OnePipelineStep, Zenon
  <2> QED  BY <1>1, <2>5, Zenon
<1> QED  BY <1>2, <1>3, <1>4, Zenon DEF LoadBaselineOrEmpty, PipelineDies

(* gate.Evaluate lets a build pass only if its live findings are known.    *)
LEMMA JudgeStep ==
  ASSUME GateInv, NEW p \in Pipelines, NEW report \in Reports, NEW flag \in Flags,
         \/ EvaluateAndRender(p, report, flag) \/ EvaluateGate(p, report, flag)
         \/ RenderSBOM(p, report)
  PROVE  GateInv'
<1> USE DEF GateInv
<1>0. /\ UNCHANGED <<baselineFile, everAccepted, latest>> /\ Exit(p) /\ pipeline[p].pc = "judge"
  BY Zenon DEF EvaluateAndRender, EvaluateGate, RenderSBOM, Judge, Judging
<1>1. GateShape' /\ GateLinks'
  BY <1>0, EmptyPipeline, OnePipelineStep, Zenon DEF Exit
<1>2. CASE RenderSBOM(p, report)
  <2>1. verdict'.policy = "none"
    BY <1>2, Zenon DEF RenderSBOM
  <2> QED  BY <1>1, <2>1, Zenon DEF LiveSecretsGate
<1>3. CASE Judge(p, report, flag)
  <2> DEFINE base == pipeline[p].base
  <2>1. CASE flag = "bad"
    BY <1>1, <1>3, <2>1, Zenon DEF Judge, LiveSecretsGate, NoVerdict, exitOK, exitOperational
  <2>2. CASE flag # "bad"
    <3>1. /\ verdict'.report = report /\ verdict'.policy = Policy(flag)
          /\ verdict'.code = exitOK => ~Failed(report, base, Policy(flag))
      BY <1>3, <2>2 DEF Judge, exitOK, exitPolicy
    <3>2. ASSUME verdict'.code = exitOK, verdict'.policy \in {"verified", "any"},
                 NEW fp \in DOMAIN report, report[fp].active
          PROVE  fp \in everAccepted
      <4>1. fp \in Fingerprints
        BY Zenon DEF Reports
      <4>2. fp \notin NewFindings(report, base)
        BY <3>1, <3>2, Zenon DEF Failed
      <4>3. IsKnown(base, fp)
        BY <4>2, Zenon DEF NewFindings
      <4>4. WasAccepted(base)
        BY <1>0, Zenon DEF GateLinks
      <4> QED  BY <4>1, <4>3, <4>4, Zenon DEF WasAccepted
    <3>3. LiveSecretsGate'
      BY <1>0, <3>1, <3>2, Zenon DEF LiveSecretsGate
    <3> QED  BY <1>1, <3>3, Zenon
  <2> QED  BY <2>1, <2>2, Zenon
<1> QED  BY <1>2, <1>3, Zenon DEF EvaluateAndRender, EvaluateGate

(* --update-baseline and gate allow make the baseline they will save, and  *)
(* truncate the file first.                                                *)
LEMMA EditStep ==
  ASSUME GateInv, NEW p \in Pipelines, NEW report \in Reports,
         NEW more \in SUBSET Fingerprints, NEW type \in BOOLEAN,
         BaselineFromScan(p, report) \/ RunGateAllow(p, more, type) \/ Truncate(p)
  PROVE  GateInv'
<1> USE DEF GateInv
<1>0. /\ verdict' = NoVerdict /\ UNCHANGED <<everAccepted, latest>>
      /\ pipeline[p] \in Invocations
  BY Zenon DEF BaselineFromScan, RunGateAllow, Truncate, GateShape
<1>1. LiveSecretsGate'
  BY <1>0, Zenon DEF LiveSecretsGate, NoVerdict, exitOK, exitOperational
<1>2. CASE BaselineFromScan(p, report)
  <2> DEFINE b == [NewBaseline EXCEPT !.known = DOMAIN report]
             c == [pipeline[p] EXCEPT !.pc = "truncate", !.base = b]
  <2>1. b \in Baselines
    <3>1. DOMAIN report \in SUBSET Fingerprints
      BY Zenon DEF Reports
    <3> QED  BY <3>1, Zenon DEF NewBaseline, Baselines
  <2>2. pipeline' = [pipeline EXCEPT ![p] = c] /\ UNCHANGED baselineFile /\ pipeline[p].cmd = "update"
    BY <1>2, Zenon DEF BaselineFromScan, Judging, GateShape
  <2> HIDE DEF b
  <2>3. c \in Invocations /\ c.pc = "truncate" /\ c.cmd = pipeline[p].cmd
    BY <1>0, <2>1, Zenon DEF Invocations, GateStages
  <2> HIDE DEF c
  <2>4. GateShape' /\ GateLinks'
    BY <1>0, <2>2, <2>3, OnePipelineStep, Zenon
  <2> QED  BY <1>1, <2>4, Zenon
<1>3. CASE RunGateAllow(p, more, type)
  <2> DEFINE old == pipeline[p].base
             any == old.allowType \/ type
             all == old.allowed \cup more
             b == [old EXCEPT !.allowed = all, !.allowType = any]
             c == [pipeline[p] EXCEPT !.pc = "truncate", !.base = b]
  <2>1. old \in Baselines
    BY <1>0, Zenon DEF Invocations
  <2>2. any \in BOOLEAN
    BY Zenon
  <2>3. all \in SUBSET Fingerprints /\ old.allowed \subseteq all
    BY <2>1, Zenon DEF Baselines
  <2>4. /\ UNCHANGED baselineFile /\ pipeline[p].pc = "judge" /\ pipeline[p].cmd = "allow"
        /\ pipeline' = [pipeline EXCEPT ![p].pc = "truncate", ![p].base.allowed = all,
                                        ![p].base.allowType = any]
    BY <1>3, Zenon DEF RunGateAllow, Judging
  <2> HIDE DEF any, all
  <2>5. pipeline' = [pipeline EXCEPT ![p] = c]
    BY <1>0, <2>1, <2>4, Zenon DEF Invocations, GateShape, Baselines
  <2>6. b \in Baselines /\ b.known = old.known /\ b.allowed = all
    BY <2>1, <2>2, <2>3, Zenon DEF Baselines
  <2> HIDE DEF b
  <2>7. c \in Invocations /\ c.pc = "truncate" /\ c.base = b /\ c.stale = pipeline[p].stale
    BY <1>0, <2>6, Zenon DEF Invocations, GateStages
  <2> HIDE DEF c
  <2>8. ~c.stale => KeepsLatest(c.base)
    BY <2>3, <2>4, <2>6, <2>7, Zenon DEF GateLinks, KeepsLatest
  <2>9. GateShape' /\ GateLinks'
    BY <1>0, <2>4, <2>5, <2>7, <2>8, OnePipelineStep, Zenon
  <2> QED  BY <1>1, <2>9, Zenon
<1>4. CASE Truncate(p)
  <2> DEFINE c == [pipeline[p] EXCEPT !.pc = "write"]
  <2>1. /\ baselineFile' = [is |-> "torn", base |-> NewBaseline] /\ pipeline[p].pc = "truncate"
        /\ pipeline' = [pipeline EXCEPT ![p] = c]
    BY <1>4, Zenon DEF Truncate, GateShape
  <2>2. /\ c \in Invocations /\ c.pc = "write" /\ c.base = pipeline[p].base
        /\ c.stale = pipeline[p].stale /\ c.cmd = pipeline[p].cmd
    BY <1>0, Zenon DEF Invocations, GateStages
  <2> HIDE DEF c
  <2>3. c.cmd = "allow" /\ ~c.stale => KeepsLatest(c.base)
    BY <2>1, <2>2, Zenon DEF GateLinks
  <2>4. GateShape' /\ GateLinks'
    BY <1>0, <2>1, <2>2, <2>3, OnePipelineStep, Zenon
  <2> QED  BY <1>1, <2>4, Zenon
<1> QED  BY <1>2, <1>3, <1>4, Zenon


(* A save is the new last file; whoever loaded before is stale.            *)
LEMMA SaveStep == ASSUME GateInv, NEW p \in Pipelines, Save(p) PROVE GateInv'
<1> USE DEF GateInv
<1> DEFINE base == pipeline[p].base
           late(q) == pipeline[q].pc \in {"judge", "truncate", "write"}
           made(q) == [pipeline[q] EXCEPT !.stale = late(q)]
<1>0. \A q \in Pipelines : pipeline[q] \in Invocations
  BY Zenon DEF GateShape
<1>1. base \in Baselines
  BY <1>0, Zenon DEF Invocations
<1>2. /\ baselineFile' = [is |-> "whole", base |-> base] /\ latest' = base /\ verdict' = NoVerdict
      /\ everAccepted' = everAccepted \cup {fp \in Fingerprints : IsKnown(base, fp)}
      /\ pipeline' = [q \in Pipelines |-> IF q = p THEN NoPipeline ELSE made(q)]
  BY Zenon DEF Save
<1>3. ASSUME NEW q \in Pipelines
      PROVE  /\ made(q) \in Invocations /\ made(q).pc = pipeline[q].pc
             /\ made(q).base = pipeline[q].base /\ (late(q) => made(q).stale)
  <2> DEFINE b == late(q)
  <2>1. b \in BOOLEAN
    BY DEF late
  <2>2. made(q) = [pipeline[q] EXCEPT !.stale = b]
    BY Zenon
  <2> HIDE DEF b, made
  <2>3. /\ made(q) \in Invocations /\ made(q).pc = pipeline[q].pc
        /\ made(q).base = pipeline[q].base /\ made(q).stale = b
    BY <1>0, <2>1, <2>2, Zenon DEF Invocations
  <2> QED  BY <2>3, Zenon DEF b
<1> HIDE DEF base, late, made
<1>4. ASSUME NEW q \in Pipelines
      PROVE  /\ pipeline'[q] \in Invocations
             /\ q = p => pipeline'[q] = NoPipeline
             /\ q # p => pipeline'[q] = made(q)
  BY <1>2, <1>3, EmptyPipeline, Zenon
<1>5. GateShape'
  <2>1. pipeline' \in [Pipelines -> Invocations]
    BY <1>2, <1>3, EmptyPipeline, Zenon
  <2>2. baselineFile' \in [is : {"missing", "torn", "whole"}, base : Baselines]
    BY <1>1, <1>2, Zenon
  <2> QED  BY <1>1, <1>2, <2>1, <2>2, Zenon DEF GateShape
<1>6. LiveSecretsGate'
  BY <1>2, Zenon DEF LiveSecretsGate, NoVerdict, exitOK, exitOperational
<1>7. WasAccepted(latest)'
  BY <1>2, Zenon DEF WasAccepted
<1>8. \A b : WasAccepted(b) => WasAccepted(b)'
  BY <1>2, Zenon DEF WasAccepted
<1>9. ASSUME NEW q \in Pipelines
      PROVE  /\ pipeline'[q].pc \in {"idle", "load"} => pipeline'[q].base = NewBaseline
             /\ pipeline'[q].pc = "judge" => \A fp \in Fingerprints :
                                               IsKnown(pipeline'[q].base, fp) => fp \in everAccepted'
             /\ pipeline'[q].pc \in {"judge", "truncate", "write"} => pipeline'[q].stale
  <2>1. CASE q = p
    BY <1>4, <2>1, EmptyPipeline, Zenon
  <2>2. CASE q # p
    <3>1. pipeline'[q].pc = pipeline[q].pc /\ pipeline'[q].base = pipeline[q].base
          /\ (late(q) => pipeline'[q].stale)
      BY <1>3, <1>4, <2>2, Zenon
    <3>2. pipeline[q].pc = "judge" => \A fp \in Fingerprints :
                                        IsKnown(pipeline[q].base, fp) => fp \in everAccepted'
      BY <1>2, Zenon DEF GateLinks, WasAccepted
    <3> QED  BY <3>1, <3>2, Zenon DEF GateLinks, late
  <2> QED  BY <2>1, <2>2, Zenon
<1>10. GateLinks'
  BY <1>2, <1>7, <1>9, Zenon DEF GateLinks, WasAccepted
<1> QED  BY <1>5, <1>6, <1>10, Zenon

(* The invariant of the pipelines holds, for any number that share a       *)
(* baseline file.                                                          *)
LEMMA GateInvariant == GateSpec => []GateInv
<1>1. GateInit => GateInv
  <2> SUFFICES ASSUME GateInit PROVE GateInv
    BY Zenon
  <2>1. GateShape
    BY EmptyBaseline, EmptyPipeline, Zenon DEF GateInit, GateShape
  <2>2. GateLinks
    BY EmptyBaseline, EmptyPipeline, Zenon DEF GateInit, GateLinks, WasAccepted
  <2> QED  BY <2>1, <2>2, Zenon DEF GateInit, GateInv, LiveSecretsGate, NoVerdict, exitOK, exitOperational
<1>2. GateInv /\ [GateNext]_gateVars => GateInv'
  <2> SUFFICES ASSUME GateInv, [GateNext]_gateVars PROVE GateInv'
    BY Zenon
  <2>1. CASE UNCHANGED gateVars
    BY <2>1, Zenon DEF gateVars, GateInv, GateShape, GateLinks, WasAccepted, KeepsLatest, LiveSecretsGate
  <2>2. CASE GateNext
    <3>1. PICK p \in Pipelines :
            \/ \E cmd \in {"scan", "gate", "update", "allow"} : RunScanForFile(p, cmd)
            \/ LoadBaselineOrEmpty(p) \/ Truncate(p) \/ Save(p) \/ PipelineDies(p)
            \/ \E report \in Reports, flag \in Flags :
                 EvaluateAndRender(p, report, flag) \/ EvaluateGate(p, report, flag)
            \/ \E report \in Reports : RenderSBOM(p, report) \/ BaselineFromScan(p, report)
            \/ \E more \in SUBSET Fingerprints, type \in BOOLEAN : RunGateAllow(p, more, type)
      BY <2>2, Zenon DEF GateNext
    <3>2. << >> \in Reports /\ "any" \in Flags /\ {} \in SUBSET Fingerprints /\ TRUE \in BOOLEAN
          /\ "scan" \in {"scan", "gate", "update", "allow"}
      <4>1. << >> \in [{} -> [active : BOOLEAN, keep : BOOLEAN]]
        OBVIOUS
      <4> QED  BY <4>1, Zenon DEF Reports, Flags
    <3> QED  BY <3>1, <3>2, BeginStep, JudgeStep, EditStep, SaveStep, Zenon
  <2> QED  BY <2>1, <2>2, Zenon
<1> QED  BY <1>1, <1>2, PTL DEF GateSpec

(* A build passes only if every live secret it reports was accepted into a *)
(* baseline by somebody before (Evaluate, runGate).                        *)
THEOREM GateStopsLiveSecrets == GateSpec => []LiveSecretsGate
<1>1. GateInv => LiveSecretsGate
  BY DEF GateInv
<1> QED  BY <1>1, GateInvariant, PTL

(* What gate allow is about to write still accepts all that the last       *)
(* complete file accepted, unless another command saved since it loaded    *)
(* (runGateAllow, Baseline.Save).                                          *)
THEOREM AllowOnlyAdds == GateSpec => []AllowKeepsBaseline
<1>1. GateInv => AllowKeepsBaseline
  BY DEF GateInv, GateLinks, KeepsLatest, AllowKeepsBaseline
<1> QED  BY <1>1, GateInvariant, PTL

-----------------------------------------------------------------------------
(* ReadApi.  No reply is raw without the setting, and a probe that is      *)
(* healthy has a check behind it that began when the answer says.          *)

(* No value of S is in the clear.                                          *)
NoRaw(S) == \A s \in S : s[2] # "raw"

Envelopes == [is : {"none", "broken", "findings"}, has : SUBSET Shown]
JobHashes    == [status : {"gone", "processing", "completed", "failed"}, result : Envelopes]

(* The rows hold no value in the clear, and a reply shows none, or it goes *)
(* to a client that opted in.                                              *)
ReadInv ==
  /\ jobs \in [ReadJobs -> JobHashes]
  /\ rows \subseteq Shown /\ NoRaw(rows)
  /\ RawNeedsOptOut

(* maskSecret leaves no value in the clear.                                *)
LEMMA Masked == ASSUME NEW has PROVE NoRaw(MaskAll(has))
BY DEF NoRaw, MaskAll

(* MaskResultJSON neither.                                                 *)
LEMMA MaskedResult == ASSUME NEW result \in Envelopes PROVE NoRaw(Mask(result).has)
<1>1. CASE result.is = "findings"
  <2>1. Mask(result) = [result EXCEPT !.has = MaskAll(result.has)]
    BY <1>1, Zenon DEF Mask
  <2>2. Mask(result).has = MaskAll(result.has)
    BY <2>1, Zenon DEF Envelopes
  <2> QED  BY <2>2, Masked, Zenon
<1>2. CASE result.is # "findings"
  BY <1>2, Zenon DEF Mask, NoResult, NoRaw
<1> QED  BY <1>1, <1>2, Zenon

(* A reply to a client that did not opt in, or to a model.                 *)
LEMMA GiveSafe ==
  ASSUME NEW code, NEW body, Give(code, body) \/ reply' = NoReply,
         config.mask => NoRaw(body), UNCHANGED config
  PROVE  RawNeedsOptOut'
BY DEF Give, NoReply, RawNeedsOptOut, NoRaw

(* An answer to a model shows no value in the clear, whatever the setting. *)
LEMMA TellSafe ==
  ASSUME NEW ok, NEW body, Tell(ok, body), NoRaw(body)
  PROVE  RawNeedsOptOut'
<1>1. reply'.body = body
  BY Zenon DEF Tell
<1> QED  BY <1>1, Zenon DEF RawNeedsOptOut, NoRaw

(* An empty reply shows no value (an error answer).                        *)
LEMMA NothingIsRaw == NoRaw({})
BY Zenon DEF NoRaw

(* A job publishes its findings as they are, and stores them protected.    *)
LEMMA JobStep ==
  ASSUME ReadInv, NEW j \in ReadJobs, JobEnds(j) \/ JobExpires(j)
  PROVE  ReadInv'
<1> USE DEF ReadInv
<1>1. reply' = NoReply
  BY Zenon DEF JobEnds, JobExpires
<1>2. RawNeedsOptOut'
  BY <1>1, Zenon DEF RawNeedsOptOut, NoReply
<1>3. ASSUME NEW h \in JobHashes, jobs' = [jobs EXCEPT ![j] = h] PROVE jobs' \in [ReadJobs -> JobHashes]
  BY <1>3, Zenon
<1>4. NoResult \in Envelopes /\ [is |-> "broken", has |-> {}] \in Envelopes
  BY Zenon DEF NoResult, Envelopes
<1>5. CASE JobExpires(j)
  <2>1. [status |-> "gone", result |-> NoResult] \in JobHashes
    BY <1>4, Zenon DEF JobHashes
  <2> QED  BY <1>2, <1>3, <1>5, <2>1, Zenon DEF JobExpires
<1>6. CASE JobEnds(j) /\ UNCHANGED rows /\
           \E end \in {[status |-> "failed", result |-> NoResult],
                       [status |-> "completed", result |-> NoResult],
                       [status |-> "completed", result |-> [is |-> "broken", has |-> {}]]} :
             jobs' = [jobs EXCEPT ![j] = end]
  <2>1. PICK end \in JobHashes : jobs' = [jobs EXCEPT ![j] = end]
    BY <1>4, <1>6, Zenon DEF JobHashes
  <2> QED  BY <1>2, <1>3, <1>6, <2>1, Zenon
<1>7. ASSUME NEW V \in SUBSET Values,
             rows' \in {rows, IF rows = {} THEN {ProtectAtRest(v) : v \in V} ELSE rows},
             NEW has \in {{<<v, "raw">> : v \in V}} \cup ({rows} \ {{}}),
             jobs' = [jobs EXCEPT ![j] = [status |-> "completed",
                                          result |-> [is |-> "findings", has |-> has]]]
      PROVE  ReadInv'
  <2>1. has \in SUBSET Shown
    BY DEF Shown, Forms
  <2>2. [status |-> "completed", result |-> [is |-> "findings", has |-> has]] \in JobHashes
    BY <2>1, Zenon DEF JobHashes, Envelopes
  <2>3. {ProtectAtRest(v) : v \in V} \subseteq Shown /\ NoRaw({ProtectAtRest(v) : v \in V})
    BY DEF ProtectAtRest, Shown, Forms, NoRaw
  <2>4. rows' \subseteq Shown /\ NoRaw(rows')
    BY <1>7, <2>3, Zenon
  <2>5. jobs' \in [ReadJobs -> JobHashes]
    BY <1>3, <1>7, <2>2, Zenon
  <2> QED  BY <1>2, <2>4, <2>5, Zenon DEF NoRaw
<1> QED  BY <1>5, <1>6, <1>7, Zenon DEF JobEnds

(* The handlers mask what they hand out.                                   *)
LEMMA ResultStep ==
  ASSUME ReadInv, NEW j \in ReadJobs, NEW format \in Formats,
         GetResults(j) \/ GetExport(j, format) \/ CompareFirst(j) \/ CompareSecond(j)
  PROVE  ReadInv'
<1> USE DEF ReadInv
<1>0. UNCHANGED <<jobs, rows, config>> /\ jobs[j].result \in Envelopes
  BY Zenon DEF GetResults, GetExport, CompareFirst, CompareSecond, JobHashes
<1>1. CASE GetResults(j)
  <2> DEFINE out == IF config.mask THEN Mask(jobs[j].result) ELSE jobs[j].result
  <2>1. Give(404, {}) \/ Give(202, {}) \/ Give(500, {}) \/ Give(200, out.has)
    BY <1>1 DEF GetResults
  <2>2. config.mask => NoRaw(out.has)
    BY <1>0, MaskedResult, Zenon
  <2> HIDE DEF out
  <2>3. RawNeedsOptOut'
    BY <1>0, <2>1, <2>2, GiveSafe, NothingIsRaw, Zenon
  <2> QED  BY <1>0, <2>3, Zenon DEF NoRaw
<1>2. CASE GetExport(j, format)
  <2>1. \E code, body : Give(code, body) /\ (config.mask => NoRaw(body))
    <3> DEFINE result == jobs[j].result
    <3>1. CASE ExportSARIF(result)
      BY <3>1, Masked, NothingIsRaw DEF ExportSARIF
    <3>2. CASE ExportResult(MaskForExport(result), format)
      <4>1. \E code, body : Give(code, body) /\ (body = {} \/ (body = MaskForExport(result).has
                                                   /\ MaskForExport(result).is = "findings"))
        BY <3>2 DEF ExportResult, exportJSON, exportCSV, exportPDF, exportCycloneDX
      <4>2. config.mask /\ MaskForExport(result).is = "findings" => MaskForExport(result) = Mask(result)
        BY Zenon DEF MaskForExport
      <4>3. config.mask /\ MaskForExport(result).is = "findings" => NoRaw(MaskForExport(result).has)
        BY <1>0, <4>2, MaskedResult, Zenon
      <4> QED  BY <4>1, <4>3, NothingIsRaw, Zenon
    <3>3. CASE Give(404, {}) \/ Give(400, {})
      BY <3>3, NothingIsRaw
    <3>4. \/ ExportSARIF(result) \/ ExportResult(MaskForExport(result), format)
          \/ Give(404, {}) \/ Give(400, {})
      BY <1>2, Zenon DEF GetExport
    <3> QED  BY <3>1, <3>2, <3>3, <3>4, Zenon
  <2>2. RawNeedsOptOut'
    BY <1>0, <2>1, GiveSafe, Zenon
  <2> QED  BY <1>0, <2>2, Zenon DEF NoRaw
<1>3. CASE CompareFirst(j)
  <2>0. Give(404, {}) \/ reply' = NoReply
    BY <1>3, Zenon DEF CompareFirst
  <2>1. RawNeedsOptOut'
    BY <1>0, <2>0, GiveSafe, NothingIsRaw, Zenon
  <2> QED  BY <1>0, <2>1, Zenon DEF NoRaw
<1>4. CASE CompareSecond(j)
  <2> DEFINE diff == CompareScans(compare.first.has, jobs[j].result.has)
             out == IF config.mask THEN MaskComparison(diff)
                    ELSE diff.added \cup diff.removed \cup diff.unchanged
  <2>1. Give(404, {}) \/ Give(400, {}) \/ Give(500, {}) \/ Give(200, out)
    BY <1>4, Zenon DEF CompareSecond
  <2>2. NoRaw(MaskComparison(diff))
    BY Masked, Zenon DEF MaskComparison, NoRaw
  <2>3. config.mask => NoRaw(out)
    BY <2>2, Zenon
  <2> HIDE DEF out
  <2>4. RawNeedsOptOut'
    BY <1>0, <2>1, <2>3, GiveSafe, NothingIsRaw, Zenon
  <2> QED  BY <1>0, <2>4, Zenon DEF NoRaw
<1> QED  BY <1>1, <1>2, <1>3, <1>4, Zenon


(* The stored rows, the MCP tools and a restart show nothing in the clear. *)
LEMMA OtherReads == ASSUME ReadInv, Reconfigure \/ GetSecrets \/ ToolStep PROVE ReadInv'
<1> USE DEF ReadInv
<1>0. UNCHANGED <<jobs, rows>>
  BY Zenon DEF Reconfigure, GetSecrets, ToolStep, ScanFileTool, VerifySecretTool, GetResultsTool
<1>1. RawNeedsOptOut'
  <2>1. CASE Reconfigure
    BY <2>1, Zenon DEF Reconfigure, RawNeedsOptOut, NoReply
  <2>2. CASE GetSecrets
    <3>1. \E code, body : Give(code, body) /\ NoRaw(body) /\ UNCHANGED config
      BY <2>2, NothingIsRaw DEF GetSecrets, querySecrets, convertSecretToOldFormat, NoRaw
    <3> QED  BY <3>1, GiveSafe, Zenon
  <2>3. CASE ToolStep
    <3>1. \E ok, body : Tell(ok, body) /\ NoRaw(body)
      <4>1. CASE ScanFileTool
        BY <4>1, Masked, NothingIsRaw, Zenon DEF ScanFileTool, renderFindings
      <4>2. CASE VerifySecretTool
        BY <4>2, NothingIsRaw, Zenon DEF VerifySecretTool
      <4>3. CASE GetResultsTool
        <5>1. PICK file \in Results, format \in {"json", "sarif", "other"} :
                Tell(FALSE, {}) \/ handleJSONResults(file) \/ handleSARIFResults(file)
          BY <4>3, Zenon DEF GetResultsTool
        <5>2. file \in Envelopes
          BY DEF Results, Envelopes, Shown
        <5>3. NoRaw(Mask(file).has)
          BY <5>2, MaskedResult, Zenon
        <5> QED  BY <5>1, <5>3, NothingIsRaw, Zenon DEF handleJSONResults, handleSARIFResults
      <4> QED  BY <2>3, <4>1, <4>2, <4>3, Zenon DEF ToolStep
    <3> QED  BY <3>1, TellSafe, Zenon
  <2> QED  BY <2>1, <2>2, <2>3, Zenon
<1> QED  BY <1>0, <1>1, Zenon DEF NoRaw

(* No step makes a reply that shows a value without an opt-in (GET         *)
(* /results, /export, /compare, /secrets and the MCP tools).               *)
LEMMA ReadSafe == ASSUME ReadInv, [ReadNext]_<<readVars, healthVars>> PROVE ReadInv'
<1>1. CASE UNCHANGED readVars
  BY <1>1, Zenon DEF readVars, ReadInv, RawNeedsOptOut, NoRaw
<1>2. CASE HealthStep
  <2>1. UNCHANGED readVars
    BY <1>2, Zenon DEF HealthStep, ToolsChange, ReadTick, ToolsHit, ToolsMiss, ToolsCheck, ToolsStore
  <2> QED  BY <1>1, <2>1, Zenon
<1>3. CASE ReadStep
  <2>1. ASSUME NEW j \in ReadJobs, GetResults(j) \/ CompareFirst(j) \/ CompareSecond(j) PROVE ReadInv'
    <3>1. "json" \in Formats
      BY Zenon DEF Formats
    <3> QED  BY <2>1, <3>1, ResultStep, Zenon
  <2> QED  BY <1>3, <2>1, JobStep, ResultStep, OtherReads, Zenon DEF ReadStep
<1> QED  BY <1>1, <1>2, <1>3, Zenon DEF ReadNext

-----------------------------------------------------------------------------
ProbeStages == {"idle", "checking", "checked", "answered"}
ProbeStates == [pc : ProbeStages, ok : BOOLEAN, since : Nat, age : Int]

HealthShape ==
  /\ ticks \in Nat /\ lastGood \in Nat /\ tools \in BOOLEAN
  /\ toolsCache \in [is : {"empty", "full"}, ok : BOOLEAN, at : Nat]
  /\ probe \in [Probes -> ProbeStates]

(* A finding that the tools work is at most one check old when it is       *)
(* stored.                                                                 *)
HealthTimes ==
  /\ lastGood <= ticks /\ (tools => lastGood = ticks)
  /\ toolsCache.is = "full" => toolsCache.at <= ticks
  /\ toolsCache.is = "full" /\ toolsCache.ok => toolsCache.at <= lastGood + CheckTime
  /\ \A p \in Probes : probe[p].pc \in {"checking", "checked"} =>
       probe[p].since <= ticks /\ ticks <= probe[p].since + CheckTime
  /\ \A p \in Probes : probe[p].pc = "checked" /\ probe[p].ok => probe[p].since <= lastGood

HealthInv == HealthShape /\ HealthTimes /\ ToolsHealthFresh

(* One probe changes its state.                                            *)
LEMMA OneProbe ==
  ASSUME HealthShape, NEW p \in Probes, NEW c \in ProbeStates, probe' = [probe EXCEPT ![p] = c]
  PROVE  /\ probe' \in [Probes -> ProbeStates] /\ probe'[p] = c
         /\ \A q \in Probes : q # p => probe'[q] = probe[q]
BY Zenon DEF HealthShape

(* An answer that all is well is given while the finding is fresh.         *)
LEMMA AnswerStep ==
  ASSUME HealthInv, NEW p \in Probes, NEW toolsOk \in BOOLEAN, Health(p, toolsOk),
         toolsOk => ticks <= lastGood + ToolsTTL + CheckTime,
         UNCHANGED <<tools, lastGood, ticks>>
  PROVE  /\ probe' \in [Probes -> ProbeStates] /\ probe'[p].pc = "answered"
         /\ \A q \in Probes : q # p => probe'[q] = probe[q]
         /\ ToolsHealthFresh'
<1> USE DEF HealthInv
<1>1. PICK others \in BOOLEAN :
        probe' = [probe EXCEPT ![p] = [pc |-> "answered", ok |-> toolsOk /\ others, since |-> 0,
                                       age |-> IF toolsOk /\ others THEN ticks - lastGood ELSE 0]]
  BY Zenon DEF Health
<1> DEFINE ok == toolsOk /\ others
           age == IF ok THEN ticks - lastGood ELSE 0
           c == [pc |-> "answered", ok |-> ok, since |-> 0, age |-> age]
<1>2. ok \in BOOLEAN /\ (ok => toolsOk)
  BY Zenon
<1>3. age \in Int /\ (ok => age <= ToolsTTL + CheckTime)
  <2>1. ticks \in Nat /\ lastGood \in Nat /\ ToolsTTL \in Nat /\ CheckTime \in Nat
    BY ReadAssumption, Zenon DEF HealthShape
  <2> QED  BY <1>2, <2>1
<1>4. probe' = [probe EXCEPT ![p] = c]
  BY <1>1, Zenon
<1> HIDE DEF ok, age
<1>5. c \in ProbeStates /\ c.pc = "answered" /\ c.ok = ok /\ c.age = age
  BY <1>2, <1>3, Zenon DEF ProbeStates, ProbeStages
<1> HIDE DEF c
<1>6. /\ probe' \in [Probes -> ProbeStates] /\ probe'[p] = c
      /\ \A q \in Probes : q # p => probe'[q] = probe[q]
  BY <1>4, <1>5, OneProbe, Zenon
<1> QED  BY <1>3, <1>5, <1>6, Zenon DEF ToolsHealthFresh

(* No step keeps a healthy answer beyond its TTL and a check               *)
(* (checkExternalToolsHealth).                                             *)
LEMMA HealthSafe == ASSUME HealthInv, [ReadNext]_<<readVars, healthVars>> PROVE HealthInv'
<1> USE DEF HealthInv
<1>0. ToolsTTL \in Nat /\ CheckTime \in Nat /\ ticks \in Nat /\ lastGood \in Nat /\ toolsCache.at \in Nat
  BY ReadAssumption, Zenon DEF HealthShape
<1>1. ASSUME UNCHANGED healthVars PROVE HealthInv'
  BY <1>1, Zenon DEF healthVars, HealthShape, HealthTimes, ToolsHealthFresh
<1>2. CASE Reconfigure
  <2>1. NoProbe \in ProbeStates /\ NoProbe.pc = "idle"
    BY DEF NoProbe, ProbeStates, ProbeStages
  <2>2. NoHealth \in [is : {"empty", "full"}, ok : BOOLEAN, at : Nat] /\ NoHealth.is = "empty"
    BY Zenon DEF NoHealth
  <2>3. /\ probe' \in [Probes -> ProbeStates] /\ \A p \in Probes : probe'[p].pc = "idle"
        /\ toolsCache' = NoHealth /\ UNCHANGED <<tools, lastGood, ticks>>
    BY <1>2, <2>1, Zenon DEF Reconfigure
  <2>4. HealthShape'
    BY <2>2, <2>3, Zenon DEF HealthShape
  <2> QED  BY <2>2, <2>3, <2>4, Zenon DEF HealthTimes, ToolsHealthFresh
<1>3. CASE ToolsChange
  <2>1. HealthShape'
    <3>1. (~tools) \in BOOLEAN
      BY Zenon
    <3> QED  BY <1>0, <1>3, <3>1, Zenon DEF ToolsChange, HealthShape
  <2>2. lastGood' = ticks /\ UNCHANGED <<toolsCache, probe, ticks>>
    BY <1>3, Zenon DEF ToolsChange
  <2>3. HealthTimes'
    <3>1. \A p \in Probes : probe[p].since \in Nat
      BY Zenon DEF HealthShape, ProbeStates
    <3> QED  BY <1>0, <2>2, <3>1 DEF HealthTimes
  <2> QED  BY <2>1, <2>2, <2>3, Zenon DEF ToolsHealthFresh
<1>4. CASE ReadTick
  <2>1. /\ ticks' = ticks + 1 /\ UNCHANGED <<tools, toolsCache>>
        /\ lastGood' = IF tools THEN ticks + 1 ELSE lastGood
        /\ \A p \in Probes : probe[p].pc \in {"checking", "checked"} => ticks - probe[p].since < CheckTime
        /\ probe' = [p \in Probes |-> IF probe[p].pc = "answered" THEN NoProbe ELSE probe[p]]
    BY <1>4, Zenon DEF ReadTick
  <2>2. NoProbe \in ProbeStates /\ NoProbe.pc = "idle"
    BY DEF NoProbe, ProbeStates, ProbeStages
  <2>3. /\ probe' \in [Probes -> ProbeStates]
        /\ \A p \in Probes : (probe'[p] = probe[p] /\ probe[p].pc # "answered") \/ probe'[p].pc = "idle"
    BY <2>1, <2>2, Zenon DEF HealthShape
  <2>4. lastGood' \in Nat /\ lastGood' >= lastGood /\ lastGood' <= ticks + 1 /\ (tools => lastGood' = ticks + 1)
    BY <1>0, <2>1 DEF HealthTimes
  <2>5. HealthShape'
    BY <1>0, <2>1, <2>3, <2>4 DEF HealthShape
  <2>6. \A p \in Probes : probe[p].since \in Nat
    BY Zenon DEF HealthShape, ProbeStates
  <2>7. HealthTimes'
    BY <1>0, <2>1, <2>3, <2>4, <2>6 DEF HealthTimes
  <2>8. ToolsHealthFresh'
    BY <2>3, Zenon DEF ToolsHealthFresh
  <2> QED  BY <2>5, <2>7, <2>8, Zenon
<1>5. ASSUME NEW p \in Probes, ToolsHit(p) PROVE HealthInv'
  <2>1. UNCHANGED <<tools, lastGood, toolsCache, ticks>> /\ Health(p, toolsCache.ok)
        /\ toolsCache.is = "full" /\ ticks - toolsCache.at < ToolsTTL
    BY <1>5, Zenon DEF ToolsHit
  <2>2. toolsCache.ok \in BOOLEAN
    BY Zenon DEF HealthShape
  <2>3. toolsCache.ok => ticks <= lastGood + ToolsTTL + CheckTime
    BY <1>0, <2>1 DEF HealthTimes
  <2>4. /\ probe' \in [Probes -> ProbeStates] /\ probe'[p].pc = "answered"
        /\ \A q \in Probes : q # p => probe'[q] = probe[q]
        /\ ToolsHealthFresh'
    BY <2>1, <2>2, <2>3, AnswerStep, Zenon
  <2>5. HealthShape'
    BY <2>1, <2>4, Zenon DEF HealthShape
  <2>6. HealthTimes'
    BY <2>1, <2>4, Zenon DEF HealthTimes
  <2> QED  BY <2>4, <2>5, <2>6, Zenon
<1>6. ASSUME NEW p \in Probes, ToolsMiss(p) PROVE HealthInv'
  <2> DEFINE c == [NoProbe EXCEPT !.pc = "checking", !.since = ticks]
  <2>1. c \in ProbeStates /\ c.pc = "checking" /\ c.since = ticks
    <3>1. NoProbe \in ProbeStates
      BY DEF NoProbe, ProbeStates, ProbeStages
    <3> QED  BY <1>0, <3>1, Zenon DEF ProbeStates, ProbeStages
  <2>2. UNCHANGED <<tools, lastGood, toolsCache, ticks>> /\ probe' = [probe EXCEPT ![p] = c]
    BY <1>6, Zenon DEF ToolsMiss
  <2> HIDE DEF c
  <2>3. /\ probe' \in [Probes -> ProbeStates] /\ probe'[p] = c
        /\ \A q \in Probes : q # p => probe'[q] = probe[q]
    BY <2>1, <2>2, OneProbe, Zenon
  <2>4. HealthShape'
    BY <2>2, <2>3, Zenon DEF HealthShape
  <2>5. HealthTimes' /\ ToolsHealthFresh'
    BY <1>0, <2>1, <2>2, <2>3 DEF HealthTimes, ToolsHealthFresh
  <2> QED  BY <2>4, <2>5, Zenon
<1>7. ASSUME NEW p \in Probes, ToolsCheck(p) PROVE HealthInv'
  <2> DEFINE c == [probe[p] EXCEPT !.pc = "checked", !.ok = tools]
  <2>1. c \in ProbeStates /\ c.pc = "checked" /\ c.since = probe[p].since /\ c.ok = tools
    BY Zenon DEF ProbeStates, ProbeStages, HealthShape
  <2>2. UNCHANGED <<tools, lastGood, toolsCache, ticks>> /\ probe' = [probe EXCEPT ![p] = c]
        /\ probe[p].pc = "checking"
    BY <1>7, Zenon DEF ToolsCheck, HealthShape
  <2> HIDE DEF c
  <2>3. /\ probe' \in [Probes -> ProbeStates] /\ probe'[p] = c
        /\ \A q \in Probes : q # p => probe'[q] = probe[q]
    BY <2>1, <2>2, OneProbe, Zenon
  <2>4. HealthShape'
    BY <2>2, <2>3, Zenon DEF HealthShape
  <2>5. HealthTimes'
    BY <1>0, <2>1, <2>2, <2>3 DEF HealthTimes
  <2>6. ToolsHealthFresh'
    BY <2>1, <2>3, Zenon DEF ToolsHealthFresh
  <2> QED  BY <2>4, <2>5, <2>6, Zenon
<1>8. ASSUME NEW p \in Probes, ToolsStore(p) PROVE HealthInv'
  <2>1. /\ UNCHANGED <<tools, lastGood, ticks>> /\ Health(p, probe[p].ok) /\ probe[p].pc = "checked"
        /\ toolsCache' = [is |-> "full", ok |-> probe[p].ok, at |-> ticks]
    BY <1>8, Zenon DEF ToolsStore
  <2>2. probe[p].ok \in BOOLEAN /\ probe[p].since \in Nat
    BY Zenon DEF HealthShape, ProbeStates
  <2>3. probe[p].ok => ticks <= lastGood + CheckTime
    BY <1>0, <2>1, <2>2 DEF HealthTimes
  <2>4. /\ probe' \in [Probes -> ProbeStates] /\ probe'[p].pc = "answered"
        /\ \A q \in Probes : q # p => probe'[q] = probe[q]
        /\ ToolsHealthFresh'
    BY <1>0, <2>1, <2>2, <2>3, AnswerStep
  <2>5. /\ toolsCache' \in [is : {"empty", "full"}, ok : BOOLEAN, at : Nat]
        /\ toolsCache'.at = ticks /\ toolsCache'.ok = probe[p].ok
    BY <1>0, <2>1, <2>2, Zenon
  <2>6. HealthShape'
    BY <2>1, <2>4, <2>5, Zenon DEF HealthShape
  <2>7. HealthTimes'
    BY <1>0, <2>1, <2>3, <2>4, <2>5 DEF HealthTimes
  <2> QED  BY <2>4, <2>6, <2>7, Zenon
<1>9. ASSUME ReadStep, ~Reconfigure PROVE UNCHANGED healthVars
  BY <1>9, Zenon DEF ReadStep, JobEnds, JobExpires, GetResults, GetExport, CompareFirst, CompareSecond,
              GetSecrets, ToolStep, ScanFileTool, VerifySecretTool, GetResultsTool
<1> QED  BY <1>1, <1>2, <1>3, <1>4, <1>5, <1>6, <1>7, <1>8, <1>9, Zenon DEF ReadNext, HealthStep

(* No reply shows a secret value in the clear unless the operator opted    *)
(* in, and none to a model ever does, for any jobs, values and formats     *)
(* (MaskResultJSON, MaskComparisonJSON, renderFindings).                   *)
THEOREM ValuesAreMasked == ReadSpec => []RawNeedsOptOut
<1>1. ReadInit => ReadInv
  BY DEF ReadInit, ReadInv, JobHashes, Envelopes, NoResult, NoRaw, RawNeedsOptOut, NoReply
<1>2. ReadInv /\ [ReadNext]_<<readVars, healthVars>> => ReadInv'
  BY ReadSafe
<1>3. ReadInv => RawNeedsOptOut
  BY DEF ReadInv
<1> QED  BY <1>1, <1>2, <1>3, PTL DEF ReadSpec

(* A healthy answer is at most one TTL and one check old, for any number   *)
(* of concurrent probes (checkExternalToolsHealth).                        *)
THEOREM HealthIsFresh == ReadSpec => []ToolsHealthFresh
<1>1. ReadInit => HealthInv
  BY ReadAssumption
  DEF ReadInit, HealthInv, HealthShape, HealthTimes, ToolsHealthFresh, NoProbe, NoHealth,
      ProbeStates, ProbeStages
<1>2. HealthInv /\ [ReadNext]_<<readVars, healthVars>> => HealthInv'
  BY HealthSafe
<1>3. HealthInv => ToolsHealthFresh
  BY DEF HealthInv
<1> QED  BY <1>1, <1>2, <1>3, PTL DEF ReadSpec
-----------------------------------------------------------------------------
(* Detection.  The lists the loops build hold what was appended, in order; *)
(* from that the group map names a rule at each of its groups, and every   *)
(* span a Go rule matches survives, or is dropped by its tier.             *)

(* The equation of Appended, for the first n lists.                        *)
AppendEq(g, ss, n) == g = [k \in 0..n |-> IF k = 0 THEN << >> ELSE g[k - 1] \o ss[k]]

(* It has a solution: n lists appended, and one more.                      *)
LEMMA AppendSolvable == ASSUME NEW ss, NEW N \in Nat PROVE \E g : AppendEq(g, ss, N)
<1> DEFINE G == {n \in Nat : \E g : AppendEq(g, ss, n)}
<1>1. 0 \in G
  <2>1. \A k \in 0..0 : k = 0
    OBVIOUS
  <2>2. AppendEq([k \in 0..0 |-> << >>], ss, 0)
    BY <2>1, Zenon DEF AppendEq
  <2> QED  BY <2>2, Zenon
<1>2. ASSUME NEW n \in Nat, n \in G PROVE n + 1 \in G
  <2>1. PICK g : AppendEq(g, ss, n)
    BY <1>2, Zenon
  <2> DEFINE h == [k \in 0..n + 1 |-> IF k = 0 THEN << >> ELSE g[k - 1] \o ss[k]]
  <2>2. \A k \in 0..n : g[k] = IF k = 0 THEN << >> ELSE g[k - 1] \o ss[k]
    BY <2>1, Zenon DEF AppendEq
  <2>3. \A k \in 0..n : k \in 0..n + 1
    OBVIOUS
  <2>4. \A k \in 0..n : h[k] = g[k]
    BY <2>2, <2>3, Zenon
  <2>5. \A k \in 0..n + 1 : k # 0 => k - 1 \in 0..n
    OBVIOUS
  <2>6. \A k \in 0..n + 1 : h[k] = IF k = 0 THEN << >> ELSE h[k - 1] \o ss[k]
    BY <2>4, <2>5, Zenon
  <2>7. AppendEq(h, ss, n + 1)
    BY <2>6, Zenon DEF AppendEq
  <2> HIDE DEF h
  <2> QED  BY <2>7
<1> HIDE DEF G
<1>3. Nat \subseteq G
  BY <1>1, <1>2, NatSetInduction, Zenon
<1> QED  BY <1>3, Zenon DEF G

(* Appended is the last value of the solution.                             *)
LEMMA AppendedIsSolution ==
  ASSUME NEW ss, Len(ss) \in Nat
  PROVE  \E g : AppendEq(g, ss, Len(ss)) /\ Appended(ss) = g[Len(ss)]
<1> DEFINE g == CHOOSE h : AppendEq(h, ss, Len(ss))
<1>1. AppendEq(g, ss, Len(ss))
  BY AppendSolvable, Zenon
<1>2. Appended(ss) = g[Len(ss)]
  BY Zenon DEF Appended, AppendEq
<1> QED  BY <1>1, <1>2, Zenon

(* r is the first n lists one after the other, off[k] being the length of  *)
(* the first k of them.                                                    *)
Joined(r, ss, n, off) ==
  /\ Len(r) = off[n]
  /\ \A k \in 1..n : /\ off[k] = off[k-1] + Len(ss[k])
                     /\ \A j \in 1..Len(ss[k]) : off[k-1] + j \in 1..Len(r)
                                                 /\ r[off[k-1] + j] = ss[k][j]
  /\ \A m \in 1..Len(r) : \E k \in 1..n : \E j \in 1..Len(ss[k]) : m = off[k-1] + j

(* One more list: what was there stays, and the list follows.              *)
LEMMA JoinOne ==
  ASSUME NEW S, NEW ss \in Seq(Seq(S)), NEW off, NEW n \in Nat, n + 1 \in 1..Len(ss),
         NEW a \in Seq(S), NEW c, c = a \o ss[n + 1], off[n + 1] = Len(c),
         Joined(a, ss, n, off)
  PROVE  Joined(c, ss, n + 1, off)
<1> DEFINE b == ss[n + 1]
<1>1. b \in Seq(S) /\ Len(a) \in Nat /\ Len(b) \in Nat /\ off[n] = Len(a) /\ c = a \o b
  BY DEF Joined
<1> HIDE DEF b
<1>2. Len(c) = off[n] + Len(b)
  BY <1>1
<1>3. /\ \A m \in 1..Len(a) : m \in 1..Len(c) /\ c[m] = a[m]
      /\ \A j \in 1..Len(b) : off[n] + j \in 1..Len(c) /\ c[off[n] + j] = b[j]
  BY <1>1, <1>2
<1>4. ASSUME NEW m \in 1..Len(c), m \notin 1..Len(a) PROVE \E j \in 1..Len(b) : m = off[n] + j
  <2>1. m - off[n] \in 1..Len(b) /\ m = off[n] + (m - off[n])
    BY <1>1, <1>2, <1>4
  <2> QED  BY <2>1, Zenon
<1>5. (n + 1) - 1 = n /\ n + 1 \in 1..(n + 1) /\ \A k \in 1..n : k \in 1..(n + 1)
  OBVIOUS
<1>6. \A k \in 1..(n + 1) : k \in 1..n \/ k = n + 1
  OBVIOUS
<1>7. ASSUME NEW k \in 1..(n + 1)
      PROVE  /\ off[k-1] + Len(ss[k]) = off[k]
             /\ \A j \in 1..Len(ss[k]) : off[k-1] + j \in 1..Len(c) /\ c[off[k-1] + j] = ss[k][j]
  <2>1. CASE k \in 1..n
    BY <1>3, <2>1, Zenon DEF Joined
  <2>2. CASE k = n + 1
    BY <1>2, <1>3, <1>5, <2>2, Zenon DEF b
  <2> QED  BY <1>6, <2>1, <2>2, Zenon
<1>8. ASSUME NEW m \in 1..Len(c)
      PROVE  \E k \in 1..(n + 1) : \E j \in 1..Len(ss[k]) : m = off[k-1] + j
  <2>1. CASE m \in 1..Len(a)
    BY <1>5, <2>1, Zenon DEF Joined
  <2>2. CASE \E j \in 1..Len(b) : m = off[n] + j
    BY <1>5, <2>2, Zenon DEF b
  <2> QED  BY <1>4, <2>1, <2>2, Zenon
<1> QED  BY <1>7, <1>8, Zenon DEF Joined

(* Appended puts the lists one after the other, whatever they are.         *)
LEMMA AppendedJoins ==
  ASSUME NEW S, NEW ss \in Seq(Seq(S))
  PROVE  /\ Appended(ss) \in Seq(S) /\ Len(ss) \in Nat
         /\ \E off \in [0..Len(ss) -> Nat] : off[0] = 0 /\ Joined(Appended(ss), ss, Len(ss), off)
<1>1. Len(ss) \in Nat /\ \A k \in 1..Len(ss) : ss[k] \in Seq(S)
  OBVIOUS
<1>2. PICK g : AppendEq(g, ss, Len(ss)) /\ Appended(ss) = g[Len(ss)]
  BY <1>1, AppendedIsSolution, Zenon
<1> DEFINE N == Len(ss)
           off == [k \in 0..N |-> Len(g[k])]
           G == {n \in Nat : n \in 0..N => g[n] \in Seq(S) /\ Joined(g[n], ss, n, off)}
<1>3. \A k \in 0..N : off[k] = Len(g[k]) /\ g[k] = IF k = 0 THEN << >> ELSE g[k - 1] \o ss[k]
  BY <1>2, Zenon DEF AppendEq
<1>4. 0 \in 0..N /\ N \in 0..N
  BY <1>1
<1> HIDE DEF off
<1>5. g[0] = << >> /\ off[0] = 0
  <2>1. g[0] = << >> /\ off[0] = Len(g[0])
    BY <1>3, <1>4, Zenon
  <2> QED  BY <2>1, Zenon
<1>6. 0 \in G
  <2>1. << >> \in Seq(S) /\ Len(<< >>) = 0 /\ 1..0 = {}
    OBVIOUS
  <2> QED  BY <1>5, <2>1, Zenon DEF Joined
<1>7. ASSUME NEW n \in Nat, n \in G PROVE n + 1 \in G
  <2> SUFFICES ASSUME n + 1 \in 0..N PROVE g[n + 1] \in Seq(S) /\ Joined(g[n + 1], ss, n + 1, off)
    OBVIOUS
  <2>1. n \in 0..N /\ n + 1 \in 1..N /\ n + 1 # 0 /\ (n + 1) - 1 = n
    BY <1>1
  <2>2. g[n] \in Seq(S) /\ Joined(g[n], ss, n, off)
    BY <1>7, <2>1, Zenon
  <2>3. g[n + 1] = g[n] \o ss[n + 1] /\ off[n + 1] = Len(g[n + 1])
    BY <1>3, <2>1, Zenon
  <2>4. g[n + 1] \in Seq(S)
    BY <1>1, <2>1, <2>2, <2>3
  <2> QED  BY <2>1, <2>2, <2>3, <2>4, JoinOne, Zenon
<1> HIDE DEF G
<1>8. Nat \subseteq G
  BY <1>6, <1>7, NatSetInduction, Zenon
<1>9. \A n \in 0..N : g[n] \in Seq(S) /\ Joined(g[n], ss, n, off)
  <2>1. \A n \in 0..N : n \in Nat
    BY <1>1
  <2> QED  BY <1>8, <2>1, Zenon DEF G
<1>10. off \in [0..N -> Nat]
  <2>1. \A n \in 0..N : Len(g[n]) \in Nat
    BY <1>9
  <2> QED  BY <2>1, Zenon DEF off
<1> QED  BY <1>1, <1>2, <1>4, <1>5, <1>9, <1>10, Zenon

(* What Appended returns has the entries of its sequences and no others. *)
LEMMA AppendedEntries ==
  ASSUME NEW S, NEW ss \in Seq(Seq(S)), NEW r, r = Appended(ss)
  PROVE  /\ r \in Seq(S)
         /\ \A m \in DOMAIN r : \E k \in DOMAIN ss : \E j \in DOMAIN ss[k] : r[m] = ss[k][j]
         /\ \A k \in DOMAIN ss : \A j \in DOMAIN ss[k] : \E m \in DOMAIN r : r[m] = ss[k][j]
<1>1. r \in Seq(S) /\ \E off : Joined(r, ss, Len(ss), off)
  BY AppendedJoins, Zenon
<1>2. PICK off : Joined(r, ss, Len(ss), off)
  BY <1>1, Zenon
<1>3. /\ DOMAIN r = 1..Len(r) /\ DOMAIN ss = 1..Len(ss)
      /\ \A k \in 1..Len(ss) : DOMAIN ss[k] = 1..Len(ss[k])
  BY <1>1
<1>4. ASSUME NEW m \in DOMAIN r
      PROVE  \E k \in DOMAIN ss : \E j \in DOMAIN ss[k] : r[m] = ss[k][j]
  <2>0. \A i \in 1..Len(r) : \E k \in 1..Len(ss) : \E j \in 1..Len(ss[k]) : i = off[k-1] + j
    BY <1>2, Zenon DEF Joined
  <2>1. PICK k \in 1..Len(ss) : \E j \in 1..Len(ss[k]) : m = off[k-1] + j
    BY <1>3, <2>0, Zenon
  <2>2. PICK j \in 1..Len(ss[k]) : m = off[k-1] + j
    BY <2>1, Zenon
  <2>3. r[m] = ss[k][j]
    BY <1>2, <2>2, Zenon DEF Joined
  <2>4. k \in DOMAIN ss /\ j \in DOMAIN ss[k]
    BY <1>3, <2>2, Zenon
  <2> QED  BY <2>3, <2>4, Zenon
<1>5. ASSUME NEW k \in DOMAIN ss, NEW j \in DOMAIN ss[k]
      PROVE  \E m \in DOMAIN r : r[m] = ss[k][j]
  <2>1. k \in 1..Len(ss) /\ j \in 1..Len(ss[k])
    BY <1>3, Zenon
  <2>2. off[k-1] + j \in DOMAIN r /\ r[off[k-1] + j] = ss[k][j]
    BY <1>2, <1>3, <2>1, Zenon DEF Joined
  <2> QED  BY <2>2, Zenon
<1> QED  BY <1>1, <1>4, <1>5, Zenon

(* r has the entries of a list at the given places, each place once.       *)
Kept(r, list, places) ==
  /\ \E f \in [DOMAIN r -> places] : /\ \A i \in DOMAIN r : r[i] = list[f[i]]
                                     /\ \A i, n \in DOMAIN r : f[i] = f[n] => i = n
  /\ \A k \in places : \E i \in DOMAIN r : r[i] = list[k]

(* Keep keeps what is at the places, each once.                            *)
LEMMA KeepShape ==
  ASSUME NEW S, NEW list \in Seq(S), NEW places \in SUBSET DOMAIN list
  PROVE  Keep(list, places) \in Seq(S) /\ Kept(Keep(list, places), list, places)
<1> DEFINE r == Keep(list, places)
           ss == [k \in DOMAIN list |-> IF k \in places THEN <<list[k]>> ELSE << >>]
<1>1. DOMAIN list = 1..Len(list) /\ Len(list) \in Nat /\ \A k \in DOMAIN list : list[k] \in S
  OBVIOUS
<1>2. ss \in Seq(Seq(S)) /\ Len(ss) = Len(list)
  BY <1>1
<1>3. \A k \in 1..Len(list) : /\ k \in places => Len(ss[k]) = 1 /\ ss[k][1] = list[k]
                              /\ k \notin places => Len(ss[k]) = 0
  BY <1>1, Zenon
<1>4. r = Appended(ss)
  BY Zenon DEF Keep
<1> HIDE DEF r, ss
<1>5. r \in Seq(S) /\ \E off : Joined(r, ss, Len(ss), off)
  BY <1>2, <1>4, AppendedJoins, Zenon
<1>6. PICK off : Joined(r, ss, Len(ss), off)
  BY <1>5, Zenon
<1>7. DOMAIN r = 1..Len(r)
  BY <1>5
<1>8. ASSUME NEW m \in DOMAIN r PROVE \E k \in places : m = off[k-1] + 1
  <2>0. \A i \in 1..Len(r) : \E k \in 1..Len(ss) : \E j \in 1..Len(ss[k]) : i = off[k-1] + j
    BY <1>6, Zenon DEF Joined
  <2>1. PICK k \in 1..Len(ss) : \E j \in 1..Len(ss[k]) : m = off[k-1] + j
    BY <1>7, <2>0, Zenon
  <2>2. PICK j \in 1..Len(ss[k]) : m = off[k-1] + j
    BY <2>1, Zenon
  <2>3. k \in places /\ j = 1
    <3>1. k \in 1..Len(list)
      BY <1>2, Zenon
    <3>2. CASE k \in places
      <4>1. Len(ss[k]) = 1
        BY <1>3, <3>1, <3>2, Zenon
      <4> QED  BY <3>2, <4>1
    <3>3. CASE k \notin places
      <4>1. Len(ss[k]) = 0
        BY <1>3, <3>1, <3>3, Zenon
      <4> QED  BY <4>1
    <3> QED  BY <3>2, <3>3, Zenon
  <2> QED  BY <2>2, <2>3, Zenon
<1>9. ASSUME NEW k \in places PROVE off[k-1] + 1 \in DOMAIN r /\ r[off[k-1] + 1] = list[k]
  <2>1. k \in 1..Len(ss) /\ k \in 1..Len(list)
    BY <1>1, <1>2, Zenon
  <2>2. 1 \in 1..Len(ss[k]) /\ ss[k][1] = list[k]
    BY <1>3, <2>1
  <2> QED  BY <1>6, <1>7, <2>1, <2>2, Zenon DEF Joined
<1> DEFINE f == [m \in DOMAIN r |-> CHOOSE k \in places : m = off[k-1] + 1]
<1>10. \A m \in DOMAIN r : f[m] \in places /\ m = off[f[m]-1] + 1
  BY <1>8, Zenon
<1>11. f \in [DOMAIN r -> places]
  BY <1>10, Zenon
<1> HIDE DEF f
<1>12. \A m \in DOMAIN r : r[m] = list[f[m]]
  BY <1>9, <1>10, Zenon
<1>13. \A m, n \in DOMAIN r : f[m] = f[n] => m = n
  BY <1>10, Zenon
<1> QED  BY <1>5, <1>9, <1>10, <1>11, <1>12, <1>13, Zenon DEF r, Kept

RuleShape    == [re2 : BOOLEAN, subs : 0..MaxSubexp]
FindingShape == [rule : Rules \cup {Unattributed}, value : SpanValues \cup {"plain"}]

(* The rules are a list, and 0 is none of them.                            *)
LEMMA RulesAreListed ==
  /\ Rules = 1..Len(RuleKinds) /\ Len(RuleKinds) \in Nat /\ Unattributed \notin Rules
  /\ rules \in [Rules -> RuleShape] =>
       /\ DOMAIN rules = 1..Len(RuleKinds) /\ RE2 \in SUBSET Rules
       /\ \A i \in Rules : rules[i].re2 \in BOOLEAN /\ rules[i].subs \in Nat
<1>1. Rules = 1..Len(RuleKinds) /\ Len(RuleKinds) \in Nat
  BY DetectAssumption DEF Rules
<1>2. Unattributed \notin Rules
  BY <1>1 DEF Unattributed
<1>3. ASSUME rules \in [Rules -> RuleShape]
      PROVE  /\ DOMAIN rules = 1..Len(RuleKinds) /\ RE2 \in SUBSET Rules
             /\ \A i \in Rules : rules[i].re2 \in BOOLEAN /\ rules[i].subs \in Nat
  BY <1>1, <1>3, DetectAssumption DEF RuleShape, RE2
<1> QED  BY <1>1, <1>2, <1>3, Zenon

(* The entries of a list after one more in front.                          *)
LEMMA AfterFirst ==
  ASSUME NEW t \in Seq(Nat)
  PROVE  /\ Len(<<0>> \o t) = 1 + Len(t) /\ Len(t) \in Nat
         /\ \A p \in 1..Len(t) : (<<0>> \o t)[p + 1] = t[p]
<1>1. <<0>> \in Seq(Nat) /\ Len(<<0>>) = 1 /\ Len(t) \in Nat
  OBVIOUS
<1>2. Len(<<0>> \o t) = 1 + Len(t)
  BY <1>1
<1>3. ASSUME NEW p \in 1..Len(t) PROVE (<<0>> \o t)[p + 1] = t[p]
  BY <1>1
<1> QED  BY <1>1, <1>2, <1>3, Zenon

(* The library numbers the groups as BuildCombinedRegex counts them: the   *)
(* first group of a rule is mapped to it.                                  *)
LEMMA GroupMap ==
  ASSUME rules \in [Rules -> RuleShape], NEW i \in RE2
  PROVE  Attribute(i) = i
<1> DEFINE N == Len(RuleKinds)
           w == [j \in DOMAIN rules |-> 1 + rules[j].subs]
           ss == [j \in DOMAIN rules |->
                    IF rules[j].re2 THEN [k \in 1..1 + rules[j].subs |-> j] ELSE << >>]
           flat == Appended(ss)
           Before(n) == {j \in RE2 : j < n}
<1>1. /\ N \in Nat /\ Rules = 1..N /\ DOMAIN rules = 1..N /\ RE2 \in SUBSET 1..N
      /\ \A j \in 1..N : rules[j].re2 \in BOOLEAN /\ rules[j].subs \in Nat
  BY RulesAreListed, Zenon
<1>2. /\ \A j \in 1..N : w[j] = 1 + rules[j].subs
      /\ \A j \in 1..N : j \in RE2 <=> rules[j].re2
  BY <1>1, Zenon DEF RE2
<1>3. /\ \A j \in 1..N : ss[j] = IF rules[j].re2 THEN [k \in 1..1 + rules[j].subs |-> j] ELSE << >>
      /\ ss \in [1..N -> Seq(Nat)]
  <2>1. \A j \in 1..N : ss[j] = IF rules[j].re2 THEN [k \in 1..1 + rules[j].subs |-> j] ELSE << >>
    BY <1>1, Zenon
  <2>2. ASSUME NEW j \in 1..N PROVE ss[j] \in Seq(Nat)
    <3>1. 1 + rules[j].subs \in Nat /\ j \in Nat
      BY <1>1
    <3>2. [k \in 1..1 + rules[j].subs |-> j] \in Seq(Nat)
      BY <3>1
    <3>3. << >> \in Seq(Nat)
      OBVIOUS
    <3> QED  BY <2>1, <3>2, <3>3, Zenon
  <2> QED  BY <1>1, <2>1, <2>2, Zenon
<1>4. ss \in Seq(Seq(Nat)) /\ Len(ss) = N
  BY <1>1, <1>3
<1>5. \A j \in 1..N : /\ j \in RE2 => Len(ss[j]) = 1 + rules[j].subs /\ ss[j][1] = j
                      /\ j \notin RE2 => Len(ss[j]) = 0
  BY <1>1, <1>2, <1>3
<1>6. GroupToPattern = <<Unattributed>> \o flat
  BY Zenon DEF GroupToPattern
<1>7. FirstGroup(i) = 1 + SumFunctionOnSet(w, Before(i))
  BY Zenon DEF FirstGroup
<1> HIDE DEF w, ss, flat
<1>8. /\ flat \in Seq(Nat)
      /\ \E off \in [0..N -> Nat] : off[0] = 0 /\ Joined(flat, ss, N, off)
  BY <1>4, AppendedJoins, Zenon DEF flat
<1>9. PICK off \in [0..N -> Nat] : off[0] = 0 /\ Joined(flat, ss, N, off)
  BY <1>8, Zenon
<1> DEFINE G == {n \in Nat : n \in 0..N => SumFunctionOnSet(w, Before(n + 1)) = off[n]}
<1>10. 0 \in G
  <2>1. \A j \in RE2 : ~(j < 0 + 1)
    BY <1>1
  <2>2. off[0] = 0
    BY <1>9, Zenon DEF Joined
  <2>3. Before(0 + 1) = {}
    BY <2>1, Zenon
  <2> QED  BY <2>2, <2>3, SumEmpty, Zenon
<1>11. ASSUME NEW n \in Nat, n \in G PROVE n + 1 \in G
  <2> SUFFICES ASSUME n + 1 \in 1..N PROVE SumFunctionOnSet(w, Before(n + 2)) = off[n + 1]
    BY <1>1, <1>11
  <2>1. SumFunctionOnSet(w, Before(n + 1)) = off[n]
    BY <1>1, <1>11
  <2>2. off[n + 1] = off[n] + Len(ss[n + 1]) /\ off[n] \in Nat
    <3>1. (n + 1) - 1 = n /\ n \in 0..N
      BY <1>1
    <3>2. off[n + 1] = off[(n + 1) - 1] + Len(ss[n + 1]) /\ off \in [0..N -> Nat]
      BY <1>9, Zenon DEF Joined
    <3> QED  BY <3>1, <3>2, Zenon
  <2>3. IsFiniteSet(Before(n + 2)) /\ \A j \in Before(n + 2) : w[j] \in Int
    <3>0. IsFiniteSet(1..N)
      BY <1>1, FS_Interval
    <3>1. IsFiniteSet(1..N) /\ Before(n + 2) \subseteq 1..N
      BY <1>1, <3>0, Zenon
    <3>2. IsFiniteSet(Before(n + 2))
      BY <3>1, FS_Subset, Zenon
    <3> QED  BY <1>1, <1>2, <3>1, <3>2
  <2>6. n + 1 < n + 2 /\ \A j \in RE2 : j < n + 2 <=> j < n + 1 \/ j = n + 1
    BY <1>1
  <2>7. ~(n + 1 < n + 1)
    OBVIOUS
  <2>4. CASE n + 1 \in RE2
    <3>1. n + 1 \in Before(n + 2) /\ Before(n + 2) \ {n + 1} = Before(n + 1)
      BY <2>4, <2>6, <2>7, Zenon
    <3> HIDE DEF Before
    <3>2. \A y \in Before(n + 2) : SumFunctionOnSet(w, Before(n + 2))
                                    = w[y] + SumFunctionOnSet(w, Before(n + 2) \ {y})
      BY <2>3, SumRemove, Zenon
    <3>4. SumFunctionOnSet(w, Before(n + 2)) = w[n + 1] + SumFunctionOnSet(w, Before(n + 1))
      BY <3>1, <3>2, Zenon
    <3>3. /\ w[n + 1] = 1 + rules[n + 1].subs /\ Len(ss[n + 1]) = 1 + rules[n + 1].subs
          /\ rules[n + 1].subs \in Nat
      BY <1>1, <1>2, <1>5, <2>4, Zenon
    <3> QED  BY <2>1, <2>2, <3>3, <3>4
  <2>5. CASE n + 1 \notin RE2
    <3>1. Before(n + 2) = Before(n + 1)
      BY <2>5, <2>6, Zenon
    <3> HIDE DEF Before
    <3>2. Len(ss[n + 1]) = 0
      BY <1>5, <2>5, Zenon
    <3> QED  BY <2>1, <2>2, <3>1, <3>2
  <2> QED  BY <2>4, <2>5, Zenon
<1> HIDE DEF G
<1>12. Nat \subseteq G
  BY <1>10, <1>11, NatSetInduction, Zenon
<1>13. i \in 1..N /\ i - 1 \in 0..N /\ i - 1 \in Nat /\ (i - 1) + 1 = i
  BY <1>1
<1>14. FirstGroup(i) = 1 + off[i - 1]
  BY <1>7, <1>12, <1>13, Zenon DEF G
<1>15. 1 \in 1..Len(ss[i]) /\ ss[i][1] = i
  BY <1>1, <1>5, <1>13
<1>16. off[i - 1] + 1 \in 1..Len(flat) /\ flat[off[i - 1] + 1] = i /\ off[i - 1] \in Nat
  BY <1>4, <1>9, <1>13, <1>15, Zenon DEF Joined
<1> DEFINE m == FirstGroup(i)
           named == {g \in Participating(i) : g < Len(GroupToPattern)}
<1>17. m \in Nat /\ m = off[i - 1] + 1
  BY <1>14, <1>16
<1>18. m < Len(GroupToPattern) /\ GroupToPattern[m + 1] = i
  <2>1. Len(<<Unattributed>> \o flat) = 1 + Len(flat) /\ Len(flat) \in Nat
    BY <1>8, AfterFirst, Zenon DEF Unattributed
  <2>2. (<<Unattributed>> \o flat)[(off[i - 1] + 1) + 1] = flat[off[i - 1] + 1]
    BY <1>8, <1>16, AfterFirst, Zenon DEF Unattributed
  <2> QED  BY <1>6, <1>16, <1>17, <2>1, <2>2
<1>19. m \in named /\ \A g \in named : g \in Int /\ m <= g
  BY <1>1, <1>13, <1>17, <1>18 DEF Participating
<1>20. Min(named) = m
  BY <1>17, <1>19 DEF Min
<1> QED  BY <1>18, <1>19, <1>20, Zenon DEF Attribute

(* A set of numbers has a least one (FiniteSetsExt).                       *)
LEMMA MinIsLeast ==
  ASSUME NEW T \in SUBSET Nat, T # {}
  PROVE  Min(T) \in T /\ \A m \in T : Min(T) <= m
<1>1. PICK n \in T : \A m \in T : ~(<<m, n>> \in OpToRel(<, Nat))
  BY NatLessThanWellFounded, WFMin, Zenon
<1>2. \A m \in T : ~(m < n)
  BY <1>1, Zenon DEF OpToRel
<1>3. \A m \in T : n <= m
  BY <1>2
<1> QED  BY <1>3, Zenon DEF Min

(* fs reports the spans of a line that a Go rule matches, and no others,   *)
(* under Go rules.                                                         *)
AccountsFor(fs, line) ==
  /\ fs \in Seq(FindingShape)
  /\ \A s \in Range(line) : s.owners \cap RE2 # {} => \E k \in DOMAIN fs : Flagged(fs[k], s)
  /\ \A k \in DOMAIN fs : fs[k].rule \in RE2 => \E s \in Range(line) : Flagged(fs[k], s)

(* A finding has the value of its span, under the rule it is made for.     *)
LEMMA FindingOfSpan ==
  ASSUME NEW i \in Rules \cup {Unattributed}, NEW s \in Spans
  PROVE  /\ Finding(i, s) \in FindingShape /\ Finding(i, s).rule = i
         /\ i \in s.owners \cap RE2 => Flagged(Finding(i, s), s)
<1>1. s.value \in SpanValues
  BY Zenon DEF Spans
<1>2. ExtractSecret(s) \in SpanValues \cup {"plain"}
  BY <1>1, Zenon DEF ExtractSecret
<1>3. Finding(i, s) \in FindingShape
  BY <1>2, Zenon DEF Finding, FindingShape
<1>4. Finding(i, s).rule = i /\ Finding(i, s).value = ExtractSecret(s)
  BY Zenon DEF Finding
<1> QED  BY <1>3, <1>4, Zenon DEF Flagged

(* With the combined regex: every match is attributed to its winner.       *)
LEMMA CombinedAccount ==
  ASSUME rules \in [Rules -> RuleShape], NEW line \in Seq(Spans)
  PROVE  LET matched == Keep(line, {k \in DOMAIN line : line[k].owners \cap RE2 # {}})
         IN  AccountsFor([k \in DOMAIN matched |->
                        Finding(Attribute(Winner(matched[k])), matched[k])], line)
<1> DEFINE places == {k \in DOMAIN line : line[k].owners \cap RE2 # {}}
           matched == Keep(line, places)
           fs == [k \in DOMAIN matched |-> Finding(Attribute(Winner(matched[k])), matched[k])]
<1>1. matched \in Seq(Spans) /\ Kept(matched, line, places)
  BY KeepShape, Zenon
<1> HIDE DEF matched
<1>2. \A k \in DOMAIN matched : \E p \in places : matched[k] = line[p]
  BY <1>1, Zenon DEF Kept
<1>3. \A p \in places : \E k \in DOMAIN matched : matched[k] = line[p]
  BY <1>1, Zenon DEF Kept
<1>4. DOMAIN matched = 1..Len(matched) /\ Len(matched) \in Nat
  BY <1>1
<1>5. ASSUME NEW k \in DOMAIN matched
      PROVE  /\ matched[k] \in Range(line) /\ fs[k] \in FindingShape
             /\ Flagged(fs[k], matched[k])
  <2>1. PICK p \in DOMAIN line : matched[k] = line[p] /\ line[p].owners \cap RE2 # {}
    BY <1>2, Zenon
  <2>2. matched[k] \in Range(line) /\ matched[k] \in Spans
    <3>1. line[p] \in Spans
      OBVIOUS
    <3> QED  BY <2>1, <3>1, Zenon DEF Range
  <2> DEFINE w == Winner(matched[k])
  <2>3. w \in matched[k].owners \cap RE2 /\ w \in Rules
    <3>1. RE2 \in SUBSET Rules /\ Rules \in SUBSET Nat
      BY RulesAreListed
    <3>2. matched[k].owners \cap RE2 \in SUBSET Nat /\ matched[k].owners \cap RE2 # {}
      BY <2>1, <3>1, Zenon
    <3>3. w \in matched[k].owners \cap RE2
      BY <3>2, MinIsLeast, Zenon DEF Winner
    <3> QED  BY <3>1, <3>3, Zenon
  <2>4. Attribute(w) = w
    BY <2>3, GroupMap, Zenon
  <2>5. fs[k] = Finding(w, matched[k])
    BY <2>4, Zenon
  <2> HIDE DEF w, fs
  <2> QED  BY <2>2, <2>3, <2>5, FindingOfSpan, Zenon
<1>6. DOMAIN fs = DOMAIN matched
  BY Zenon
<1> HIDE DEF fs
<1>7. fs \in Seq(FindingShape)
  <2>1. fs = [k \in 1..Len(matched) |-> fs[k]]
    BY <1>4, Zenon DEF fs
  <2>2. \A k \in 1..Len(matched) : fs[k] \in FindingShape
    BY <1>4, <1>5, Zenon
  <2> QED  BY <1>4, <2>1, <2>2
<1>8. \A s \in Range(line) : s.owners \cap RE2 # {} => \E k \in DOMAIN fs : Flagged(fs[k], s)
  <2>1. ASSUME NEW p \in DOMAIN line, line[p].owners \cap RE2 # {}
        PROVE  \E k \in DOMAIN fs : Flagged(fs[k], line[p])
    BY <1>3, <1>5, <1>6, <2>1, Zenon
  <2> QED  BY <2>1, Zenon DEF Range
<1>9. \A k \in DOMAIN fs : \E s \in Range(line) : Flagged(fs[k], s)
  BY <1>5, <1>6, Zenon
<1> QED  BY <1>7, <1>8, <1>9, Zenon DEF AccountsFor, fs, matched

(* Without it: every match of every Go rule, rule by rule.                 *)
LEMMA SinglesAccount ==
  ASSUME rules \in [Rules -> RuleShape], NEW line \in Seq(Spans)
  PROVE  LET single(i) == Keep(line, {k \in DOMAIN line : i \in line[k].owners})
         IN  AccountsFor(Appended([i \in DOMAIN rules |->
                       IF i \in RE2 THEN [k \in DOMAIN single(i) |-> Finding(i, single(i)[k])]
                       ELSE << >>]), line)
<1> DEFINE places(i) == {k \in DOMAIN line : i \in line[k].owners}
           single(i) == Keep(line, places(i))
           made(i) == [k \in DOMAIN single(i) |-> Finding(i, single(i)[k])]
           ss == [i \in DOMAIN rules |-> IF i \in RE2 THEN made(i) ELSE << >>]
           r == Appended(ss)
<1>1. /\ Len(RuleKinds) \in Nat /\ DOMAIN rules = 1..Len(RuleKinds) /\ RE2 \in SUBSET Rules
      /\ DOMAIN rules = Rules
  BY RulesAreListed, Zenon
<1>2. ASSUME NEW i \in RE2
      PROVE  /\ made(i) \in Seq(FindingShape) /\ DOMAIN made(i) = DOMAIN single(i)
             /\ \A k \in DOMAIN single(i) : \E p \in DOMAIN line :
                  i \in line[p].owners /\ made(i)[k] = Finding(i, line[p])
             /\ \A p \in DOMAIN line : i \in line[p].owners =>
                  \E k \in DOMAIN single(i) : made(i)[k] = Finding(i, line[p])
  <2>1. single(i) \in Seq(Spans) /\ Kept(single(i), line, places(i))
    BY KeepShape, Zenon
  <2> DEFINE u == single(i)
  <2> HIDE DEF single
  <2>2. DOMAIN u = 1..Len(u) /\ Len(u) \in Nat /\ \A k \in 1..Len(u) : u[k] \in Spans
    BY <2>1
  <2>3. \A k \in 1..Len(u) : Finding(i, u[k]) \in FindingShape
    BY <1>1, <2>2, FindingOfSpan, Zenon
  <2>4. \A k \in DOMAIN u : \E p \in places(i) : u[k] = line[p]
    BY <2>1, Zenon DEF Kept
  <2>5. \A p \in places(i) : \E k \in DOMAIN u : u[k] = line[p]
    BY <2>1, Zenon DEF Kept
  <2>6. made(i) = [k \in 1..Len(u) |-> Finding(i, u[k])]
    BY <2>2, Zenon
  <2>7. made(i) \in Seq(FindingShape)
    BY <2>2, <2>3, <2>6
  <2>8. \A k \in DOMAIN u : made(i)[k] = Finding(i, u[k])
    BY Zenon
  <2>9. DOMAIN made(i) = DOMAIN u
    BY Zenon
  <2> HIDE DEF made
  <2>10. \A k \in DOMAIN u : \E p \in DOMAIN line :
           i \in line[p].owners /\ made(i)[k] = Finding(i, line[p])
    BY <2>4, <2>8, Zenon
  <2>11. \A p \in DOMAIN line : i \in line[p].owners =>
           \E k \in DOMAIN u : made(i)[k] = Finding(i, line[p])
    BY <2>5, <2>8, Zenon
  <2> QED  BY <2>7, <2>9, <2>10, <2>11, Zenon
<1> HIDE DEF made, single
<1>3. \A i \in DOMAIN rules : ss[i] = IF i \in RE2 THEN made(i) ELSE << >>
  BY Zenon
<1>4. ss \in Seq(Seq(FindingShape)) /\ DOMAIN ss = DOMAIN rules
  <2>1. << >> \in Seq(FindingShape)
    OBVIOUS
  <2>2. \A i \in DOMAIN rules : ss[i] \in Seq(FindingShape)
    BY <1>2, <1>3, <2>1, Zenon
  <2>3. ss = [i \in 1..Len(RuleKinds) |-> ss[i]]
    BY <1>1, Zenon
  <2> HIDE DEF ss
  <2> QED  BY <1>1, <2>2, <2>3
<1> HIDE DEF ss, r
<1>5. /\ r \in Seq(FindingShape)
      /\ \A m \in DOMAIN r : \E i \in DOMAIN ss : \E j \in DOMAIN ss[i] : r[m] = ss[i][j]
      /\ \A i \in DOMAIN ss : \A j \in DOMAIN ss[i] : \E m \in DOMAIN r : r[m] = ss[i][j]
  BY <1>4, AppendedEntries DEF r
<1>6. ASSUME NEW p \in DOMAIN line, NEW i \in line[p].owners \cap RE2
      PROVE  \E m \in DOMAIN r : Flagged(r[m], line[p])
  <2>1. line[p] \in Spans /\ i \in Rules
    BY <1>1
  <2>2. PICK k \in DOMAIN made(i) : made(i)[k] = Finding(i, line[p])
    BY <1>2, Zenon
  <2>3. i \in DOMAIN ss /\ ss[i] = made(i)
    BY <1>1, <1>3, <1>4, <2>1, Zenon
  <2>4. k \in DOMAIN ss[i] /\ ss[i][k] = Finding(i, line[p])
    BY <2>2, <2>3, Zenon
  <2>5. PICK m \in DOMAIN r : r[m] = ss[i][k]
    BY <1>5, <2>3, <2>4, Zenon
  <2>6. Flagged(Finding(i, line[p]), line[p])
    BY <2>1, FindingOfSpan, Zenon
  <2> QED  BY <2>4, <2>5, <2>6, Zenon
<1>7. ASSUME NEW m \in DOMAIN r PROVE \E s \in Range(line) : Flagged(r[m], s)
  <2>1. PICK i \in DOMAIN ss : \E j \in DOMAIN ss[i] : r[m] = ss[i][j]
    BY <1>5, Zenon
  <2>2. PICK j \in DOMAIN ss[i] : r[m] = ss[i][j]
    BY <2>1, Zenon
  <2>3. i \in RE2 /\ ss[i] = made(i)
    <3>1. i \in DOMAIN rules /\ DOMAIN << >> = {}
      BY <1>4
    <3> QED  BY <1>3, <2>2, <3>1, Zenon
  <2>4. PICK p \in DOMAIN line : i \in line[p].owners /\ r[m] = Finding(i, line[p])
    <3>1. j \in DOMAIN single(i) /\ r[m] = made(i)[j]
      BY <1>2, <2>2, <2>3, Zenon
    <3>2. \E p \in DOMAIN line : i \in line[p].owners /\ made(i)[j] = Finding(i, line[p])
      BY <1>2, <2>3, <3>1, Zenon
    <3> QED  BY <3>1, <3>2, Zenon
  <2>5. line[p] \in Spans /\ i \in Rules
    BY <1>1, <2>3
  <2>6. Flagged(r[m], line[p])
    BY <2>3, <2>4, <2>5, FindingOfSpan, Zenon
  <2> QED  BY <2>6, Zenon DEF Range
<1>8. \A s \in Range(line) : s.owners \cap RE2 # {} => \E m \in DOMAIN r : Flagged(r[m], s)
  BY <1>6, Zenon DEF Range
<1>9. AccountsFor(r, line)
  BY <1>5, <1>7, <1>8, Zenon DEF AccountsFor
<1> QED  BY <1>9, Zenon DEF r, ss, made, single

(* A line is reported, with or without the combined regex (FindingsForLine). *)
LEMMA LineReported ==
  ASSUME rules \in [Rules -> RuleShape], NEW line \in Seq(Spans), line # << >>
  PROVE  AccountsFor(FindingsForLine(line), line)
<1> DEFINE matched == Keep(line, {k \in DOMAIN line : line[k].owners \cap RE2 # {}})
           single(i) == Keep(line, {k \in DOMAIN line : i \in line[k].owners})
           exact == IF combined
                    THEN [k \in DOMAIN matched |-> Finding(Attribute(Winner(matched[k])), matched[k])]
                    ELSE Appended([i \in DOMAIN rules |->
                           IF i \in RE2 THEN [k \in DOMAIN single(i) |-> Finding(i, single(i)[k])]
                           ELSE << >>])
           opaque == DOMAIN rules \ RE2
           rest == IF opaque = {} THEN Unattributed ELSE Min(opaque)
<1>1. FindingsForLine(line) = IF exact # << >> THEN exact ELSE <<Finding(rest, line[1])>>
  BY Zenon DEF FindingsForLine
<1>2. AccountsFor(exact, line)
  BY CombinedAccount, SinglesAccount, Zenon
<1> HIDE DEF exact
<1>3. CASE exact # << >>
  BY <1>1, <1>2, <1>3, Zenon
<1>4. CASE exact = << >>
  <2>1. rest \in Rules \cup {Unattributed} /\ rest \notin RE2
    <3>1. /\ RE2 \in SUBSET Rules /\ DOMAIN rules = Rules /\ Unattributed \notin Rules
          /\ opaque \in SUBSET Nat
      BY RulesAreListed
    <3>2. opaque # {} => Min(opaque) \in opaque
      BY <3>1, MinIsLeast, Zenon
    <3> QED  BY <3>1, <3>2, Zenon
  <2> HIDE DEF rest
  <2>2. line[1] \in Spans
    OBVIOUS
  <2> DEFINE f == Finding(rest, line[1])
  <2>3. f \in FindingShape /\ f.rule \notin RE2
    BY <2>1, <2>2, FindingOfSpan, Zenon
  <2> HIDE DEF f
  <2>4. <<f>> \in Seq(FindingShape) /\ DOMAIN <<f>> = {1} /\ <<f>>[1] = f
    BY <2>3
  <2>5. DOMAIN exact = {}
    BY <1>4
  <2>6. \A s \in Range(line) : ~(s.owners \cap RE2 # {})
    BY <1>2, <2>5, Zenon DEF AccountsFor
  <2>7. \A k \in DOMAIN <<f>> : <<f>>[k].rule \notin RE2
    BY <2>3, <2>4, Zenon
  <2>8. AccountsFor(<<f>>, line)
    BY <2>4, <2>6, <2>7, Zenon DEF AccountsFor
  <2> QED  BY <1>1, <1>4, <2>8, Zenon DEF f
<1> QED  BY <1>3, <1>4, Zenon

(* The phases of a scan of the corpus, and what they work on.              *)
DetectShape ==
  /\ detected \in {"start", "lines", "raw", "sane", "tiered"}
  /\ detected = "start" => rules = << >> /\ lines = << >> /\ findings = << >>
  /\ detected # "start" => rules \in [Rules -> RuleShape]
  /\ lines \in Seq(Seq(Spans)) /\ findings \in Seq(FindingShape)

(* The inductive invariant: the property itself, and the shapes.           *)
DetectInv == DetectShape /\ SpansReported

(* Nothing is found before a line is read.                                 *)
LEMMA NothingYet ==
  ASSUME lines = << >>, findings = << >>, detected \in {"start", "lines"}
  PROVE  SpansReported
<1>1. DOMAIN lines = {} /\ DOMAIN findings = {}
  OBVIOUS
<1>2. AllSpans = {}
  BY <1>1, Zenon DEF AllSpans
<1>3. detected \notin {"sane", "tiered"}
  BY Zenon
<1> QED  BY <1>1, <1>2, <1>3, Zenon DEF SpansReported

(* It holds before the rules are loaded.                                   *)
LEMMA DetectStart == DetectInit => DetectInv
<1> SUFFICES ASSUME DetectInit PROVE DetectInv
  BY Zenon
<1>1. DetectShape
  BY DEF DetectInit, DetectShape
<1>2. SpansReported
  BY NothingYet, Zenon DEF DetectInit
<1> QED  BY <1>1, <1>2, Zenon DEF DetectInv

(* Loading the rules finds nothing.                                        *)
LEMMA LoadStep == DetectInv /\ LoadRules => DetectInv'
<1> SUFFICES ASSUME DetectInv, LoadRules PROVE DetectInv'
  BY Zenon
<1>1. lines' = << >> /\ findings' = << >> /\ detected' = "lines" /\ rules' \in [Rules -> RuleShape]
  BY Zenon DEF DetectInv, DetectShape, LoadRules, RuleShape
<1>2. DetectShape'
  BY <1>1 DEF DetectShape
<1>3. DOMAIN lines' = {} /\ DOMAIN findings' = {} /\ detected' \notin {"sane", "tiered"}
  BY <1>1
<1>4. AllSpans' = {}
  BY <1>3, Zenon DEF AllSpans
<1>5. SpansReported'
  BY <1>3, <1>4, Zenon DEF SpansReported
<1> QED  BY <1>2, <1>5, Zenon DEF DetectInv

(* The end of the output of ripgrep changes no finding.                    *)
LEMMA EndStep == DetectInv /\ EndOfOutput => DetectInv'
<1> SUFFICES ASSUME DetectInv, EndOfOutput PROVE DetectInv'
  BY Zenon
<1>1. /\ rules' = rules /\ lines' = lines /\ findings' = findings
      /\ detected = "lines" /\ detected' = "raw"
  BY Zenon DEF EndOfOutput
<1>2. DetectShape'
  BY <1>1, Zenon DEF DetectInv, DetectShape
<1>3. RE2' = RE2 /\ AllSpans' = AllSpans
  BY <1>1, Zenon DEF RE2, AllSpans
<1>5. detected # "tiered" /\ detected' \notin {"sane", "tiered"}
  BY <1>1, Zenon
<1>6. SpansReported'
  BY <1>1, <1>3, <1>5, Zenon DEF DetectInv, SpansReported, Flagged
<1> QED  BY <1>2, <1>6, Zenon DEF DetectInv

(* u has the entries of two lists and no others.                           *)
Both(u, s, t) ==
  /\ \A i \in DOMAIN s : \E k \in DOMAIN u : u[k] = s[i]
  /\ \A i \in DOMAIN t : \E k \in DOMAIN u : u[k] = t[i]
  /\ \A k \in DOMAIN u : \/ \E i \in DOMAIN s : u[k] = s[i]
                         \/ \E i \in DOMAIN t : u[k] = t[i]

(* The findings of a line are put after the earlier ones.                  *)
LEMMA BothLists ==
  ASSUME NEW S, NEW s \in Seq(S), NEW t \in Seq(S)
  PROVE  (s \o t) \in Seq(S) /\ Both(s \o t, s, t)
<1>0. PICK u : u = s \o t
  BY Zenon
<1>1. /\ DOMAIN s = 1..Len(s) /\ DOMAIN t = 1..Len(t) /\ DOMAIN u = 1..Len(u)
      /\ Len(s) \in Nat /\ Len(t) \in Nat /\ Len(u) = Len(s) + Len(t) /\ u \in Seq(S)
  BY <1>0
<1>2. \A i \in 1..Len(s) : i \in 1..Len(u) /\ u[i] = s[i]
  BY <1>0, <1>1
<1>3. \A i \in 1..Len(t) : Len(s) + i \in 1..Len(u) /\ u[Len(s) + i] = t[i]
  BY <1>0, <1>1
<1>4. ASSUME NEW k \in 1..Len(u), k \notin 1..Len(s) PROVE \E i \in 1..Len(t) : u[k] = t[i]
  <2>1. k - Len(s) \in 1..Len(t) /\ Len(s) + (k - Len(s)) = k
    BY <1>1, <1>4
  <2> QED  BY <1>3, <2>1, Zenon
<1>5. Both(u, s, t)
  BY <1>1, <1>2, <1>3, <1>4, Zenon DEF Both
<1> QED  BY <1>0, <1>1, <1>5, Zenon

(* A line adds its spans and the findings that report them.                *)
LEMMA LineStep ==
  ASSUME DetectInv, NEW n \in 1..MaxSpans, NEW line \in [1..n -> Spans], FlaggedLine(line)
  PROVE  DetectInv'
<1> DEFINE fs == FindingsForLine(line)
<1>1. /\ rules' = rules /\ lines' = Append(lines, line) /\ findings' = findings \o fs
      /\ detected = "lines" /\ detected' = "lines"
  BY Zenon DEF FlaggedLine
<1>2. /\ rules \in [Rules -> RuleShape] /\ lines \in Seq(Seq(Spans))
      /\ findings \in Seq(FindingShape)
  BY <1>1, Zenon DEF DetectInv, DetectShape
<1>3. line \in Seq(Spans) /\ line # << >>
  BY DetectAssumption
<1>4. AccountsFor(fs, line)
  BY <1>2, <1>3, LineReported, Zenon
<1> HIDE DEF fs
<1>5. findings' \in Seq(FindingShape) /\ Both(findings', findings, fs)
  <2>1. fs \in Seq(FindingShape)
    BY <1>4, Zenon DEF AccountsFor
  <2> QED  BY <1>1, <1>2, <2>1, BothLists, Zenon
<1>6. lines' \in Seq(Seq(Spans))
  BY <1>1, <1>2, <1>3
<1>7. RE2' = RE2 /\ AllSpans' = AllSpans \cup Range(line)
  <2>1. RE2' = RE2
    BY <1>1, Zenon DEF RE2
  <2>2. /\ DOMAIN lines' = DOMAIN lines \cup {Len(lines) + 1} /\ lines'[Len(lines) + 1] = line
        /\ \A l \in DOMAIN lines : lines'[l] = lines[l]
    BY <1>1, <1>2, <1>3
  <2>3. AllSpans' = UNION {Range(lines'[l]) : l \in DOMAIN lines'}
    BY Zenon DEF AllSpans, Range
  <2>4. AllSpans' = AllSpans \cup Range(line)
    BY <2>2, <2>3, Zenon DEF AllSpans
  <2> QED  BY <2>1, <2>4, Zenon
<1>8. DetectShape'
  BY <1>1, <1>2, <1>5, <1>6, Zenon DEF DetectShape
<1>9. ASSUME NEW s \in AllSpans', s.owners \cap RE2' # {}
      PROVE  \E k \in DOMAIN findings' : Flagged(findings'[k], s)
  <2>1. CASE s \in AllSpans
    <3>1. PICK i \in DOMAIN findings : Flagged(findings[i], s)
      BY <1>1, <1>7, <1>9, <2>1, Zenon DEF DetectInv, SpansReported
    <3>2. PICK k \in DOMAIN findings' : findings'[k] = findings[i]
      BY <1>5, Zenon DEF Both
    <3> QED  BY <1>7, <3>1, <3>2, Zenon
  <2>2. CASE s \in Range(line)
    <3>1. PICK i \in DOMAIN fs : Flagged(fs[i], s)
      BY <1>4, <1>7, <1>9, <2>2, Zenon DEF AccountsFor
    <3>2. PICK k \in DOMAIN findings' : findings'[k] = fs[i]
      BY <1>5, Zenon DEF Both
    <3> QED  BY <1>7, <3>1, <3>2, Zenon
  <2> QED  BY <1>7, <2>1, <2>2, Zenon
<1>10. ASSUME NEW k \in DOMAIN findings', findings'[k].rule \in RE2'
       PROVE  \E s \in AllSpans' : Flagged(findings'[k], s)
  <2>1. CASE \E i \in DOMAIN findings : findings'[k] = findings[i]
    <3>1. PICK i \in DOMAIN findings : findings'[k] = findings[i]
      BY <2>1, Zenon
    <3>2. PICK s \in AllSpans : Flagged(findings[i], s)
      BY <1>7, <1>10, <3>1, Zenon DEF DetectInv, SpansReported
    <3> QED  BY <1>7, <3>1, <3>2, Zenon
  <2>2. CASE \E i \in DOMAIN fs : findings'[k] = fs[i]
    <3>1. PICK i \in DOMAIN fs : findings'[k] = fs[i]
      BY <2>2, Zenon
    <3>2. PICK s \in Range(line) : Flagged(fs[i], s)
      BY <1>4, <1>7, <1>10, <3>1, Zenon DEF AccountsFor
    <3> QED  BY <1>7, <3>1, <3>2, Zenon
  <2> QED  BY <1>5, <2>1, <2>2, Zenon DEF Both
<1>11. detected' \notin {"sane", "tiered"}
  BY <1>1, Zenon
<1>12. SpansReported'
  BY <1>7, <1>9, <1>10, <1>11, Zenon DEF SpansReported, Flagged
<1> QED  BY <1>8, <1>12, Zenon DEF DetectInv

(* SanitizeSecrets keeps one finding of each (type, value).                *)
LEMMA SanitizeStep == DetectInv /\ Sanitize => DetectInv'
<1> SUFFICES ASSUME DetectInv, Sanitize PROVE DetectInv'
  BY Zenon
<1> DEFINE places == {k \in DOMAIN findings : \A h \in 1..k - 1 : findings[h] # findings[k]}
<1>1. /\ rules' = rules /\ lines' = lines /\ findings' = Keep(findings, places)
      /\ detected = "raw" /\ detected' = "sane"
  BY Zenon DEF Sanitize, SanitizeSecrets
<1>2. findings \in Seq(FindingShape) /\ rules \in [Rules -> RuleShape] /\ lines \in Seq(Seq(Spans))
  BY <1>1, Zenon DEF DetectInv, DetectShape
<1>3. findings' \in Seq(FindingShape) /\ Kept(findings', findings, places)
  BY <1>1, <1>2, KeepShape, Zenon
<1>4. DetectShape'
  BY <1>1, <1>2, <1>3, Zenon DEF DetectShape
<1>5. RE2' = RE2 /\ AllSpans' = AllSpans
  BY <1>1, Zenon DEF RE2, AllSpans
<1>6. DOMAIN findings = 1..Len(findings) /\ Len(findings) \in Nat
  BY <1>2
<1>7. ASSUME NEW k \in DOMAIN findings PROVE \E h \in places : findings[h] = findings[k]
  <2> DEFINE same == {h \in DOMAIN findings : findings[h] = findings[k]}
             first == Min(same)
  <2>1. same \in SUBSET Nat /\ k \in same
    BY <1>6
  <2>2. first \in same /\ \A h \in same : first <= h
    BY <2>1, MinIsLeast, Zenon
  <2> HIDE DEF first
  <2>3. \A h \in 1..first - 1 : h \in DOMAIN findings /\ ~(first <= h)
    BY <1>6, <2>2
  <2>4. \A h \in 1..first - 1 : findings[h] # findings[first]
    BY <2>2, <2>3, Zenon
  <2> QED  BY <2>2, <2>4, Zenon
<1>8. ASSUME NEW s \in AllSpans, s.owners \cap RE2 # {}
      PROVE  \E k \in DOMAIN findings' : Flagged(findings'[k], s)
  <2>1. PICK i \in DOMAIN findings : Flagged(findings[i], s)
    BY <1>1, <1>8, Zenon DEF DetectInv, SpansReported
  <2>2. PICK h \in places : findings[h] = findings[i]
    BY <1>7, Zenon
  <2>3. PICK k \in DOMAIN findings' : findings'[k] = findings[h]
    BY <1>3, Zenon DEF Kept
  <2> QED  BY <2>1, <2>2, <2>3, Zenon
<1>9. ASSUME NEW k \in DOMAIN findings' PROVE \E h \in places : findings'[k] = findings[h]
  BY <1>3, Zenon DEF Kept
<1>10. ASSUME NEW k \in DOMAIN findings', findings'[k].rule \in RE2
       PROVE  \E s \in AllSpans : Flagged(findings'[k], s)
  <2>1. PICK h \in DOMAIN findings : findings'[k] = findings[h]
    BY <1>9, Zenon
  <2> QED  BY <1>10, <2>1, Zenon DEF DetectInv, SpansReported
<1>11. ASSUME NEW h \in places, NEW k \in places, findings[h] = findings[k] PROVE h = k
  <2>1. h \in Int /\ k \in Int
    BY <1>6
  <2>2. h < k => h \in 1..k - 1
    BY <1>6
  <2>3. k < h => k \in 1..h - 1
    BY <1>6
  <2>4. ~(h < k) /\ ~(k < h)
    BY <1>11, <2>2, <2>3, Zenon
  <2> QED  BY <2>1, <2>4
<1>12. IsInjective(findings')
  <2>1. PICK f \in [DOMAIN findings' -> places] :
          /\ \A i \in DOMAIN findings' : findings'[i] = findings[f[i]]
          /\ \A i, n \in DOMAIN findings' : f[i] = f[n] => i = n
    BY <1>3, Zenon DEF Kept
  <2>2. \A i \in DOMAIN findings' : f[i] \in places
    BY <2>1, Zenon
  <2> HIDE DEF places
  <2>3. ASSUME NEW i \in DOMAIN findings', NEW n \in DOMAIN findings', findings'[i] = findings'[n]
        PROVE  i = n
    <3>1. findings[f[i]] = findings[f[n]]
      BY <2>1, <2>3, Zenon
    <3>2. f[i] = f[n]
      BY <1>11, <2>2, <3>1, Zenon
    <3> QED  BY <2>1, <3>2, Zenon
  <2> QED  BY <2>3, Zenon DEF IsInjective
<1>13. SpansReported'
  BY <1>5, <1>8, <1>10, <1>12, Zenon DEF SpansReported, Flagged
<1> QED  BY <1>4, <1>13, Zenon DEF DetectInv

(* ApplyPrecision drops what its tier says, and nothing else.              *)
LEMMA PrecisionStep == DetectInv /\ Precision => DetectInv'
<1> SUFFICES ASSUME DetectInv, Precision PROVE DetectInv'
  BY Zenon
<1> DEFINE places == {k \in DOMAIN findings : Tier(findings[k]) # "drop"}
<1>1. /\ rules' = rules /\ lines' = lines /\ findings' = Keep(findings, places)
      /\ detected = "sane" /\ detected' = "tiered"
  BY Zenon DEF Precision, ApplyPrecision
<1>2. findings \in Seq(FindingShape) /\ rules \in [Rules -> RuleShape] /\ lines \in Seq(Seq(Spans))
  BY <1>1, Zenon DEF DetectInv, DetectShape
<1>3. findings' \in Seq(FindingShape) /\ Kept(findings', findings, places)
  BY <1>1, <1>2, KeepShape, Zenon
<1>4. DetectShape'
  BY <1>1, <1>2, <1>3, Zenon DEF DetectShape
<1>5. RE2' = RE2 /\ AllSpans' = AllSpans
  BY <1>1, Zenon DEF RE2, AllSpans
<1>6. ASSUME NEW s \in AllSpans, s.owners \cap RE2 # {}
      PROVE  \/ \E k \in DOMAIN findings' : Flagged(findings'[k], s)
             \/ \E i \in s.owners \cap RE2 : Tier(Finding(i, s)) = "drop"
  <2>1. PICK k \in DOMAIN findings : Flagged(findings[k], s)
    BY <1>1, <1>6, Zenon DEF DetectInv, SpansReported
  <2>2. CASE Tier(findings[k]) # "drop"
    <3>1. PICK n \in DOMAIN findings' : findings'[n] = findings[k]
      BY <1>3, <2>2, Zenon DEF Kept
    <3> QED  BY <2>1, <3>1, Zenon
  <2>3. CASE Tier(findings[k]) = "drop"
    <3> DEFINE i == findings[k].rule
    <3>1. i \in s.owners \cap RE2 /\ findings[k].value = ExtractSecret(s)
      BY <2>1, Zenon DEF Flagged
    <3>2. Finding(i, s).rule = i /\ Finding(i, s).value = ExtractSecret(s)
      BY Zenon DEF Finding
    <3>3. Tier(Finding(i, s)) = Tier(findings[k])
      BY <3>1, <3>2, Zenon DEF Tier
    <3> QED  BY <2>3, <3>1, <3>3, Zenon
  <2> QED  BY <2>2, <2>3, Zenon
<1>7. ASSUME NEW k \in DOMAIN findings', findings'[k].rule \in RE2
      PROVE  \E s \in AllSpans : Flagged(findings'[k], s)
  <2>1. PICK h \in DOMAIN findings : findings'[k] = findings[h]
    BY <1>3, Zenon DEF Kept
  <2> QED  BY <1>7, <2>1, Zenon DEF DetectInv, SpansReported
<1>8. IsInjective(findings')
  <2>1. PICK f \in [DOMAIN findings' -> places] :
          /\ \A i \in DOMAIN findings' : findings'[i] = findings[f[i]]
          /\ \A i, n \in DOMAIN findings' : f[i] = f[n] => i = n
    BY <1>3, Zenon DEF Kept
  <2>2. \A i \in DOMAIN findings' : f[i] \in DOMAIN findings
    BY <2>1, Zenon
  <2>3. \A a, b \in DOMAIN findings : findings[a] = findings[b] => a = b
    BY <1>1, Zenon DEF DetectInv, SpansReported, IsInjective
  <2>4. ASSUME NEW i \in DOMAIN findings', NEW n \in DOMAIN findings', findings'[i] = findings'[n]
        PROVE  i = n
    <3>1. findings[f[i]] = findings[f[n]]
      BY <2>1, <2>4, Zenon
    <3>2. f[i] = f[n]
      BY <2>2, <2>3, <3>1, Zenon
    <3> QED  BY <2>1, <3>2, Zenon
  <2> QED  BY <2>4, Zenon DEF IsInjective
<1>9. SpansReported'
  BY <1>1, <1>5, <1>6, <1>7, <1>8, Zenon DEF SpansReported, Flagged
<1> QED  BY <1>4, <1>9, Zenon DEF DetectInv

(* Every span a Go rule matches ends as a finding under a rule that        *)
(* matches it or is dropped by its tier, no finding is under a Go rule     *)
(* without such a span, and none is reported twice, for any rules, lines   *)
(* and spans (FindingsForLine, SanitizeSecrets, ApplyPrecision).           *)
THEOREM SpansAreReported == DetectSpec => []SpansReported
<1>1. DetectInv /\ [DetectNext]_detectVars => DetectInv'
  <2> SUFFICES ASSUME DetectInv, [DetectNext]_detectVars PROVE DetectInv'
    BY Zenon
  <2>1. CASE \E n \in 1..MaxSpans : \E line \in [1..n -> Spans] : FlaggedLine(line)
    BY <2>1, LineStep, Zenon
  <2>2. CASE UNCHANGED detectVars
    <3>1. /\ rules' = rules /\ lines' = lines /\ findings' = findings /\ detected' = detected
      BY <2>2, Zenon DEF detectVars
    <3>2. RE2' = RE2 /\ AllSpans' = AllSpans
      BY <3>1, Zenon DEF RE2, AllSpans
    <3>3. SpansReported'
      BY <3>1, <3>2, Zenon DEF DetectInv, SpansReported, Flagged
    <3>4. DetectShape'
      BY <3>1, Zenon DEF DetectInv, DetectShape
    <3> QED  BY <3>3, <3>4, Zenon DEF DetectInv
  <2> QED  BY <2>1, <2>2, LoadStep, EndStep, SanitizeStep, PrecisionStep, Zenon DEF DetectNext
<1>2. DetectInv => SpansReported
  BY Zenon DEF DetectInv
<1> QED  BY <1>1, <1>2, DetectStart, PTL DEF DetectSpec
=============================================================================
