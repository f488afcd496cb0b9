----------------------------- MODULE Verification ----------------------------
(***************************************************************************)
(* Live verification of findings (morf/verify): the provider verdicts, the *)
(* shared result cache and the pairing of AWS keys.  Concurrent scans of   *)
(* one process verify one secret value that several rules flag, each for a *)
(* provider of its own (two providers at most); the value may be revoked   *)
(* at any time.                                                            *)
(***************************************************************************)
EXTENDS Integers, Sequences

CONSTANTS Checks,        \* findings under verification
          Partners,      \* the providers that may be the second one
          VerdictTTL,    \* cacheTTL
          RequestTime,   \* perRequestTimeout
          VerifyHorizon  \* end of time

VARIABLES vclock,   \* the clock
          lastLive, \* per provider: the last moment it would accept the value
          verdicts, \* the cache entry of the value
          check,    \* each finding
          pairing   \* the AWS key just handled: which candidate is its secret,
                    \* if one is and the key is live, else 0; its status

verifyVars == <<vclock, lastLive, verdicts, check, pairing>>

Statuses == {"active", "inactive", "unknown"}
NoVerdictYet == [status |-> "none", expires |-> 0]
NewCheck == [pc |-> "new", provider |-> "none", asked |-> 0, status |-> "unchecked"]
Done(status) == [NewCheck EXCEPT !.pc = "done", !.status = status]
NoPairing == [right |-> 0, status |-> "unknown"]

VerifyInit ==
  /\ vclock = 0 /\ lastLive = << >>
  /\ verdicts = NoVerdictYet /\ check = [c \in Checks |-> NewCheck] /\ pairing = NoPairing

InPlay == DOMAIN lastLive   \* none before the rules are known
LiveAt(f, t) == t <= lastLive[f]
-----------------------------------------------------------------------------
(* The entries that are asked about one value; AWS keys come in pairs. *)
defaultRegistry ==
  {"github", "gitlab", "slack", "stripe", "google", "twilio", "sendgrid", "npm",
   "cloudflare", "mailgun", "digitalOcean", "openai", "anthropic", "datadog",
   "pagerduty", "discordBot", "telegramBot", "mapbox", "square", "heroku", "figma",
   "notion", "airtable"}

ASSUME VerifyAssumption == /\ Partners \subseteq defaultRegistry
                           /\ {VerdictTTL, RequestTime, VerifyHorizon} \subseteq Nat

(* The providers, external: what each may answer about a value that is     *)
(* live or dead.  "other" is any status code that says nothing (429, 5xx). *)
Responses(provider, live) ==
  {"other"} \cup
  IF live THEN CASE provider = "google"                           -> {"200 ok", "401", "403", "400"}
                 [] provider \in {"datadog", "figma", "slack", "cloudflare"} -> {"200 ok"}
                 [] OTHER                                         -> {"200 ok", "403"}
  ELSE CASE provider \in {"datadog", "figma"} -> {"403"}
         [] provider = "slack"                -> {"200 error", "200 blank"}
         [] provider = "google"               -> {"400 keyInvalid", "400", "401", "403"}
         [] provider = "cloudflare"           -> {"401", "200 error"}
         [] OTHER                             -> {"401"}

(* The switch most verifiers end in: one code refuses a dead key. *)
ByCode(refused, r) ==
  CASE r = "200 ok" -> "active" [] r = refused -> "inactive" [] OTHER -> "unknown"

githubVerifier(r)       == ByCode("401", r)
gitlabVerifier(r)       == ByCode("401", r)
stripeVerifier(r)       == ByCode("401", r)
twilioVerifier(r)       == ByCode("401", r)
sendgridVerifier(r)     == ByCode("401", r)
npmVerifier(r)          == ByCode("401", r)
mailgunVerifier(r)      == ByCode("401", r)
digitalOceanVerifier(r) == ByCode("401", r)
openaiVerifier(r)       == ByCode("401", r)
anthropicVerifier(r)    == ByCode("401", r)
pagerdutyVerifier(r)    == ByCode("401", r)
discordBotVerifier(r)   == ByCode("401", r)
telegramBotVerifier(r)  == ByCode("401", r)
mapboxVerifier(r)       == ByCode("401", r)
squareVerifier(r)       == ByCode("401", r)
herokuVerifier(r)       == ByCode("401", r)
notionVerifier(r)       == ByCode("401", r)
airtableVerifier(r)     == ByCode("401", r)

(* Datadog and Figma refuse a dead key with 403. *)
datadogVerifier(r)      == ByCode("403", r)
figmaVerifier(r)        == ByCode("403", r)

(* auth.test answers 200 either way; an empty error is inconclusive. *)
slackVerifier(r) ==
  CASE r = "200 ok" -> "active" [] r = "200 error" -> "inactive" [] OTHER -> "unknown"

(* Only a 400 that names the key is inactive; 401 and 403 may be scoping. *)
googleVerifier(r) ==
  CASE r = "200 ok" -> "active" [] r = "400 keyInvalid" -> "inactive" [] OTHER -> "unknown"

cloudflareVerifier(r) ==
  CASE r = "200 ok" -> "active" [] r \in {"401", "200 error"} -> "inactive"
    [] OTHER -> "unknown"

(* The verifier the registry holds for a provider. *)
Verdict(provider, r) ==
  CASE provider = "github"       -> githubVerifier(r)
    [] provider = "gitlab"       -> gitlabVerifier(r)
    [] provider = "stripe"       -> stripeVerifier(r)
    [] provider = "twilio"       -> twilioVerifier(r)
    [] provider = "sendgrid"     -> sendgridVerifier(r)
    [] provider = "npm"          -> npmVerifier(r)
    [] provider = "mailgun"      -> mailgunVerifier(r)
    [] provider = "digitalOcean" -> digitalOceanVerifier(r)
    [] provider = "openai"       -> openaiVerifier(r)
    [] provider = "anthropic"    -> anthropicVerifier(r)
    [] provider = "pagerduty"    -> pagerdutyVerifier(r)
    [] provider = "discordBot"   -> discordBotVerifier(r)
    [] provider = "telegramBot"  -> telegramBotVerifier(r)
    [] provider = "mapbox"       -> mapboxVerifier(r)
    [] provider = "square"       -> squareVerifier(r)
    [] provider = "heroku"       -> herokuVerifier(r)
    [] provider = "notion"       -> notionVerifier(r)
    [] provider = "airtable"     -> airtableVerifier(r)
    [] provider = "datadog"      -> datadogVerifier(r)
    [] provider = "figma"        -> figmaVerifier(r)
    [] provider = "slack"        -> slackVerifier(r)
    [] provider = "google"       -> googleVerifier(r)
    [] provider = "cloudflare"   -> cloudflareVerifier(r)

-----------------------------------------------------------------------------
(* cacheSet: only definite outcomes are kept. *)
CacheSet(status) == IF status \in {"active", "inactive"}
                    THEN [status |-> status, expires |-> vclock + VerdictTTL] ELSE verdicts

(* Mutant: an expired entry is served once more. *)
CacheHitLate == verdicts.status # "none"

(* cacheGet. *)
CacheHit == verdicts.status # "none" /\ vclock <= verdicts.expires

(* The types of the rules that flag the value, by the registry. *)
NewRegistry ==
  /\ InPlay = {}
  /\ \E f \in defaultRegistry, g \in Partners : lastLive' = [h \in {f, g} |-> VerifyHorizon]
  /\ UNCHANGED <<vclock, verdicts, check, pairing>>

(* verifyWithRegistry on one finding: no verifier for the type, a cached   *)
(* outcome of the value, or a request.                                     *)
StartCheck(c) ==
  /\ check[c].pc = "new" /\ InPlay # {}
  /\ \/ check' = [check EXCEPT ![c] = Done("unknown")]
     \/ /\ CacheHit
        /\ check' = [check EXCEPT ![c] = Done(verdicts.status)]
     \/ /\ ~CacheHit
        /\ \E f \in InPlay :
             check' = [check EXCEPT ![c] = [@ EXCEPT !.pc = "asked", !.provider = f,
                                                    !.asked = vclock]]
  /\ pairing' = NoPairing /\ UNCHANGED <<vclock, lastLive, verdicts>>

(* The answer, about the value as it was while the request ran; an error   *)
(* or a timeout is unknown.                                                *)
Answered(c) ==
  /\ check[c].pc = "asked"
  /\ \E at \in check[c].asked..vclock, failed \in BOOLEAN :
       \E r \in Responses(check[c].provider, LiveAt(check[c].provider, at)) :
         LET status == IF failed THEN "unknown" ELSE Verdict(check[c].provider, r)
         IN  /\ check' = [check EXCEPT ![c] = Done(status)]
             /\ verdicts' = CacheSet(status)
  /\ pairing' = NoPairing /\ UNCHANGED <<vclock, lastLive>>

(* The value is revoked at a provider. *)
RevokeSecret(f) ==
  /\ lastLive[f] = VerifyHorizon /\ vclock < VerifyHorizon
  /\ lastLive' = [lastLive EXCEPT ![f] = vclock]
  /\ pairing' = NoPairing /\ UNCHANGED <<vclock, verdicts, check>>

(* Time passes; a later scan of the process verifies the finding again. *)
VerifyTick ==
  /\ InPlay # {} /\ vclock < VerifyHorizon /\ vclock' = vclock + 1
  /\ check' = [c \in Checks |-> IF check[c].pc = "done" THEN NewCheck ELSE check[c]]
  /\ \A c \in Checks : check[c].pc = "asked" => vclock - check[c].asked < RequestTime
  /\ pairing' = NoPairing /\ UNCHANGED <<lastLive, verdicts>>

-----------------------------------------------------------------------------
(* awsPrePass over the (at most awsMaxCandidates) secrets near the key ID: *)
(* active wins, inactive needs every pair rejected, an error is no answer. *)
AwsStatus(answers) ==
  IF \E i \in DOMAIN answers : answers[i] = "active" THEN "active"
  ELSE IF answers # << >> /\ \A i \in DOMAIN answers : answers[i] = "inactive" THEN "inactive"
  ELSE "unknown"

awsMaxCandidates == 3

(* verifyPair, external: the pair that is live is accepted, any other is   *)
(* rejected; either may be throttled, or the request may fail.             *)
PairAnswers(live) == {"unknown", "error", IF live THEN "active" ELSE "inactive"}

AwsPrePass ==
  /\ InPlay = {} /\ pairing = NoPairing
  /\ \E n \in 0..awsMaxCandidates : \E right \in 0..n :
       \E answers \in [1..n -> {"active", "inactive", "unknown", "error"}] :
         /\ \A i \in 1..n : answers[i] \in PairAnswers(i = right)
         /\ pairing' = [right |-> right, status |-> AwsStatus(answers)]
  /\ UNCHANGED <<vclock, lastLive, verdicts, check>>

VerifyNext ==
  \/ \E c \in Checks : StartCheck(c) \/ Answered(c)
  \/ \E f \in InPlay : RevokeSecret(f)
  \/ NewRegistry \/ VerifyTick \/ AwsPrePass

VerifySpec == VerifyInit /\ [][VerifyNext]_verifyVars

-----------------------------------------------------------------------------
(* A finding reported active was accepted by a provider at most a TTL and  *)
(* a request ago, and one reported inactive is dead at one: no restricted  *)
(* key, failed request or old cache entry says otherwise (cacheGet and the *)
(* verdicts).  An AWS key is reported active only if a candidate is its    *)
(* secret, and never inactive if one is (awsPrePass).                      *)
StatusWasTrue ==
  /\ \A c \in Checks : check[c].pc = "done" =>
       /\ check[c].status = "active" =>
            \E f \in InPlay : LiveAt(f, vclock - VerdictTTL - RequestTime)
       /\ check[c].status = "inactive" => \E f \in InPlay : ~LiveAt(f, vclock)
  /\ pairing.status = "active" => pairing.right # 0
  /\ pairing.status = "inactive" => pairing.right = 0
=============================================================================
