------------------------------ MODULE Detection ------------------------------
(***************************************************************************)
(* From a line ripgrep flagged to the findings of a scan                   *)
(* (morf/detect/detect.go, morf/detect/precision.go): the combined regex   *)
(* and its group map, one finding per match span, the value peeled out of  *)
(* the span, the deduplication and the precision tiers.  A line is a       *)
(* sequence of spans; a span is its value and the rules that match it.     *)
(***************************************************************************)
EXTENDS Integers, Sequences, FiniteSetsExt

CONSTANTS RuleKinds,    \* the type class of each rule, in load order
          SpanValues,   \* classes of span values
          MaxSubexp,    \* most capturing groups inside a rule
          MaxLines,     \* most lines a scan is followed for
          MaxSpans      \* most spans on a line

ASSUME DetectAssumption ==
  /\ RuleKinds \in Seq(STRING)
  /\ MaxSubexp \in Nat /\ MaxLines \in Nat /\ MaxSpans \in Nat

VARIABLES rules,     \* the loaded rules: RE2-compilable, capturing groups
          combined,  \* BuildCombinedRegex succeeded
          lines,     \* the lines flagged so far
          findings,  \* the findings so far
          detected   \* "start", "lines", "raw" (all read), "sane", "tiered"

detectVars == <<rules, combined, lines, findings, detected>>

Rules == DOMAIN RuleKinds
Spans == [value : SpanValues, owners : SUBSET Rules \ {{}}]
Unattributed == 0

DetectInit == rules = << >> /\ combined = TRUE /\ lines = << >>
              /\ findings = << >> /\ detected = "start"

RE2 == {i \in DOMAIN rules : rules[i].re2}

(* What appending the lists ss[1], ss[2], ... in turn makes of an empty one. *)
Appended(ss) ==
  LET upto[k \in 0..Len(ss)] == IF k = 0 THEN << >> ELSE upto[k - 1] \o ss[k]
  IN  upto[Len(ss)]

-----------------------------------------------------------------------------
(* Mutant: the wrapping group of a rule is not counted. *)
GroupToPatternShort ==
  <<Unattributed>> \o Appended([i \in DOMAIN rules |->
    IF rules[i].re2 THEN [k \in 1..rules[i].subs |-> i] ELSE << >>])

(* The group map of BuildCombinedRegex; its first entry is the whole match. *)
GroupToPattern ==
  <<Unattributed>> \o Appended([i \in DOMAIN rules |->
    IF rules[i].re2 THEN [k \in 1..1 + rules[i].subs |-> i] ELSE << >>])

(* The regexp library: the groups of alternative i in "(p1)|(p2)|...".     *)
FirstGroup(i) ==
  1 + SumFunctionOnSet([j \in DOMAIN rules |-> 1 + rules[j].subs], {j \in RE2 : j < i})
Participating(i) == FirstGroup(i)..FirstGroup(i) + rules[i].subs

(* The leftmost alternative that matches wins the span. *)
Winner(span) == Min(span.owners \cap RE2)

(* The first participating group names the rule (FindMatchingPattern). *)
Attribute(i) ==
  LET named == {g \in Participating(i) : g < Len(GroupToPattern)}
  IN  IF named = {} THEN Unattributed ELSE GroupToPattern[Min(named) + 1]

-----------------------------------------------------------------------------
(* ExtractSecret peels tags, quotes or a key off the span; when nothing    *)
(* but blanks is left the finding carries the raw span.                    *)
ExtractSecret(span) == IF span.value = "blank" THEN "plain" ELSE span.value

Finding(i, span) == [rule |-> i, value |-> ExtractSecret(span)]

(* What a loop keeps of a list: its entries at the given places, in order. *)
Keep(list, places) ==
  Appended([k \in DOMAIN list |-> IF k \in places THEN <<list[k]>> ELSE << >>])

(* FindingsForLine: every span the combined regex matches, or every match  *)
(* of every rule when there is none; a line nothing attributes still       *)
(* yields one finding, for the first rule Go cannot compile.               *)
FindingsForLine(line) ==
  LET matched == Keep(line, {k \in DOMAIN line : line[k].owners \cap RE2 # {}})
      single(i) == Keep(line, {k \in DOMAIN line : i \in line[k].owners})
      exact == IF combined
               THEN [k \in DOMAIN matched |-> Finding(Attribute(Winner(matched[k])), matched[k])]
               ELSE Appended([i \in DOMAIN rules |->
                      IF i \in RE2 THEN [k \in DOMAIN single(i) |-> Finding(i, single(i)[k])]
                      ELSE << >>])
      opaque == DOMAIN rules \ RE2
  IN  IF exact # << >> THEN exact
      ELSE <<Finding(IF opaque = {} THEN Unattributed ELSE Min(opaque), line[1])>>

(* SanitizeSecrets: the first finding of each (type, value). *)
SanitizeSecrets(fs) ==
  Keep(fs, {k \in DOMAIN fs : \A h \in 1..k - 1 : fs[h] # fs[k]})

(* classifyPrecision on the classes the rules tell apart: "placeholder"    *)
(* and "bcrypt" values, prose, a PEM block (which reads as prose), other   *)
(* high-entropy values.                                                    *)
ClassifyPrecision(kind, value) ==
  CASE value \in {"placeholder", "bcrypt"}                           -> "drop"
    [] kind \in {"credential", "public"} /\ value \in {"prose", "pem"} -> "drop"
    [] kind = "private key" /\ value # "pem"                         -> "drop"
    [] kind = "jwt" /\ value = "certificate"                         -> "drop"
    [] kind = "keychain" /\ value # "group"                          -> "drop"
    [] kind \in {"public", "keychain"}                               -> "info"
    [] OTHER                                                         -> "keep"

KindOf(i) == IF i = Unattributed THEN "credential" ELSE RuleKinds[i]
Tier(f)   == ClassifyPrecision(KindOf(f.rule), f.value)

(* ApplyPrecision. *)
ApplyPrecision(fs) == Keep(fs, {k \in DOMAIN fs : Tier(fs[k]) # "drop"})

-----------------------------------------------------------------------------
(* The rules are loaded and the union built, if it compiles at all. *)
LoadRules ==
  /\ detected = "start" /\ detected' = "lines"
  /\ rules' \in [Rules -> [re2 : BOOLEAN, subs : 0..MaxSubexp]]
  /\ combined' \in BOOLEAN
  /\ (\A i \in Rules : ~rules'[i].re2) => ~combined'
  /\ UNCHANGED <<lines, findings>>

(* ripgrep reports another line that some rule matches. *)
FlaggedLine(line) ==
  /\ detected = "lines" /\ Len(lines) < MaxLines
  /\ lines' = Append(lines, line) /\ findings' = findings \o FindingsForLine(line)
  /\ UNCHANGED <<rules, combined, detected>>

EndOfOutput ==
  /\ detected = "lines" /\ detected' = "raw"
  /\ UNCHANGED <<rules, combined, lines, findings>>

Sanitize ==
  /\ detected = "raw" /\ detected' = "sane" /\ findings' = SanitizeSecrets(findings)
  /\ UNCHANGED <<rules, combined, lines>>

Precision ==
  /\ detected = "sane" /\ detected' = "tiered" /\ findings' = ApplyPrecision(findings)
  /\ UNCHANGED <<rules, combined, lines>>

DetectNext ==
  \/ LoadRules \/ EndOfOutput \/ Sanitize \/ Precision
  \/ \E n \in 1..MaxSpans : \E line \in [1..n -> Spans] : FlaggedLine(line)

DetectSpec == DetectInit /\ [][DetectNext]_detectVars

-----------------------------------------------------------------------------
AllSpans == UNION {Range(lines[l]) : l \in DOMAIN lines}
Flagged(f, s) == f.value = ExtractSecret(s) /\ f.rule \in s.owners \cap RE2

(* Recall and attribution: every span a Go rule matches ends as a finding  *)
(* under a rule that matches it, however many capturing groups the rules   *)
(* before it have, unless the precision tiers drop it (FindingsForLine,    *)
(* BuildCombinedRegex); no other finding names a Go rule, and no (type,    *)
(* value) pair is reported twice (SanitizeSecrets).                        *)
SpansReported ==
  /\ \A s \in AllSpans : s.owners \cap RE2 # {} =>
       \/ \E k \in DOMAIN findings : Flagged(findings[k], s)
       \/ detected = "tiered" /\ \E i \in s.owners \cap RE2 : Tier(Finding(i, s)) = "drop"
  /\ \A k \in DOMAIN findings :
       findings[k].rule \in RE2 => \E s \in AllSpans : Flagged(findings[k], s)
  /\ detected \in {"sane", "tiered"} => IsInjective(findings)
=============================================================================
