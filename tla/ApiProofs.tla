----------------------------- MODULE ApiProofs ------------------------------
(***************************************************************************)
(* What a request meets, for every value of the constants: the upload      *)
(* budget of the S3 store, the limit of an address, the keys of the API    *)
(* and their last use, and the pages of the dead letters.                  *)
(***************************************************************************)
EXTENDS RemoteStore, ClientLimiter, KeyAuth, KeyUsage, DeadLetters, SumLemmas

-----------------------------------------------------------------------------
(* RemoteStore.  BudgetConserved is a sum over all calls, so a step is     *)
(* judged by the one weight it changes; a call that is not sending holds   *)
(* nothing.                                                                *)

Call == [at : Phases, size : Nat, reader : Readers, weight : Nat, attempt : Nat,
         closed : BOOLEAN]

(* Only a call that is sending holds a part of the budget, and no more     *)
(* than there is.                                                          *)
RemoteShape ==
  /\ object \in [Puts -> Puts \cup {NoObject}]
  /\ avail \in Nat
  /\ upload \in [Puts -> Call]
  /\ \A p \in Puts : upload[p].at # "send" => upload[p].weight = 0

RemoteInv == RemoteShape /\ BudgetConserved /\ PutIsTrue

(* The smaller of two integers (FiniteSetsExt).                            *)
LEMMA MinOfTwo == ASSUME NEW a \in Int, NEW b \in Int, a >= b PROVE Min({a, b}) = b
BY DEF Min

(* The capacity is positive (newByteSemaphore).                            *)
LEMMA CapType == Cap \in Nat /\ \A n \in Nat : Clamp(n) \in Nat /\ (n <= Cap => Clamp(n) = n)
BY RemoteAssumption DEF Cap, Clamp

(* The budget held by one call is part of what all calls hold.             *)
LEMMA WeightWithin ==
  ASSUME RemoteShape, BudgetConserved, NEW p \in Puts
  PROVE  avail + upload[p].weight <= Cap
<1>1. \A q \in Puts : Weights[q] \in Nat
  BY Zenon DEF Weights, RemoteShape, Call
<1>2. SumFunctionOnSet(Weights, Puts \ {p}) \in Nat
  BY <1>1, SumClosed, RemoteAssumption, Zenon
<1>3. SumFunctionOnSet(Weights, Puts) = Weights[p] + SumFunctionOnSet(Weights, Puts \ {p})
  BY <1>1, SumRemove, RemoteAssumption
<1>4. Weights[p] = upload[p].weight /\ upload[p].weight \in Nat /\ avail \in Nat
  BY Zenon DEF Weights, RemoteShape, Call
<1> QED  BY <1>2, <1>3, <1>4, CapType DEF BudgetConserved

(* One call's weight changes, and the budget by as much the other way.     *)
LEMMA BudgetStep ==
  ASSUME RemoteShape, BudgetConserved, RemoteShape', NEW p \in Puts,
         \A q \in Puts : q # p => upload'[q].weight = upload[q].weight,
         avail' - avail = upload[p].weight - upload'[p].weight
  PROVE  BudgetConserved'
<1> DEFINE f == Weights
           g == Weights'
<1>1. \A q \in Puts : f[q] \in Nat /\ g[q] \in Nat /\ (q # p => f[q] = g[q])
  BY Zenon DEF Weights, RemoteShape, Call
<1>2. f[p] = upload[p].weight /\ g[p] = upload'[p].weight
  BY Zenon DEF Weights
<1> HIDE DEF f, g
<1>3. SumFunctionOnSet(g, Puts) = SumFunctionOnSet(f, Puts) - f[p] + g[p]
  BY <1>1, SumUpdate, RemoteAssumption
<1>4. SumFunctionOnSet(f, Puts) \in Nat
  BY <1>1, SumClosed, RemoteAssumption, Zenon
<1>5. avail + SumFunctionOnSet(f, Puts) = Cap /\ avail \in Nat /\ avail' \in Nat
  BY Zenon DEF f, BudgetConserved, RemoteShape
<1>6. avail' + SumFunctionOnSet(g, Puts) = Cap
  BY <1>1, <1>2, <1>3, <1>4, <1>5
<1> QED  BY <1>6, Zenon DEF g, BudgetConserved


(* A call that returns gives back what it holds, and wakes the others.     *)
LEMMA ReleaseStep ==
  ASSUME RemoteShape, BudgetConserved, NEW p \in Puts, upload[p].at = "send",
         NEW outcome \in {"done", "failed"}, Release(p, outcome),
         object' \in [Puts -> Puts \cup {NoObject}]
  PROVE  /\ RemoteShape' /\ BudgetConserved'
         /\ upload'[p].at = outcome
         /\ \A q \in Puts : q # p => (upload'[q].at = "done" <=> upload[q].at = "done")
<1> DEFINE w == upload[p].weight
<1>1. w \in Nat /\ avail \in Nat /\ avail + w <= Cap /\ w <= Cap
  BY WeightWithin, CapType DEF RemoteShape, Call
<1>2. avail' = avail + w
  <2>1. Clamp(w) = w /\ Cap \in Nat
    BY <1>1, CapType, Zenon
  <2>2. Min({Cap, avail + w}) = avail + w
    BY <1>1, <2>1, MinOfTwo
  <2> QED  BY <2>1, <2>2, Zenon DEF Release
<1> DEFINE up == [upload EXCEPT ![p].at = outcome, ![p].weight = 0]
<1>3. /\ up \in [Puts -> Call]
      /\ up[p].at = outcome /\ up[p].weight = 0
      /\ \A q \in Puts : q # p => up[q] = upload[q]
  <2> DEFINE c == [upload[p] EXCEPT !.at = outcome, !.weight = 0]
  <2>1. upload \in [Puts -> Call] /\ upload[p] \in Call /\ outcome \in Phases
    BY Zenon DEF RemoteShape, Phases
  <2>2. 0 \in Nat
    OBVIOUS
  <2>3. c \in Call
    BY <2>1, <2>2, Zenon DEF Call
  <2>4. c.at = outcome /\ c.weight = 0
    BY <2>1, Zenon DEF Call
  <2>5. up = [upload EXCEPT ![p] = c]
    BY <2>1, Zenon
  <2> HIDE DEF c, up
  <2> QED  BY <2>1, <2>3, <2>4, <2>5, Zenon
<1>4. upload' = Broadcast(up)
  BY Zenon DEF Release
<1> HIDE DEF up
<1>5. /\ upload' \in [Puts -> Call]
      /\ \A q \in Puts : upload'[q].weight = up[q].weight
      /\ \A q \in Puts : upload'[q].at = (IF up[q].at = "asleep" THEN "acquire" ELSE up[q].at)
  BY <1>3, <1>4 DEF Broadcast, Call, Phases
<1>6. RemoteShape'
  BY <1>1, <1>2, <1>3, <1>5 DEF RemoteShape
<1>7. BudgetConserved'
  BY <1>1, <1>2, <1>3, <1>5, <1>6, BudgetStep
<1> QED  BY <1>3, <1>5, <1>6, <1>7, Zenon

(* Another attempt of the same call holds what it held.                    *)
LEMMA NextAttempt ==
  ASSUME NEW c \in Call, NEW n \in Nat, NEW b \in BOOLEAN
  PROVE  LET d == [c EXCEPT !.attempt = n, !.closed = b]
         IN  d \in Call /\ d.weight = c.weight /\ d.at = c.at
BY Zenon DEF Call

(* The calls of one Put keep the budget and the truth of its answer.       *)
LEMMA RemoteStep == ASSUME RemoteInv, [RemoteNext]_remoteVars PROVE RemoteInv'
<1> USE DEF RemoteInv
<1>1. ASSUME NEW p \in Puts, NEW size \in Sizes \cup {Unknown}, NEW reader \in Readers,
             PutS3(p, size, reader)
      PROVE  RemoteInv'
  <2>1. PICK c : /\ upload' = [upload EXCEPT ![p] = c]
                 /\ c \in Call /\ c.weight = 0 /\ c.at \in {"failed", "acquire"}
    <3> DEFINE streamed == size >= 0 /\ reader # "pipe"
               Refused(len) == \/ size > MaxUpload
                               \/ ~streamed /\ (len > MaxUpload \/ (size >= 0 /\ len # size))
               Entry(len) == [NewPut EXCEPT
                                !.at = IF Refused(len) THEN "failed" ELSE "acquire",
                                !.size = IF Refused(len) THEN 0 ELSE IF streamed THEN size ELSE len,
                                !.reader = IF streamed THEN reader ELSE "pipe"]
    <3>1. PICK len \in Sizes : upload' = [upload EXCEPT ![p] = Entry(len)]
      BY <1>1, Zenon DEF PutS3
    <3>2. (streamed => size \in Nat) /\ len \in Nat
      BY RemoteAssumption DEF Unknown
    <3> HIDE DEF streamed, Refused
    <3>3. /\ Entry(len) \in Call /\ Entry(len).weight = 0
          /\ Entry(len).at \in {"failed", "acquire"}
      BY <3>2, Zenon DEF NewPut, Call, Phases, Readers
    <3> HIDE DEF Entry
    <3> QED  BY <3>1, <3>3, Zenon
  <2>2. upload[p].weight = 0
    BY <1>1, Zenon DEF PutS3, RemoteShape
  <2>3. RemoteShape'
    BY <1>1, <2>1, Zenon DEF PutS3, RemoteShape
  <2>4. BudgetConserved'
    BY <1>1, <2>1, <2>2, <2>3, BudgetStep DEF PutS3, RemoteShape
  <2>5. PutIsTrue'
    BY <1>1, <2>1, Zenon DEF PutS3, RemoteShape, PutIsTrue
  <2> QED  BY <2>3, <2>4, <2>5, Zenon
<1>2. ASSUME NEW p \in Puts, Acquire(p) PROVE RemoteInv'
  <2> DEFINE n == Clamp(upload[p].size)
  <2>1. n \in Nat /\ upload[p].weight = 0 /\ avail \in Nat
    BY <1>2, CapType, Zenon DEF Acquire, RemoteShape, Call
  <2>2. CASE avail >= n /\ avail' = avail - n
             /\ upload' = [upload EXCEPT ![p].at = "send", ![p].weight = n]
    <3> HIDE DEF n
    <3>1. /\ upload' \in [Puts -> Call]
          /\ upload'[p].weight = n /\ upload'[p].at = "send"
          /\ \A q \in Puts : q # p => upload'[q] = upload[q]
      <4> DEFINE c == [upload[p] EXCEPT !.at = "send", !.weight = n]
      <4>1. upload \in [Puts -> Call] /\ upload[p] \in Call /\ "send" \in Phases
        BY Zenon DEF RemoteShape, Phases
      <4>2. c \in Call
        BY <2>1, <4>1, Zenon DEF Call
      <4>3. c.at = "send" /\ c.weight = n
        BY <4>1, Zenon DEF Call
      <4>4. upload' = [upload EXCEPT ![p] = c]
        BY <2>2, <4>1, Zenon
      <4> HIDE DEF c
      <4> QED  BY <4>1, <4>2, <4>3, <4>4, Zenon
    <3>2. RemoteShape'
      BY <1>2, <2>1, <2>2, <3>1 DEF Acquire, RemoteShape
    <3>3. BudgetConserved'
      BY <2>1, <2>2, <3>1, <3>2, BudgetStep
    <3>4. PutIsTrue'
      BY <1>2, <3>1, Zenon DEF Acquire, PutIsTrue
    <3> QED  BY <3>2, <3>3, <3>4, Zenon
  <2>3. CASE UNCHANGED avail /\ upload' = [upload EXCEPT ![p].at =
                                 IF p \in cancelled THEN "failed" ELSE "asleep"]
    <3>1. /\ upload' \in [Puts -> Call]
          /\ upload'[p].weight = 0 /\ upload'[p].at \in {"failed", "asleep"}
          /\ \A q \in Puts : q # p => upload'[q] = upload[q]
      BY <2>1, <2>3 DEF RemoteShape, Call, Phases
    <3>2. RemoteShape'
      BY <1>2, <2>3, <3>1, Zenon DEF Acquire, RemoteShape
    <3>3. BudgetConserved'
      BY <2>1, <2>3, <3>1, <3>2, BudgetStep
    <3>4. PutIsTrue'
      BY <1>2, <3>1, Zenon DEF Acquire, PutIsTrue
    <3> QED  BY <3>2, <3>3, <3>4, Zenon
  <2> QED  BY <1>2, <2>2, <2>3, Zenon DEF Acquire
<1>3. ASSUME NEW p \in Puts, SendAttempt(p) PROVE RemoteInv'
  <2>0. upload[p].at = "send"
    BY <1>3, Zenon DEF SendAttempt
  <2>1. CASE Release(p, "failed") /\ UNCHANGED object
    <3>1. object' \in [Puts -> Puts \cup {NoObject}]
      BY <2>1, Zenon DEF RemoteShape
    <3>2. /\ RemoteShape' /\ BudgetConserved' /\ upload'[p].at = "failed"
          /\ \A q \in Puts : q # p => (upload'[q].at = "done" <=> upload[q].at = "done")
      BY <2>0, <2>1, <3>1, ReleaseStep, Zenon
    <3> QED  BY <2>1, <3>2, Zenon DEF PutIsTrue
  <2>2. ASSUME NEW answer \in Answers,
               object' \in CASE answer = "2xx"  -> {[object EXCEPT ![p] = p]}
                             [] answer = "lost" -> {object, [object EXCEPT ![p] = p]}
                             [] OTHER           -> {object},
               IF Transient(answer) /\ upload[p].attempt < S3Retries
               THEN /\ upload' = [upload EXCEPT ![p].attempt = @ + 1,
                                                ![p].closed = upload[p].reader = "file"]
                    /\ UNCHANGED avail
               ELSE Release(p, Outcome(answer))
        PROVE  RemoteInv'
    <3>1. /\ object' \in [Puts -> Puts \cup {NoObject}]
          /\ \A q \in Puts : q # p => object'[q] = object[q]
          /\ Outcome(answer) = "done" => object'[p] = p
      BY <2>2, Zenon DEF RemoteShape, Outcome, Answers
    <3>2. CASE /\ upload' = [upload EXCEPT ![p].attempt = @ + 1,
                                           ![p].closed = upload[p].reader = "file"]
               /\ UNCHANGED avail
      <4>1. /\ upload' \in [Puts -> Call]
            /\ \A q \in Puts : /\ upload'[q].weight = upload[q].weight
                               /\ upload'[q].at = upload[q].at
        <5> DEFINE n == upload[p].attempt + 1
                   b == upload[p].reader = "file"
                   c == [upload[p] EXCEPT !.attempt = n, !.closed = b]
        <5>1. upload' = [upload EXCEPT ![p] = c]
          BY <3>2, Zenon DEF RemoteShape
        <5>2. upload[p] \in Call
          BY Zenon DEF RemoteShape
        <5>3. n \in Nat
          BY <5>2 DEF Call
        <5>4. b \in BOOLEAN
          BY Zenon
        <5> HIDE DEF b, n
        <5>5. c \in Call /\ c.weight = upload[p].weight /\ c.at = upload[p].at
          BY <5>2, <5>3, <5>4, NextAttempt, Zenon
        <5> HIDE DEF c
        <5> QED  BY <5>1, <5>5, Zenon DEF RemoteShape
      <4>2. RemoteShape'
        BY <3>1, <3>2, <4>1, Zenon DEF RemoteShape
      <4>3. BudgetConserved'
        <5>1. \A q \in Puts : q # p => upload'[q].weight = upload[q].weight
          BY <4>1, Zenon
        <5>2. upload[p].weight \in Nat /\ avail \in Int
          BY DEF RemoteShape, Call
        <5>3. avail' - avail = upload[p].weight - upload'[p].weight
          BY <3>2, <4>1, <5>2
        <5> QED  BY <4>2, <5>1, <5>3, BudgetStep, Zenon
      <4> QED  BY <2>0, <3>1, <4>1, <4>2, <4>3 DEF PutIsTrue
    <3>3. CASE Release(p, Outcome(answer))
      <4>1. Outcome(answer) \in {"done", "failed"}
        BY Zenon DEF Outcome
      <4>2. /\ RemoteShape' /\ BudgetConserved' /\ upload'[p].at = Outcome(answer)
            /\ \A q \in Puts : q # p => (upload'[q].at = "done" <=> upload[q].at = "done")
        BY <2>0, <3>1, <3>3, <4>1, ReleaseStep, Zenon
      <4> QED  BY <3>1, <4>2, Zenon DEF PutIsTrue
    <3> QED  BY <2>2, <3>2, <3>3, Zenon
  <2> QED  BY <1>3, <2>1, <2>2, Zenon DEF SendAttempt
<1>4. ASSUME NEW p \in Puts, AfterFunc(p) PROVE RemoteInv'
  <2>1. /\ upload' \in [Puts -> Call]
        /\ \A q \in Puts : upload'[q].weight = upload[q].weight
        /\ \A q \in Puts : upload'[q].at = IF upload[q].at = "asleep" THEN "acquire" ELSE upload[q].at
    BY <1>4 DEF AfterFunc, Broadcast, RemoteShape, Call, Phases
  <2>2. RemoteShape'
    BY <1>4, <2>1, Zenon DEF AfterFunc, RemoteShape
  <2>3. BudgetConserved'
    BY <1>4, <2>1, <2>2, BudgetStep DEF AfterFunc, RemoteShape, Call
  <2> QED  BY <1>4, <2>1, <2>2, <2>3, Zenon DEF AfterFunc, PutIsTrue
<1>5. ASSUME NEW p \in Puts, DeleteS3(p) PROVE RemoteInv'
  <2>1. /\ upload' \in [Puts -> Call]
        /\ \A q \in Puts : upload'[q].weight = upload[q].weight
        /\ upload'[p].at = "deleted" /\ upload[p].at # "send"
        /\ \A q \in Puts : q # p => upload'[q].at = upload[q].at
    BY <1>5 DEF DeleteS3, RemoteShape, Call, Phases
  <2>2. RemoteShape'
    BY <1>5, <2>1, Zenon DEF DeleteS3, RemoteShape
  <2>3. BudgetConserved'
    BY <1>5, <2>1, <2>2, BudgetStep DEF DeleteS3, RemoteShape, Call
  <2> QED  BY <1>5, <2>1, <2>2, <2>3, Zenon DEF DeleteS3, PutIsTrue, RemoteShape
<1>6. ASSUME UNCHANGED <<object, avail, upload>> PROVE RemoteInv'
  BY <1>6, Zenon DEF RemoteShape, BudgetConserved, Weights, PutIsTrue
<1> QED  BY <1>1, <1>2, <1>3, <1>4, <1>5, <1>6, Zenon
         DEF RemoteNext, RemotePut, Cancelled, remoteVars

(* Before the first Put, the whole budget is available.                    *)
LEMMA RemoteStart == RemoteInit => RemoteInv
<1> SUFFICES ASSUME RemoteInit PROVE RemoteInv
  BY Zenon
<1>1. RemoteShape
  BY CapType, Zenon DEF RemoteInit, RemoteShape, NewPut, Call, Phases, Readers
<1>2. \A p \in Puts : Weights[p] = 0
  BY Zenon DEF RemoteInit, Weights, NewPut
<1>3. SumFunctionOnSet(Weights, Puts) = 0
  BY <1>2, SumZero, RemoteAssumption, Zenon
<1>4. PutIsTrue
  BY Zenon DEF RemoteInit, PutIsTrue, NewPut
<1> QED  BY <1>1, <1>3, <1>4, CapType DEF RemoteInv, BudgetConserved, RemoteInit

(* The invariant of the uploads holds, for any number of calls, any        *)
(* capacity and any sizes (S3Storage.Put).                                 *)
LEMMA RemoteInvariant == RemoteSpec => []RemoteInv
<1>1. RemoteInv /\ [RemoteNext]_remoteVars => RemoteInv'
  BY RemoteStep
<1> QED  BY RemoteStart, <1>1, PTL DEF RemoteSpec

(* What is available and what the calls hold is always the whole budget:   *)
(* no path through Put, its retries and its cancelled waits, loses a byte  *)
(* or frees one twice (byteSemaphore.acquire, release).                    *)
THEOREM BudgetIsConserved == RemoteSpec => []BudgetConserved
<1>1. RemoteInv => BudgetConserved
  BY DEF RemoteInv
<1> QED  BY <1>1, RemoteInvariant, PTL

(* A Put that returned nil stored its body, also after answers were lost   *)
(* and requests repeated, for any number of concurrent calls               *)
(* (S3Storage.doWithRetry).                                                *)
THEOREM PutTellsTheTruth == RemoteSpec => []PutIsTrue
<1>1. RemoteInv => PutIsTrue
  BY DEF RemoteInv
<1> QED  BY <1>1, RemoteInvariant, PTL

-----------------------------------------------------------------------------
(* ClientLimiter.  RateIsBounded is not inductive: the invariant bounds    *)
(* what was allowed since any tick together with the tokens that are left, *)
(* and, for a visitor the reaper may forget, what was allowed until it was *)
(* last seen.                                                              *)

(* What the address may still spend at once: a visitor the map forgot      *)
(* starts with a full bucket.                                              *)
Tokens == IF visitor.id = 0 THEN BurstFloor ELSE bucket[visitor.id]

LimiterShape ==
  /\ clock \in 0..Horizon /\ reaped \in Int
  /\ bucket \in Seq(0..BurstFloor)
  /\ visitor \in [id : 0..Len(bucket), seen : 0..clock]
  /\ holds \in [Callers -> 0..Len(bucket)]
  /\ allowed \in [0..Horizon -> Nat]

(* A request between get and Allow holds the visitor's own bucket, seen in *)
(* this tick; nothing was allowed after the visitor was last seen.         *)
LimiterLink ==
  /\ \A c \in Callers : holds[c] # 0 => holds[c] = visitor.id /\ visitor.seen = clock
  /\ \A t \in 0..Horizon : t > clock => allowed[t] = 0
  /\ visitor.id # 0 => \A t \in 0..Horizon : t > visitor.seen => allowed[t] = 0

(* What was allowed since any tick, and what may still be spent, is        *)
(* covered by the burst and the time since.                                *)
Covered ==
  \A from, to \in 0..Horizon :
    from <= clock /\ clock <= to => AllowedIn(from, to) + Tokens <= BurstFloor + (clock - from)

(* And when the visitor was last seen, by the time until then.             *)
CoveredSeen ==
  visitor.id # 0 =>
    \A from, to \in 0..Horizon :
      from <= visitor.seen /\ visitor.seen <= to =>
        AllowedIn(from, to) <= BurstFloor + (visitor.seen - from)

LimiterInv == LimiterShape /\ LimiterLink /\ Covered /\ CoveredSeen /\ RateIsBounded

(* NewRateLimiter's clamps are positive.                                   *)
LEMMA Floors == BurstFloor \in Nat \ {0} /\ IdleFloor \in Nat \ {0} /\ IdleFloor >= BurstFloor
BY LimiterAssumption DEF BurstFloor, IdleFloor

(* What is on a list of S is in S.                                         *)
LEMMA ElementOfList == ASSUME NEW S, NEW s \in Seq(S), NEW i \in 1..Len(s) PROVE s[i] \in S
OBVIOUS

(* No bucket holds more than its burst.                                    *)
LEMMA TokensType == ASSUME LimiterShape PROVE Tokens \in 0..BurstFloor
<1>1. CASE visitor.id = 0
  BY <1>1, Floors DEF Tokens
<1>2. CASE visitor.id # 0
  <2>1. visitor.id \in 1..Len(bucket)
    BY <1>2 DEF LimiterShape
  <2>2. bucket[visitor.id] \in 0..BurstFloor
    BY <2>1, ElementOfList, Zenon DEF LimiterShape
  <2> QED  BY <1>2, <2>2, Zenon DEF Tokens
<1> QED  BY <1>1, <1>2, Zenon

(* A count over a stretch of time.                                         *)
LEMMA AllowedType ==
  ASSUME LimiterShape, NEW from \in 0..Horizon, NEW to \in 0..Horizon
  PROVE  AllowedIn(from, to) \in Nat
<1>1. IsFiniteSet(from..to)
  BY FS_Interval, LimiterAssumption
<1>2. \A t \in from..to : allowed[t] \in Nat
  BY LimiterAssumption DEF LimiterShape
<1>3. SumFunctionOnSet(allowed, from..to) \in Nat
  BY <1>1, <1>2, SumClosed, Zenon
<1> QED  BY <1>3, Zenon DEF AllowedIn

(* A stretch in which nothing was allowed.                                 *)
LEMMA AllowedNone ==
  ASSUME NEW from \in 0..Horizon, NEW to \in 0..Horizon, \A t \in from..to : allowed[t] = 0
  PROVE  AllowedIn(from, to) = 0
<1>1. IsFiniteSet(from..to)
  BY FS_Interval, LimiterAssumption
<1>2. SumFunctionOnSet(allowed, from..to) = 0
  BY <1>1, SumZero, Zenon
<1> QED  BY <1>2, Zenon DEF AllowedIn

(* One more request counts in the stretches that hold its tick.            *)
LEMMA AllowedMore ==
  ASSUME LimiterShape, allowed' = [allowed EXCEPT ![clock] = @ + 1],
         NEW from \in 0..Horizon, NEW to \in 0..Horizon
  PROVE  AllowedIn(from, to)' = AllowedIn(from, to)
                                  + (IF from <= clock /\ clock <= to THEN 1 ELSE 0)
<1> DEFINE f == allowed
           g == allowed'
           S == from..to
<1>1. IsFiniteSet(S)
  BY FS_Interval, LimiterAssumption
<1>2. /\ \A t \in S : f[t] \in Nat /\ g[t] \in Nat /\ (t # clock => g[t] = f[t])
      /\ clock \in S => g[clock] = f[clock] + 1
      /\ clock \in S <=> from <= clock /\ clock <= to
      /\ clock \in S \/ clock \notin S
  BY LimiterAssumption DEF LimiterShape
<1>3. SumFunctionOnSet(f, S) \in Nat
  BY AllowedType, Zenon DEF AllowedIn
<1>4. AllowedIn(from, to) = SumFunctionOnSet(f, S) /\ AllowedIn(from, to)' = SumFunctionOnSet(g, S)
  BY Zenon DEF AllowedIn
<1> HIDE DEF f, g, S
<1>5. CASE clock \in S
  <2>1. SumFunctionOnSet(g, S) = SumFunctionOnSet(f, S) - f[clock] + g[clock]
    BY <1>1, <1>2, <1>5, SumUpdate
  <2> QED  BY <1>2, <1>3, <1>4, <1>5, <2>1
<1>6. CASE clock \notin S
  <2>1. SumFunctionOnSet(g, S) = SumFunctionOnSet(f, S)
    BY <1>1, <1>2, <1>6, SumAgree, Zenon
  <2> QED  BY <1>2, <1>3, <1>4, <1>6, <2>1
<1> QED  BY <1>5, <1>6, Zenon


(* get makes a full bucket for an address the map does not know.           *)
LEMMA GetStep == ASSUME LimiterInv, NEW c \in Callers, GetBucket(c) PROVE LimiterInv'
<1> USE DEF LimiterInv
<1>1. UNCHANGED <<clock, reaped, allowed>> /\ holds' = [holds EXCEPT ![c] = visitor'.id]
  BY Zenon DEF GetBucket
<1>2. /\ bucket' \in Seq(0..BurstFloor) /\ Len(bucket') >= Len(bucket)
      /\ visitor' \in [id : 1..Len(bucket'), seen : {clock}]
      /\ Tokens' = Tokens
      /\ visitor.id # 0 => visitor'.id = visitor.id
  <2>1. CASE visitor.id = 0
    <3>1. /\ bucket' = Append(bucket, BurstFloor)
          /\ visitor' = [id |-> Len(bucket) + 1, seen |-> clock]
      BY <2>1, Zenon DEF GetBucket
    <3>2. /\ bucket' \in Seq(0..BurstFloor) /\ Len(bucket') = Len(bucket) + 1
          /\ bucket'[Len(bucket) + 1] = BurstFloor
      BY <3>1, Floors DEF LimiterShape
    <3> QED  BY <2>1, <3>1, <3>2 DEF Tokens, LimiterShape
  <2>2. CASE visitor.id # 0
    <3>1. visitor' = [visitor EXCEPT !.seen = clock] /\ UNCHANGED bucket
      BY <2>2, Zenon DEF GetBucket
    <3> QED  BY <2>2, <3>1 DEF Tokens, LimiterShape
  <2> QED  BY <2>1, <2>2, Zenon
<1>3. LimiterShape'
  BY <1>1, <1>2 DEF LimiterShape
<1>4. LimiterLink'
  <2>1. ASSUME NEW d \in Callers, holds'[d] # 0
        PROVE  holds'[d] = visitor'.id /\ visitor'.seen = clock'
    <3>1. CASE d = c
      BY <1>1, <1>2, <3>1, Zenon DEF LimiterShape
    <3>2. CASE d # c
      <4>1. holds[d] # 0 /\ holds[d] = visitor.id /\ holds'[d] = holds[d]
        BY <1>1, <2>1, <3>2, Zenon DEF LimiterShape, LimiterLink
      <4> QED  BY <1>1, <1>2, <4>1, Zenon
    <3> QED  BY <3>1, <3>2, Zenon
  <2>2. visitor'.seen = clock /\ clock' = clock /\ allowed' = allowed
    BY <1>1, <1>2, Zenon
  <2> QED  BY <2>1, <2>2, Zenon DEF LimiterLink
<1>5. Covered' /\ RateIsBounded'
  BY <1>1, <1>2, Zenon DEF Covered, RateIsBounded, AllowedIn
<1>6. CoveredSeen'
  <2> SUFFICES ASSUME NEW from \in 0..Horizon, NEW to \in 0..Horizon, from <= clock, clock <= to
               PROVE  AllowedIn(from, to) <= BurstFloor + (clock - from)
    BY <1>1, <1>2, Zenon DEF CoveredSeen, AllowedIn
  <2>1. AllowedIn(from, to) \in Nat /\ Tokens \in Nat /\ clock \in Nat
    BY AllowedType, TokensType, Floors DEF LimiterShape
  <2>2. AllowedIn(from, to) + Tokens <= BurstFloor + (clock - from)
    BY Zenon DEF Covered
  <2> QED  BY <2>1, <2>2, Floors, LimiterAssumption
<1> QED  BY <1>3, <1>4, <1>5, <1>6, Zenon

(* Allow spends a token of the visitor's bucket.                           *)
LEMMA TakeStep == ASSUME LimiterInv, NEW c \in Callers, TakeToken(c) PROVE LimiterInv'
<1> USE DEF LimiterInv
<1>1. /\ UNCHANGED <<clock, visitor, reaped>> /\ holds' = [holds EXCEPT ![c] = 0]
      /\ holds[c] = visitor.id /\ visitor.id # 0 /\ visitor.seen = clock
      /\ visitor.id \in 1..Len(bucket) /\ visitor.id \in Nat
  BY DEF TakeToken, LimiterLink, LimiterShape
<1>2. CASE UNCHANGED <<bucket, allowed>>
  <2>1. LimiterShape' /\ LimiterLink'
    BY <1>1, <1>2 DEF LimiterShape, LimiterLink
  <2>2. Covered' /\ CoveredSeen' /\ RateIsBounded'
    BY <1>1, <1>2, Zenon DEF Covered, CoveredSeen, RateIsBounded, AllowedIn, Tokens
  <2> QED  BY <2>1, <2>2, Zenon
<1>3. CASE /\ bucket[holds[c]] > 0
           /\ bucket' = [bucket EXCEPT ![holds[c]] = @ - 1]
           /\ allowed' = [allowed EXCEPT ![clock] = @ + 1]
  <2>0. bucket[visitor.id] \in 0..BurstFloor /\ bucket[visitor.id] > 0
    <3>1. bucket[visitor.id] \in 0..BurstFloor
      BY <1>1, TokensType, Zenon DEF Tokens
    <3> QED  BY <1>1, <1>3, <3>1, Zenon
  <2>1. /\ bucket' \in Seq(0..BurstFloor) /\ Len(bucket') = Len(bucket)
        /\ bucket'[visitor.id] = bucket[visitor.id] - 1
    BY <1>1, <1>3, <2>0, Floors DEF LimiterShape
  <2>2. allowed' \in [0..Horizon -> Nat] /\ \A t \in 0..Horizon : t # clock => allowed'[t] = allowed[t]
    BY <1>3 DEF LimiterShape
  <2>3. LimiterShape'
    BY <1>1, <2>1, <2>2 DEF LimiterShape
  <2>4. LimiterLink'
    BY <1>1, <2>2 DEF LimiterLink, LimiterShape
  <2>5. Tokens \in Nat /\ Tokens' = Tokens - 1 /\ Tokens > 0
    BY <1>1, <2>0, <2>1, Floors DEF Tokens
  <2>6. ASSUME NEW from \in 0..Horizon, NEW to \in 0..Horizon, from <= clock, clock <= to
        PROVE  /\ AllowedIn(from, to)' + Tokens' <= BurstFloor + (clock - from)
               /\ AllowedIn(from, to)' <= BurstFloor + (clock - from)
    <3>1. AllowedIn(from, to) \in Nat /\ AllowedIn(from, to)' = AllowedIn(from, to) + 1
      BY <1>3, <2>6, AllowedType, AllowedMore, Zenon
    <3>2. AllowedIn(from, to) + Tokens <= BurstFloor + (clock - from)
      BY <2>6, Zenon DEF Covered
    <3>3. clock \in Int /\ from \in Int /\ BurstFloor \in Int
      BY Floors DEF LimiterShape
    <3> QED  BY <2>5, <3>1, <3>2, <3>3
  <2>7. Covered' /\ CoveredSeen'
    BY <1>1, <2>6, Zenon DEF Covered, CoveredSeen
  <2>8. ASSUME NEW from \in 0..Horizon, NEW to \in 0..Horizon, from <= to
        PROVE  AllowedIn(from, to)' <= BurstFloor + (to - from)
    <3>1. CASE from <= clock /\ clock <= to
      <4>1. AllowedIn(from, to)' <= BurstFloor + (clock - from)
        BY <2>6, <3>1, Zenon
      <4>2. clock \in Int /\ from \in Int /\ to \in Int /\ BurstFloor \in Int
        BY Floors DEF LimiterShape
      <4>3. AllowedIn(from, to)' \in Int
        BY <1>3, AllowedType, AllowedMore, <3>1
      <4> QED  BY <3>1, <4>1, <4>2, <4>3
    <3>2. CASE ~(from <= clock /\ clock <= to)
      <4>1. AllowedIn(from, to) \in Nat /\ AllowedIn(from, to)' = AllowedIn(from, to) + 0
        BY <1>3, <3>2, AllowedType, AllowedMore, Zenon
      <4>2. AllowedIn(from, to) <= BurstFloor + (to - from)
        BY <2>8, Zenon DEF RateIsBounded
      <4> QED  BY <4>1, <4>2
    <3> QED  BY <3>1, <3>2, Zenon
  <2>9. RateIsBounded'
    BY <2>8, Zenon DEF RateIsBounded
  <2> QED  BY <2>3, <2>4, <2>7, <2>9, Zenon
<1> QED  BY <1>2, <1>3, Zenon DEF TakeToken


(* The reaper forgets a visitor only after its bucket had time to refill.  *)
LEMMA ReapStep == ASSUME LimiterInv, ReapVisitors PROVE LimiterInv'
<1> USE DEF LimiterInv
<1>1. UNCHANGED <<clock, bucket, holds, allowed>> /\ reaped' = clock
  BY Zenon DEF ReapVisitors
<1>2. CASE visitor' = visitor
  <2>1. LimiterShape' /\ LimiterLink'
    BY <1>1, <1>2 DEF LimiterShape, LimiterLink
  <2>2. Covered' /\ CoveredSeen' /\ RateIsBounded'
    BY <1>1, <1>2, Zenon DEF Covered, CoveredSeen, RateIsBounded, AllowedIn, Tokens
  <2> QED  BY <2>1, <2>2, Zenon
<1>3. CASE visitor.seen < clock - IdleFloor /\ visitor' = NoVisitor /\ visitor.id # 0
  <2>1. visitor.seen \in Nat /\ clock \in 0..Horizon /\ visitor.seen + BurstFloor < clock
    BY <1>3, Floors DEF LimiterShape
  <2>2. LimiterShape'
    BY <1>1, <1>3, LimiterAssumption DEF LimiterShape, NoVisitor
  <2>3. LimiterLink'
    BY <1>1, <1>3, <2>1, Floors DEF LimiterLink, NoVisitor, LimiterShape
  <2>4. ASSUME NEW from \in 0..Horizon, NEW to \in 0..Horizon, from <= clock, clock <= to
        PROVE  AllowedIn(from, to) <= clock - from
    <3>1. CASE from <= visitor.seen
      <4>1. AllowedIn(from, to) <= BurstFloor + (visitor.seen - from)
        BY <1>3, <2>1, <2>4, <3>1, Floors DEF CoveredSeen
      <4>2. AllowedIn(from, to) \in Nat
        BY AllowedType, Zenon
      <4> QED  BY <2>1, <4>1, <4>2, Floors
    <3>2. CASE from > visitor.seen
      <4>1. \A t \in from..to : allowed[t] = 0
        BY <1>3, <2>1, <3>2, LimiterAssumption DEF LimiterLink
      <4>2. AllowedIn(from, to) = 0
        BY <4>1, AllowedNone, Zenon
      <4> QED  BY <2>1, <2>4, <4>2
    <3> QED  BY <2>1, <3>1, <3>2
  <2>5. Tokens' = BurstFloor
    BY <1>3, Zenon DEF Tokens, NoVisitor
  <2>6. Covered'
    <3> SUFFICES ASSUME NEW from \in 0..Horizon, NEW to \in 0..Horizon, from <= clock, clock <= to
                 PROVE  AllowedIn(from, to) + BurstFloor <= BurstFloor + (clock - from)
      BY <1>1, <2>5, Zenon DEF Covered, AllowedIn
    <3> QED  BY <2>1, <2>4, AllowedType, Floors
  <2>7. CoveredSeen' /\ RateIsBounded'
    BY <1>1, <1>3, Zenon DEF CoveredSeen, RateIsBounded, AllowedIn, NoVisitor
  <2> QED  BY <2>2, <2>3, <2>6, <2>7, Zenon
<1>4. CASE visitor' = NoVisitor /\ visitor.id = 0
  <2>1. LimiterShape'
    BY <1>1, <1>4, LimiterAssumption DEF LimiterShape, NoVisitor
  <2>2. LimiterLink'
    BY <1>1, <1>4, Zenon DEF LimiterLink, NoVisitor, LimiterShape
  <2>3. Covered' /\ CoveredSeen' /\ RateIsBounded'
    BY <1>1, <1>4, Zenon DEF Covered, CoveredSeen, RateIsBounded, AllowedIn, Tokens, NoVisitor
  <2> QED  BY <2>1, <2>2, <2>3, Zenon
<1> QED  BY <1>2, <1>3, <1>4, Zenon DEF ReapVisitors

(* A tick brings back one token, and one more tick to spend it in.         *)
LEMMA TickStep == ASSUME LimiterInv, LimiterTick PROVE LimiterInv'
<1> USE DEF LimiterInv
<1>1. /\ clock' = clock + 1 /\ clock < Horizon /\ \A c \in Callers : holds[c] = 0
      /\ UNCHANGED <<visitor, holds, reaped, allowed>>
      /\ bucket' = [i \in 1..Len(bucket) |-> Min({BurstFloor, bucket[i] + 1})]
      /\ clock \in Nat /\ Horizon \in Nat /\ Len(bucket) \in Nat
  BY LimiterAssumption DEF LimiterTick, LimiterShape
<1>2. \A i \in 1..Len(bucket) : /\ Min({BurstFloor, bucket[i] + 1}) \in 0..BurstFloor
                                /\ Min({BurstFloor, bucket[i] + 1}) <= bucket[i] + 1
  <2> SUFFICES ASSUME NEW i \in 1..Len(bucket)
               PROVE  /\ Min({BurstFloor, bucket[i] + 1}) \in 0..BurstFloor
                      /\ Min({BurstFloor, bucket[i] + 1}) <= bucket[i] + 1
    BY Zenon
  <2>1. bucket[i] \in 0..BurstFloor
    BY ElementOfList, Zenon DEF LimiterShape
  <2> DEFINE b == bucket[i] + 1
  <2>2. b \in Nat /\ BurstFloor \in Nat
    BY <2>1, Floors
  <2> HIDE DEF b
  <2>3. Min({BurstFloor, b}) = IF b <= BurstFloor THEN b ELSE BurstFloor
    BY <2>2 DEF Min
  <2> QED  BY <2>2, <2>3 DEF b
<1>3. /\ bucket' \in Seq(0..BurstFloor) /\ Len(bucket') = Len(bucket)
      /\ \A i \in 1..Len(bucket) : bucket'[i] <= bucket[i] + 1
  BY <1>1, <1>2
<1>4. LimiterShape'
  BY <1>1, <1>3 DEF LimiterShape
<1>5. LimiterLink'
  BY <1>1 DEF LimiterLink, LimiterShape
<1>6. Tokens \in 0..BurstFloor /\ Tokens' \in 0..BurstFloor /\ Tokens' <= Tokens + 1
  <2>1. CASE visitor.id = 0
    BY <1>1, <2>1, Floors DEF Tokens
  <2>2. CASE visitor.id # 0
    <3>1. visitor.id \in 1..Len(bucket)
      BY <2>2 DEF LimiterShape
    <3>2. Tokens = bucket[visitor.id] /\ Tokens' = bucket'[visitor.id]
      BY <1>1, <2>2, Zenon DEF Tokens
    <3>3. Tokens \in 0..BurstFloor
      BY TokensType, Zenon
    <3> QED  BY <1>1, <1>2, <1>3, <3>1, <3>2, <3>3, Zenon
  <2> QED  BY <2>1, <2>2, Zenon
<1>7. Covered'
  <2> SUFFICES ASSUME NEW from \in 0..Horizon, NEW to \in 0..Horizon, from <= clock + 1, clock + 1 <= to
               PROVE  AllowedIn(from, to) + Tokens' <= BurstFloor + (clock + 1 - from)
    BY <1>1 DEF Covered, AllowedIn
  <2>1. CASE from <= clock
    <3>1. AllowedIn(from, to) + Tokens <= BurstFloor + (clock - from)
      BY <1>1, <2>1 DEF Covered
    <3>2. AllowedIn(from, to) \in Nat
      BY AllowedType, Zenon
    <3> QED  BY <1>1, <1>6, <3>1, <3>2, Floors
  <2>2. CASE from > clock
    <3>1. \A t \in from..to : allowed[t] = 0
      BY <1>1, <2>2 DEF LimiterLink
    <3>2. AllowedIn(from, to) = 0
      BY <3>1, AllowedNone, Zenon
    <3>3. clock + 1 - from = 0
      BY <1>1, <2>2
    <3>4. Tokens' \in Nat /\ Tokens' <= BurstFloor /\ BurstFloor \in Nat
      BY <1>6, Floors
    <3> QED  BY <3>2, <3>3, <3>4
  <2> QED  BY <1>1, <2>1, <2>2
<1>8. CoveredSeen' /\ RateIsBounded'
  BY <1>1, Zenon DEF CoveredSeen, RateIsBounded, AllowedIn
<1> QED  BY <1>4, <1>5, <1>7, <1>8, Zenon


(* An address gets at most its burst and one request a tick over every     *)
(* stretch of time, whatever the number of requests in flight.             *)
THEOREM AddressIsLimited == LimiterSpec => []RateIsBounded
<1>1. LimiterInit => LimiterInv
  <2> SUFFICES ASSUME LimiterInit PROVE LimiterInv
    BY Zenon
  <2>1. LimiterShape
    BY LimiterAssumption DEF LimiterInit, LimiterShape, NoVisitor
  <2>2. ASSUME NEW from \in 0..Horizon, NEW to \in 0..Horizon
        PROVE  AllowedIn(from, to) = 0
    BY AllowedNone, LimiterAssumption DEF LimiterInit
  <2>3. Tokens = BurstFloor /\ clock = 0
    BY Zenon DEF LimiterInit, Tokens, NoVisitor
  <2>4. Covered /\ CoveredSeen /\ RateIsBounded
    BY <2>2, <2>3, Floors, LimiterAssumption
       DEF Covered, CoveredSeen, RateIsBounded, LimiterInit, NoVisitor
  <2> QED  BY <2>1, <2>4, Zenon DEF LimiterInv, LimiterLink, LimiterInit, NoVisitor
<1>2. LimiterInv /\ [LimiterNext]_limiterVars => LimiterInv'
  <2> SUFFICES ASSUME LimiterInv, [LimiterNext]_limiterVars PROVE LimiterInv'
    BY Zenon
  <2>1. CASE UNCHANGED limiterVars
    BY <2>1, Zenon DEF limiterVars, LimiterInv, LimiterShape, LimiterLink, Covered, CoveredSeen,
                RateIsBounded, AllowedIn, Tokens
  <2> QED  BY <2>1, GetStep, TakeStep, ReapStep, TickStep, Zenon DEF LimiterNext
<1>3. LimiterInv => RateIsBounded
  BY Zenon DEF LimiterInv
<1> QED  BY <1>1, <1>2, <1>3, PTL DEF LimiterSpec

-----------------------------------------------------------------------------
(* KeyAuth.  The invariant bounds how long the cache, and every copy of    *)
(* the row in flight, may call the key active, and says that the key has   *)
(* one limiter.                                                            *)

KeyStages == {"idle", "lookup", "store", "check", "get", "make", "allow"}
Copies == [at : KeyStages, active : BOOLEAN, read : Nat, lim : Nat]

KeyShape ==
  /\ keyTime \in Nat /\ revoked \in {Never} \cup 0..keyTime
  /\ keyCache \in [active : BOOLEAN, till : Int]
  /\ request \in [Clients -> Copies]
  /\ overdue \in Nat

(* The last moment at which the key's row was active.                      *)
LastActive == IF revoked = Never THEN keyTime ELSE revoked

(* How long the cache, a copy just read and a copy about to be checked may *)
(* say that the key is active.                                             *)
KeyTimes ==
  /\ keyCache.active => keyCache.till <= LastActive + KeyTTL + LookupTime
  /\ \A r \in Clients : request[r].at = "store" =>
       /\ request[r].read <= keyTime /\ keyTime <= request[r].read + LookupTime
       /\ request[r].active => request[r].read <= LastActive
  /\ \A r \in Clients : request[r].at = "check" /\ request[r].active =>
       keyTime <= LastActive + KeyTTL + LookupTime
  /\ overdue <= KeyTTL + LookupTime

(* The key has one limiter, whose tokens and the requests served make up   *)
(* the limit.                                                              *)
KeyLimits ==
  /\ mapped \in {0, 1} /\ served \in Nat
  /\ \A r \in Clients : request[r].at = "allow" => request[r].lim = 1 /\ mapped = 1
  /\ mapped = 0 => limiter = <<>> /\ served = 0
  /\ mapped = 1 => \E n \in Nat : limiter = <<n>> /\ served + n = Limit

KeyInv == KeyShape /\ KeyTimes /\ KeyLimits

(* A request's own step changes only its copy.                             *)
LEMMA OneCopy ==
  ASSUME KeyShape, NEW r \in Clients, NEW c \in Copies,
         request' = [request EXCEPT ![r] = c]
  PROVE  /\ request' \in [Clients -> Copies] /\ request'[r] = c
         /\ \A q \in Clients : q # r => request'[q] = request[q]
BY Zenon DEF KeyShape

(* The TTL and the time of a lookup are numbers, and the row was last      *)
(* active at some past moment.                                             *)
LEMMA KeyArith == KeyTTL \in Nat /\ LookupTime \in Nat /\ (KeyShape => LastActive \in Nat /\ LastActive <= keyTime)
BY KeyAssumption DEF KeyShape, LastActive, Never

(* A request that finds a fresh entry takes its copy; another goes to the  *)
(* database (validateAPIKeyCached).                                        *)
LEMMA LookupStep == ASSUME KeyInv, NEW r \in Clients, CacheLookup(r) PROVE KeyInv'
<1> USE DEF KeyInv
<1>1. CASE keyTime < keyCache.till /\ request' = [request EXCEPT ![r] = Cached] /\ UNCHANGED keyCache
  <2>1. Cached \in Copies /\ Cached.at = "check" /\ Cached.active = keyCache.active
    BY Zenon DEF Cached, NoCopy, Copies, KeyStages, KeyShape
  <2>2. /\ request' \in [Clients -> Copies] /\ request'[r] = Cached
        /\ \A q \in Clients : q # r => request'[q] = request[q]
    BY <1>1, <2>1, OneCopy, Zenon
  <2>3. KeyShape' /\ LastActive' = LastActive
    BY <1>1, <2>2, Zenon DEF CacheLookup, KeyShape, LastActive
  <2>4. KeyTimes'
    BY <1>1, <2>1, <2>2, <2>3, KeyArith DEF CacheLookup, KeyTimes, KeyShape
  <2>5. KeyLimits'
    BY <2>1, <2>2, Zenon DEF CacheLookup, KeyLimits, limitVars
  <2> QED  BY <2>3, <2>4, <2>5, Zenon
<1>2. CASE Stage(r, "lookup") /\ keyCache' = NoEntry
  <2> DEFINE c == [request[r] EXCEPT !.at = "lookup"]
  <2>1. c \in Copies /\ c.at = "lookup" /\ request' = [request EXCEPT ![r] = c]
    BY <1>2, Zenon DEF Stage, Copies, KeyStages, KeyShape
  <2> HIDE DEF c
  <2>2. /\ request' \in [Clients -> Copies] /\ request'[r] = c
        /\ \A q \in Clients : q # r => request'[q] = request[q]
    BY <2>1, OneCopy, Zenon
  <2>3. KeyShape' /\ LastActive' = LastActive
    BY <1>2, <2>2 DEF CacheLookup, KeyShape, LastActive, NoEntry, Never
  <2>4. KeyTimes'
    BY <1>2, <2>1, <2>2, <2>3, Zenon DEF CacheLookup, KeyTimes, NoEntry
  <2>5. KeyLimits'
    BY <2>1, <2>2, Zenon DEF CacheLookup, KeyLimits, limitVars
  <2> QED  BY <2>3, <2>4, <2>5, Zenon
<1> QED  BY <1>1, <1>2, Zenon DEF CacheLookup


(* ValidateAPIKey's copy tells when the row was active.                    *)
LEMMA ReadRowStep == ASSUME KeyInv, NEW r \in Clients, ReadRow(r) PROVE KeyInv'
<1> USE DEF KeyInv
<1> DEFINE live == revoked = Never
           c == [request[r] EXCEPT !.at = "store", !.active = live, !.read = keyTime]
<1>1. UNCHANGED <<keyTime, revoked, keyCache, overdue, limitVars>> /\ LastActive' = LastActive
  BY Zenon DEF ReadRow, LastActive
<1>2. ASSUME NEW d \in Copies, request' = [request EXCEPT ![r] = d],
             d.at = "idle" \/ (d.at = "store" /\ d.read = keyTime /\ (d.active => revoked = Never))
      PROVE  KeyInv'
  <2>2. /\ request' \in [Clients -> Copies] /\ request'[r] = d
        /\ \A q \in Clients : q # r => request'[q] = request[q]
    BY <1>2, OneCopy, Zenon
  <2>3. KeyShape'
    BY <1>1, <2>2, Zenon DEF KeyShape
  <2>4. KeyTimes'
    <3>1. revoked = Never => LastActive = keyTime
      BY Zenon DEF LastActive
    <3> QED  BY <1>1, <1>2, <2>2, <3>1, KeyArith DEF KeyTimes, KeyShape
  <2>5. KeyLimits'
    BY <1>1, <1>2, <2>2, Zenon DEF KeyLimits, limitVars
  <2> QED  BY <2>3, <2>4, <2>5, Zenon
<1>3. CASE request' = [request EXCEPT ![r] = NoCopy]
  BY <1>2, <1>3, Zenon DEF NoCopy, Copies, KeyStages
<1>4. CASE request' = [request EXCEPT ![r] = c]
  <2>1. live \in BOOLEAN /\ (live => revoked = Never)
    BY Zenon
  <2> HIDE DEF live
  <2>2. c \in Copies /\ c.at = "store" /\ c.read = keyTime /\ c.active = live
    BY <2>1, Zenon DEF Copies, KeyStages, KeyShape
  <2> HIDE DEF c
  <2>3. c.active => revoked = Never
    BY <2>1, <2>2, Zenon
  <2> QED  BY <1>2, <1>4, <2>2, <2>3, Zenon
<1>5. request' = [request EXCEPT ![r] = c] \/ request' = [request EXCEPT ![r] = NoCopy]
  BY Zenon DEF ReadRow, KeyShape
<1> QED  BY <1>3, <1>4, <1>5, Zenon

(* An entry expires at most the TTL and a lookup after the row was active. *)
LEMMA StoreStep == ASSUME KeyInv, NEW r \in Clients, StoreEntry(r) PROVE KeyInv'
<1> USE DEF KeyInv
<1> DEFINE c == [request[r] EXCEPT !.at = "check", !.read = 0]
<1>1. /\ UNCHANGED <<keyTime, revoked, overdue, limitVars>> /\ LastActive' = LastActive
      /\ request[r].at = "store"
  BY Zenon DEF StoreEntry, LastActive
<1>2. c \in Copies /\ c.at = "check" /\ c.active = request[r].active
  BY Zenon DEF Copies, KeyStages, KeyShape
<1>3. request' = [request EXCEPT ![r] = c]
  BY Zenon DEF StoreEntry, KeyShape
<1> HIDE DEF c
<1>4. /\ request' \in [Clients -> Copies] /\ request'[r] = c
      /\ \A q \in Clients : q # r => request'[q] = request[q]
  BY <1>2, <1>3, OneCopy, Zenon
<1>5. \/ keyCache' = keyCache
      \/ keyCache' = [active |-> request[r].active, till |-> keyTime + KeyTTL]
  BY Zenon DEF StoreEntry
<1>6. request[r].active \in BOOLEAN /\ request[r].read \in Nat
  BY Zenon DEF KeyShape, Copies
<1>7. KeyShape'
  BY <1>1, <1>4, <1>5, <1>6, KeyArith DEF KeyShape
<1>8. request[r].active => keyTime <= LastActive + LookupTime
  BY <1>1, <1>6, KeyArith DEF KeyTimes, KeyShape
<1>9. KeyTimes'
  <2>1. keyCache'.active => keyCache'.till <= LastActive + KeyTTL + LookupTime
    <3>1. CASE keyCache' = keyCache
      BY <3>1, Zenon DEF KeyTimes
    <3>2. CASE keyCache' = [active |-> request[r].active, till |-> keyTime + KeyTTL]
      <4>1. keyCache'.active = request[r].active /\ keyCache'.till = keyTime + KeyTTL
        BY <3>2, Zenon
      <4> QED  BY <1>8, <4>1, KeyArith DEF KeyShape
    <3> QED  BY <1>5, <3>1, <3>2, Zenon
  <2>2. request[r].active => keyTime <= LastActive + KeyTTL + LookupTime
    BY <1>8, KeyArith DEF KeyShape
  <2> QED  BY <1>1, <1>2, <1>4, <2>1, <2>2, Zenon DEF KeyTimes
<1>10. KeyLimits'
  BY <1>1, <1>2, <1>4, Zenon DEF KeyLimits, limitVars
<1> QED  BY <1>7, <1>9, <1>10, Zenon

(* IsValid accepts an active copy, which is never too old.                 *)
LEMMA UseStep == ASSUME KeyInv, NEW r \in Clients, UseKey(r) PROVE KeyInv'
<1> USE DEF KeyInv
<1>1. /\ UNCHANGED <<keyTime, revoked, keyCache, limitVars>> /\ LastActive' = LastActive
      /\ request[r].at = "check"
  BY Zenon DEF UseKey, LastActive
<1>2. ASSUME NEW c \in Copies, request' = [request EXCEPT ![r] = c], c.at \in {"idle", "get"},
             overdue' \in Nat, overdue' <= KeyTTL + LookupTime
      PROVE  KeyInv'
  <2>2. /\ request' \in [Clients -> Copies] /\ request'[r] = c
        /\ \A q \in Clients : q # r => request'[q] = request[q]
    BY <1>2, OneCopy, Zenon
  <2>3. KeyShape'
    BY <1>1, <1>2, <2>2, Zenon DEF KeyShape
  <2>4. KeyTimes'
    BY <1>1, <1>2, <2>2, Zenon DEF KeyTimes
  <2>5. KeyLimits'
    BY <1>1, <1>2, <2>2, Zenon DEF KeyLimits, limitVars
  <2> QED  BY <2>3, <2>4, <2>5, Zenon
<1>3. CASE IsValid(r)
  <2> DEFINE c == [request[r] EXCEPT !.at = "get"]
  <2>1. c \in Copies /\ c.at = "get" /\ request' = [request EXCEPT ![r] = c]
    BY <1>3 DEF UseKey, Stage, Copies, KeyStages, KeyShape
  <2>2. overdue' = IF revoked # Never /\ keyTime - revoked > overdue THEN keyTime - revoked ELSE overdue
    BY <1>3, Zenon DEF UseKey
  <2>3. keyTime <= LastActive + KeyTTL + LookupTime
    BY <1>1, <1>3, Zenon DEF IsValid, KeyTimes
  <2>4. overdue' \in Nat /\ overdue' <= KeyTTL + LookupTime
    <3>1. CASE overdue' = overdue
      BY <3>1, Zenon DEF KeyShape, KeyTimes
    <3>2. CASE revoked # Never /\ keyTime - revoked > overdue /\ overdue' = keyTime - revoked
      <4>1. LastActive = revoked /\ revoked \in Nat /\ keyTime \in Nat /\ overdue \in Nat
        BY <3>2, KeyArith, Zenon DEF LastActive, KeyShape
      <4> QED  BY <2>3, <3>2, <4>1, KeyArith
    <3> QED  BY <2>2, <3>1, <3>2, Zenon
  <2> QED  BY <1>2, <2>1, <2>4, Zenon
<1>4. CASE ~IsValid(r)
  <2>1. request' = [request EXCEPT ![r] = NoCopy] /\ overdue' = overdue
    BY <1>4, Zenon DEF UseKey
  <2>2. NoCopy \in Copies /\ NoCopy.at = "idle"
    BY Zenon DEF NoCopy, Copies, KeyStages
  <2>3. overdue' \in Nat /\ overdue' <= KeyTTL + LookupTime
    BY <2>1, Zenon DEF KeyShape, KeyTimes
  <2> QED  BY <1>2, <2>1, <2>2, <2>3, Zenon
<1> QED  BY <1>3, <1>4, Zenon


(* Looking a limiter up, making one and asking it leave the times alone.   *)
LEMMA LimitShape ==
  ASSUME KeyInv, NEW r \in Clients, NEW c \in Copies, request' = [request EXCEPT ![r] = c],
         c.at \in {"idle", "make", "allow"}, UNCHANGED <<keyTime, revoked, keyCache, overdue>>
  PROVE  /\ KeyShape' /\ KeyTimes' /\ request'[r] = c
         /\ \A q \in Clients : q # r => request'[q] = request[q]
<1> USE DEF KeyInv
<1>1. /\ request' \in [Clients -> Copies] /\ request'[r] = c
      /\ \A q \in Clients : q # r => request'[q] = request[q]
  BY OneCopy, Zenon
<1>2. KeyShape' /\ LastActive' = LastActive
  BY <1>1, Zenon DEF KeyShape, LastActive
<1>3. KeyTimes'
  BY <1>1, <1>2, Zenon DEF KeyTimes
<1> QED  BY <1>1, <1>2, <1>3, Zenon

(* Whoever finds no limiter looks again before making one.                 *)
LEMMA LimitStep ==
  ASSUME KeyInv, NEW r \in Clients, FindLimiter(r) \/ MakeLimiter(r) \/ Allow(r)
  PROVE  KeyInv'
<1> USE DEF KeyInv
<1>0. UNCHANGED <<keyTime, revoked, keyCache, overdue>> /\ Limit \in Nat \ {0}
  BY KeyAssumption DEF FindLimiter, MakeLimiter, Allow, Limit
<1>1. CASE FindLimiter(r)
  <2> DEFINE stage == IF mapped # 0 THEN "allow" ELSE "make"
             c == [request[r] EXCEPT !.at = stage, !.lim = mapped]
  <2>0. request' = [request EXCEPT ![r] = c] /\ UNCHANGED limitVars /\ mapped \in {0, 1}
    BY <1>1, Zenon DEF FindLimiter, KeyShape, KeyLimits
  <2>a. stage \in {"make", "allow"} /\ (stage = "allow" => mapped = 1) /\ request[r] \in Copies
    BY <2>0, Zenon DEF KeyShape
  <2> HIDE DEF stage
  <2>b. c \in Copies /\ c.at = stage /\ c.lim = mapped
    <3> DEFINE cr == request[r]
    <3>1. cr \in Copies /\ mapped \in Nat /\ stage \in KeyStages
      BY <2>0, <2>a DEF KeyStages
    <3> HIDE DEF cr
    <3>2. LET d == [cr EXCEPT !.at = stage, !.lim = mapped]
          IN  d \in Copies /\ d.at = stage /\ d.lim = mapped
      BY <3>1, Zenon DEF Copies
    <3> QED  BY <3>2, Zenon DEF cr
  <2>1. /\ c \in Copies /\ c.at \in {"make", "allow"} /\ (c.at = "allow" => mapped = 1 /\ c.lim = 1)
        /\ request' = [request EXCEPT ![r] = c] /\ UNCHANGED limitVars
    BY <2>0, <2>a, <2>b, Zenon
  <2> HIDE DEF c
  <2>2. /\ KeyShape' /\ KeyTimes' /\ request'[r] = c
        /\ \A q \in Clients : q # r => request'[q] = request[q]
    BY <1>0, <2>1, LimitShape, Zenon
  <2> QED  BY <2>1, <2>2, Zenon DEF KeyLimits, limitVars
<1>2. CASE MakeLimiter(r)
  <2>1. mapped' = 1 /\ served' = served /\ \E n \in Nat : limiter' = <<n>> /\ served + n = Limit
    <3>1. CASE mapped = 0
      BY <1>0, <1>2, <3>1 DEF MakeLimiter, KeyLimits
    <3>2. CASE mapped = 1
      BY <1>2, <3>2 DEF MakeLimiter, KeyLimits
    <3> QED  BY <3>1, <3>2, Zenon DEF KeyLimits
  <2> DEFINE c == [request[r] EXCEPT !.at = "allow", !.lim = 1]
  <2>2. c \in Copies /\ c.at = "allow" /\ c.lim = 1 /\ request' = [request EXCEPT ![r] = c]
    BY <1>2, <2>1, Zenon DEF MakeLimiter, Copies, KeyStages, KeyShape
  <2> HIDE DEF c
  <2>3. /\ KeyShape' /\ KeyTimes' /\ request'[r] = c
        /\ \A q \in Clients : q # r => request'[q] = request[q]
    BY <1>0, <2>2, LimitShape, Zenon
  <2>4. KeyLimits'
    BY <2>1, <2>2, <2>3 DEF KeyLimits
  <2> QED  BY <2>3, <2>4, Zenon
<1>3. CASE Allow(r)
  <2>1. NoCopy \in Copies /\ NoCopy.at = "idle"
    BY Zenon DEF NoCopy, Copies, KeyStages
  <2>2. /\ KeyShape' /\ KeyTimes' /\ request'[r] = NoCopy
        /\ \A q \in Clients : q # r => request'[q] = request[q]
    BY <1>0, <1>3, <2>1, LimitShape, Zenon DEF Allow
  <2>3. PICK n \in Nat : limiter = <<n>> /\ served + n = Limit /\ request[r].lim = 1 /\ mapped = 1
                         /\ served \in Nat
    BY <1>3, Zenon DEF Allow, KeyLimits
  <2>4. mapped' = 1 /\ served' \in Nat /\ \E m \in Nat : limiter' = <<m>> /\ served' + m = Limit
    <3>1. CASE n > 0
      BY <1>0, <1>3, <2>3, <3>1 DEF Allow
    <3>2. CASE n = 0
      BY <1>3, <2>3, <3>2 DEF Allow
    <3> QED  BY <3>1, <3>2
  <2>5. KeyLimits'
    BY <2>1, <2>2, <2>3, <2>4, Zenon DEF KeyLimits
  <2> QED  BY <2>2, <2>5, Zenon
<1> QED  BY <1>1, <1>2, <1>3, Zenon

(* Nobody tells the cache, and time goes on.                               *)
LEMMA RevokeAndTick == ASSUME KeyInv, Revoke \/ KeyTick PROVE KeyInv'
<1> USE DEF KeyInv
<1>1. UNCHANGED <<keyCache, request, overdue, limitVars>>
  BY Zenon DEF Revoke, KeyTick
<1>2. KeyShape' /\ LastActive <= LastActive'
  BY <1>1, KeyArith DEF Revoke, KeyTick, KeyShape, LastActive, Never
<1>3. LastActive \in Nat /\ LastActive' \in Nat
  BY <1>2, KeyArith, KeyAssumption DEF KeyShape, LastActive, Never
<1>4. KeyTimes'
  <2>0. ASSUME NEW t \in Int, t <= LastActive + KeyTTL + LookupTime
        PROVE  t <= LastActive' + KeyTTL + LookupTime
    <3> DEFINE a == LastActive
               b == LastActive'
    <3>1. a \in Nat /\ b \in Nat /\ a <= b
      BY <1>2, <1>3, Zenon
    <3>2. t <= a + KeyTTL + LookupTime
      BY <2>0, Zenon
    <3> HIDE DEF a, b
    <3>3. t <= b + KeyTTL + LookupTime
      BY <3>1, <3>2, KeyAssumption
    <3> QED  BY <3>3, Zenon DEF b
  <2>1. keyCache.active => keyCache.till <= LastActive' + KeyTTL + LookupTime
    BY <1>2, <1>3, KeyArith DEF KeyTimes, KeyShape
  <2>2. ASSUME NEW r \in Clients, request[r].at = "store"
        PROVE  /\ request[r].read <= keyTime' /\ keyTime' <= request[r].read + LookupTime
               /\ request[r].active => request[r].read <= LastActive'
    <3>1. request[r].read \in Nat /\ keyTime \in Nat
      BY Zenon DEF KeyShape, Copies
    <3>2. /\ request[r].read <= keyTime /\ keyTime <= request[r].read + LookupTime
          /\ request[r].active => request[r].read <= LastActive
      BY <2>2, Zenon DEF KeyTimes
    <3>3. keyTime' = keyTime \/ (keyTime' = keyTime + 1 /\ keyTime - request[r].read < LookupTime)
      BY <2>2, Zenon DEF Revoke, KeyTick
    <3> QED  BY <1>2, <1>3, <3>1, <3>2, <3>3, KeyArith
  <2>3. ASSUME NEW r \in Clients, request[r].at = "check", request[r].active
        PROVE  keyTime' <= LastActive' + KeyTTL + LookupTime
    <3>1. keyTime' = keyTime
      BY <2>3, Zenon DEF Revoke, KeyTick
    <3>2. keyTime <= LastActive + KeyTTL + LookupTime
      BY <2>3, Zenon DEF KeyTimes
    <3>3. keyTime \in Int
      BY DEF KeyShape
    <3> QED  BY <2>0, <3>1, <3>2, <3>3, Zenon
  <2> QED  BY <1>1, <2>1, <2>2, <2>3, Zenon DEF KeyTimes
<1>5. KeyLimits'
  BY <1>1, Zenon DEF KeyLimits, limitVars
<1> QED  BY <1>2, <1>4, <1>5, Zenon

(* The invariant of the key cache and the limiters holds, for any number   *)
(* of requests, any TTL and any limit.                                     *)
LEMMA KeyInvariant == KeySpec => []KeyInv
<1>1. KeyInit => KeyInv
  BY KeyArith DEF KeyInit, KeyInv, KeyShape, KeyTimes, KeyLimits, NoEntry, NoCopy, Copies,
                  KeyStages, Never
<1>2. KeyInv /\ [KeyNext]_keyVars => KeyInv'
  <2> SUFFICES ASSUME KeyInv, [KeyNext]_keyVars PROVE KeyInv'
    BY Zenon
  <2>1. CASE UNCHANGED keyVars
    BY <2>1, Zenon DEF keyVars, KeyInv, KeyShape, KeyTimes, KeyLimits, LastActive
  <2> QED  BY <2>1, LookupStep, ReadRowStep, StoreStep, UseStep, LimitStep, RevokeAndTick, Zenon
           DEF KeyNext, KeyRequest
<1> QED  BY <1>1, <1>2, PTL DEF KeySpec

(* A revoked key is refused within the TTL of the cache and the time of a  *)
(* lookup, however lookups and stores interleave (validateAPIKeyCached).   *)
THEOREM RevocationIsBounded == KeySpec => []RevocationTakesEffect
<1>1. KeyInv => RevocationTakesEffect
  BY DEF KeyInv, KeyTimes, RevocationTakesEffect
<1> QED  BY <1>1, KeyInvariant, PTL

(* Concurrent first requests of a key share one limiter, so together they  *)
(* stay within its hourly limit (RateLimiter.GetLimiter).                  *)
THEOREM LimitersAreShared == KeySpec => []LimitIsShared
<1>1. KeyInv => LimitIsShared
  <2>1. Limit \in Nat
    BY KeyAssumption DEF Limit
  <2> QED  BY <2>1 DEF KeyInv, KeyLimits, LimitIsShared
<1> QED  BY <1>1, KeyInvariant, PTL

-----------------------------------------------------------------------------
(* KeyUsage.  LastUsedAdvances is a property of steps; the invariant       *)
(* orders the batches that such a step writes.                             *)

(* One flusher runs, so batches are written in the order they were taken:  *)
(* what is written, being written and buffered are in the order of time.   *)
UsageInv ==
  /\ uses \in Nat /\ pending \in Nat /\ lastUsed \in Nat
  /\ flusher \in [Flushers -> [runs : BOOLEAN, batch : Nat]]
  /\ lastUsed <= uses /\ pending <= uses
  /\ pending # 0 => lastUsed <= pending
  /\ \A f \in Flushers : flusher[f].batch # 0 =>
       /\ flusher[f].runs /\ lastUsed <= flusher[f].batch /\ flusher[f].batch <= uses
       /\ pending # 0 => flusher[f].batch <= pending
  /\ \A f, g \in Flushers : flusher[f].runs /\ flusher[g].runs => f = g

(* A second call to start the flusher starts none.                         *)
LEMMA OnceStep ==
  ASSUME UsageInv, NEW f \in Flushers, FlusherOnce(f)
  PROVE  /\ flusher' \in [Flushers -> [runs : BOOLEAN, batch : Nat]]
         /\ \A g \in Flushers : flusher'[g].batch = flusher[g].batch /\ (flusher[g].runs => flusher'[g].runs)
         /\ \A g, h \in Flushers : flusher'[g].runs /\ flusher'[h].runs => g = h
<1>1. CASE Runs
  BY <1>1, Zenon DEF FlusherOnce, UsageInv
<1>2. CASE ~Runs
  <2>1. flusher' = [flusher EXCEPT ![f] = [flusher[f] EXCEPT !.runs = TRUE]]
    BY <1>2, Zenon DEF FlusherOnce, UsageInv
  <2>2. \A g \in Flushers : ~flusher[g].runs
    BY <1>2, Zenon DEF Runs
  <2>3. [flusher[f] EXCEPT !.runs = TRUE] \in [runs : BOOLEAN, batch : Nat]
        /\ [flusher[f] EXCEPT !.runs = TRUE].batch = flusher[f].batch
    BY Zenon DEF UsageInv
  <2>4. \A g \in Flushers : g # f => flusher'[g] = flusher[g]
    BY <2>1, Zenon DEF UsageInv
  <2> QED  BY <2>1, <2>2, <2>3, <2>4, Zenon DEF UsageInv
<1> QED  BY <1>1, <1>2, Zenon

(* recordKeyUsage adds a later use, a flush writes the batch it swapped    *)
(* out; none is older than the row (flushPendingUsage).                    *)
LEMMA UsageStep ==
  ASSUME UsageInv, [UsageNext]_usageVars
  PROVE  UsageInv' /\ lastUsed' >= lastUsed
<1>1. CASE RecordKeyUsage
  <2>1. PICK f \in Flushers : FlusherOnce(f)
    BY <1>1, Zenon DEF RecordKeyUsage
  <2>2. /\ flusher' \in [Flushers -> [runs : BOOLEAN, batch : Nat]]
        /\ \A g \in Flushers : flusher'[g].batch = flusher[g].batch /\ (flusher[g].runs => flusher'[g].runs)
        /\ \A g, h \in Flushers : flusher'[g].runs /\ flusher'[h].runs => g = h
    BY <2>1, OnceStep, Zenon
  <2>3. uses' = uses + 1 /\ pending' = uses + 1 /\ lastUsed' = lastUsed
    BY <1>1, Zenon DEF RecordKeyUsage
  <2>4. \A g \in Flushers : flusher[g].batch \in Nat
    BY Zenon DEF UsageInv
  <2> QED  BY <2>2, <2>3, <2>4 DEF UsageInv
<1>2. CASE StartAPIKeyUsageFlusher
  <2>1. PICK f \in Flushers : FlusherOnce(f)
    BY <1>2, Zenon DEF StartAPIKeyUsageFlusher
  <2>2. /\ flusher' \in [Flushers -> [runs : BOOLEAN, batch : Nat]]
        /\ \A g \in Flushers : flusher'[g].batch = flusher[g].batch /\ (flusher[g].runs => flusher'[g].runs)
        /\ \A g, h \in Flushers : flusher'[g].runs /\ flusher'[h].runs => g = h
    BY <2>1, OnceStep, Zenon
  <2> QED  BY <1>2, <2>2 DEF UsageInv, StartAPIKeyUsageFlusher
<1>3. ASSUME NEW f \in Flushers, FlushSwap(f) \/ FlushWrite(f), NEW n \in Nat,
             flusher' = [flusher EXCEPT ![f] = [flusher[f] EXCEPT !.batch = n]]
      PROVE  /\ flusher' \in [Flushers -> [runs : BOOLEAN, batch : Nat]]
             /\ \A g \in Flushers : flusher'[g].runs = flusher[g].runs
             /\ flusher'[f].batch = n
             /\ \A g \in Flushers : g # f => flusher'[g] = flusher[g]
  <2>1. flusher[f] \in [runs : BOOLEAN, batch : Nat]
    BY Zenon DEF UsageInv
  <2> DEFINE b == [flusher[f] EXCEPT !.batch = n]
  <2>2. b \in [runs : BOOLEAN, batch : Nat] /\ b.batch = n /\ b.runs = flusher[f].runs
    BY <2>1, Zenon
  <2> HIDE DEF b
  <2>3. flusher' = [flusher EXCEPT ![f] = b]
    BY <1>3, Zenon DEF b
  <2>4. flusher' \in [Flushers -> [runs : BOOLEAN, batch : Nat]] /\ flusher'[f] = b
        /\ \A g \in Flushers : g # f => flusher'[g] = flusher[g]
    BY <2>2, <2>3, Zenon DEF UsageInv
  <2> QED  BY <2>2, <2>4, Zenon
<1>4. ASSUME NEW f \in Flushers, FlushSwap(f) PROVE UsageInv' /\ lastUsed' >= lastUsed
  <2>1. flusher' = [flusher EXCEPT ![f] = [flusher[f] EXCEPT !.batch = pending]] /\ pending \in Nat
    BY <1>4, Zenon DEF FlushSwap, UsageInv
  <2>2. /\ flusher' \in [Flushers -> [runs : BOOLEAN, batch : Nat]]
        /\ \A g \in Flushers : flusher'[g].runs = flusher[g].runs
        /\ flusher'[f].batch = pending
        /\ \A g \in Flushers : g # f => flusher'[g] = flusher[g]
    BY <1>3, <1>4, <2>1, Zenon
  <2>3. pending' = 0 /\ uses' = uses /\ lastUsed' = lastUsed /\ flusher[f].runs /\ pending # 0
    BY <1>4, Zenon DEF FlushSwap
  <2> QED  BY <2>2, <2>3 DEF UsageInv
<1>5. ASSUME NEW f \in Flushers, FlushWrite(f) PROVE UsageInv' /\ lastUsed' >= lastUsed
  <2>1. flusher' = [flusher EXCEPT ![f] = [flusher[f] EXCEPT !.batch = 0]]
    BY <1>5, Zenon DEF FlushWrite, UsageInv
  <2>2. /\ flusher' \in [Flushers -> [runs : BOOLEAN, batch : Nat]]
        /\ \A g \in Flushers : flusher'[g].runs = flusher[g].runs
        /\ flusher'[f].batch = 0
        /\ \A g \in Flushers : g # f => flusher'[g] = flusher[g]
    BY <1>3, <1>5, <2>1, Zenon
  <2>3. /\ pending' = pending /\ uses' = uses /\ lastUsed' \in {flusher[f].batch, lastUsed}
        /\ flusher[f].batch # 0 /\ flusher[f].batch \in Nat
    BY <1>5, Zenon DEF FlushWrite, UsageInv
  <2>4. \A g \in Flushers : g # f => flusher[g].batch = 0
    BY <2>3, Zenon DEF UsageInv
  <2>5. lastUsed' \in Nat /\ lastUsed' >= lastUsed /\ lastUsed' <= uses /\ (pending # 0 => lastUsed' <= pending)
    BY <2>3 DEF UsageInv
  <2> QED  BY <2>2, <2>3, <2>4, <2>5 DEF UsageInv
<1>6. CASE UNCHANGED usageVars
  BY <1>6 DEF usageVars, UsageInv
<1> QED  BY <1>1, <1>2, <1>4, <1>5, <1>6, Zenon DEF UsageNext

(* last_used never goes back, however many goroutines start the flusher.   *)
THEOREM UsageAdvances == UsageSpec => LastUsedAdvances
<1>1. UsageInit => UsageInv
  BY DEF UsageInit, UsageInv
<1>2. UsageInv /\ [UsageNext]_usageVars => UsageInv' /\ [lastUsed' >= lastUsed]_usageVars
  BY UsageStep, Zenon
<1> QED  BY <1>1, <1>2, PTL DEF UsageSpec, LastUsedAdvances

-----------------------------------------------------------------------------
(* DeadLetters.  What a walk still owes is behind its offset, or on the    *)
(* page it reads; a push moves entries back, never forward.                *)

WalkStages == {"idle", "depth", "range", "jobs", "done"}
Walks == [pc : WalkStages, ask : Int, offset : Nat, depth : Nat, page : Seq(Letters),
          listed : SUBSET Letters, due : SUBSET Letters, retried : BOOLEAN]

LetterShape ==
  /\ dlqList \in Seq(Letters) /\ hashes \subseteq Letters
  /\ walk \in Walks /\ walk.due \subseteq hashes

(* A copy of j is behind the first n entries.                              *)
Behind(j, n) == \E i \in 1..Len(dlqList) : i > n /\ dlqList[i] = j

(* What is due and not listed yet is still ahead of the walk: behind its   *)
(* offset, or on the page it reads.                                        *)
WalkAhead ==
  ~walk.retried =>
    /\ walk.pc \in {"depth", "range"} => \A j \in walk.due \ walk.listed : Behind(j, walk.offset)
    /\ walk.pc = "jobs" => \A j \in walk.due \ walk.listed :
         \/ \E i \in 1..Len(walk.page) : walk.page[i] = j
         \/ Behind(j, walk.offset + PageSize(walk.ask))
    /\ walk.pc \in {"range", "jobs"} /\ walk.due \ walk.listed # {} => walk.offset < walk.depth
    /\ walk.pc = "done" => walk.due \subseteq walk.listed

LetterInv == LetterShape /\ WalkAhead

(* A page has a positive number of jobs.                                   *)
LEMMA PageIsPositive == \A ask \in Int : PageSize(ask) \in Nat \ {0}
BY LetterAssumption DEF PageSize

(* No walk yet.                                                            *)
LEMMA NoWalkType ==
  NoWalk \in Walks /\ NoWalk.offset = 0 /\ NoWalk.listed = {} /\ NoWalk.due = {} /\ NoWalk.pc = "idle"
<1> DEFINE none == <<>>
<1>1. none \in Seq(Letters)
  OBVIOUS
<1>2. NoWalk = [pc |-> "idle", ask |-> 0, offset |-> 0, depth |-> 0, page |-> none,
                listed |-> {}, due |-> {}, retried |-> FALSE]
  BY Zenon DEF NoWalk
<1> HIDE DEF none
<1> QED  BY <1>1, <1>2 DEF Walks, WalkStages

(* LREM leaves a list.                                                     *)
LEMMA RemovedIsSeq == ASSUME NEW S, NEW s \in Seq(S), NEW x PROVE LRem(s, x) \in Seq(S)
<1>1. CASE ~OnList(s, x)
  BY <1>1, Zenon DEF LRem
<1>2. CASE OnList(s, x)
  <2> DEFINE t == [i \in 1..(Len(s) - 1) |->
                     IF \A h \in 1..i : s[h] # x THEN s[i] ELSE s[i + 1]]
  <2>1. Len(s) - 1 \in Nat
    BY <1>2 DEF OnList
  <2>2. t \in Seq(S)
    BY <2>1
  <2> QED  BY <1>2, <2>2, Zenon DEF LRem
<1> QED  BY <1>1, <1>2, Zenon

(* r is the part of the list s from place m to place n.                    *)
IsPart(r, S, s, m, n) ==
  /\ r \in Seq(S)
  /\ Len(r) = IF m <= n THEN n - m + 1 ELSE 0
  /\ \A i \in 1..(n - m + 1) : r[i] = s[m + i - 1]

(* LRANGE answers a list of the part asked for.                            *)
LEMMA PartOfList ==
  ASSUME NEW S, NEW s \in Seq(S), NEW m \in Nat \ {0}, NEW n \in Int, n <= Len(s)
  PROVE  IsPart(SubSeq(s, m, n), S, s, m, n)
<1>1. /\ SubSeq(s, m, n) \in Seq(S)
      /\ Len(SubSeq(s, m, n)) = IF m <= n THEN n - m + 1 ELSE 0
      /\ \A i \in 1..(n - m + 1) : SubSeq(s, m, n)[i] = s[m + i - 1]
  OBVIOUS
<1> QED  BY <1>1, Zenon DEF IsPart

(* A push at the head moves everything further back.                       *)
LEMMA PushStep == ASSUME LetterInv, NEW j \in Letters, MoveToDLQ(j) PROVE LetterInv'
<1> USE DEF LetterInv
<1>1. dlqList' = <<j>> \o dlqList /\ UNCHANGED <<hashes, walk>>
  BY Zenon DEF MoveToDLQ
<1>2. /\ dlqList' \in Seq(Letters) /\ Len(dlqList') = Len(dlqList) + 1
      /\ \A i \in 1..Len(dlqList) : dlqList'[i + 1] = dlqList[i]
  <2>1. <<j>> \in Seq(Letters) /\ Len(<<j>>) = 1 /\ dlqList \in Seq(Letters)
    BY DEF LetterShape
  <2>2. /\ <<j>> \o dlqList \in Seq(Letters) /\ Len(<<j>> \o dlqList) = 1 + Len(dlqList)
        /\ \A i \in 1..(1 + Len(dlqList)) :
             (<<j>> \o dlqList)[i] = IF i <= 1 THEN <<j>>[i] ELSE dlqList[i - 1]
    BY <2>1
  <2> QED  BY <1>1, <2>1, <2>2
<1>3. LetterShape'
  BY <1>1, <1>2, Zenon DEF LetterShape
<1>4. ASSUME NEW x, NEW n \in Nat, Behind(x, n) PROVE Behind(x, n)'
  <2>1. PICK i \in 1..Len(dlqList) : i > n /\ dlqList[i] = x
    BY <1>4, Zenon DEF Behind
  <2>2. i + 1 \in 1..Len(dlqList') /\ i + 1 > n /\ dlqList'[i + 1] = x
    BY <1>2, <2>1 DEF LetterShape
  <2> QED  BY <2>2, Zenon DEF Behind
<1>5. walk.offset \in Nat /\ walk.offset + PageSize(walk.ask) \in Nat
  <2>1. walk.offset \in Nat /\ walk.ask \in Int
    BY Zenon DEF LetterShape, Walks
  <2>2. PageSize(walk.ask) \in Nat
    BY <2>1, PageIsPositive, Zenon
  <2> QED  BY <2>1, <2>2
<1>6. /\ \A x : Behind(x, walk.offset) => Behind(x, walk.offset)'
      /\ \A x : Behind(x, walk.offset + PageSize(walk.ask)) => Behind(x, walk.offset + PageSize(walk.ask))'
  BY <1>1, <1>4, <1>5, Zenon
<1>7. WalkAhead'
  BY <1>1, <1>6, Zenon DEF WalkAhead
<1> QED  BY <1>3, <1>7, Zenon


(* A retry ends what the walk promises.                                    *)
LEMMA RetryStep == ASSUME LetterInv, NEW j \in Letters, RetryDLQ(j) PROVE LetterInv'
<1> USE DEF LetterInv
<1> DEFINE b == walk.pc # "idle"
<1>1. b \in BOOLEAN
  BY Zenon
<1>2. walk' = [walk EXCEPT !.retried = b] /\ UNCHANGED hashes
  BY Zenon DEF RetryDLQ
<1>3. dlqList' \in Seq(Letters)
  BY RemovedIsSeq, Zenon DEF RetryDLQ, LetterShape
<1>4. b <=> walk.pc # "idle"
  BY Zenon
<1> HIDE DEF b
<1>5. walk' \in Walks /\ walk'.pc = walk.pc /\ walk'.retried = b /\ walk'.due = walk.due
  BY <1>1, <1>2, Zenon DEF LetterShape, Walks
<1>6. LetterShape'
  BY <1>2, <1>3, <1>5, Zenon DEF LetterShape
<1>7. WalkAhead'
  BY <1>4, <1>5, Zenon DEF WalkAhead
<1> QED  BY <1>6, <1>7, Zenon

(* A job that expires is no longer due.                                    *)
LEMMA ExpireStep == ASSUME LetterInv, NEW j \in Letters, LetterExpires(j) PROVE LetterInv'
<1> USE DEF LetterInv
<1> DEFINE d == walk.due \ {j}
<1>1. walk' = [walk EXCEPT !.due = d] /\ UNCHANGED <<dlqList, parks>> /\ hashes' = hashes \ {j}
  BY Zenon DEF LetterExpires
<1>2. d \in SUBSET Letters /\ d \subseteq hashes'
  BY <1>1, Zenon DEF LetterShape, Walks
<1>2a. d \subseteq walk.due
  BY Zenon
<1> HIDE DEF d
<1>3. /\ walk' \in Walks /\ walk'.due = d /\ walk'.pc = walk.pc /\ walk'.ask = walk.ask
      /\ walk'.offset = walk.offset /\ walk'.depth = walk.depth /\ walk'.page = walk.page
      /\ walk'.listed = walk.listed /\ walk'.retried = walk.retried
  BY <1>1, <1>2, Zenon DEF LetterShape, Walks
<1>4. LetterShape'
  BY <1>1, <1>2, <1>3, Zenon DEF LetterShape
<1>5. WalkAhead'
  BY <1>1, <1>2a, <1>3 DEF WalkAhead, Behind
<1> QED  BY <1>4, <1>5, Zenon

(* Everything due is somewhere in the list when the walk starts.           *)
LEMMA StartStep == ASSUME LetterInv, StartWalk PROVE LetterInv'
<1> USE DEF LetterInv
<1> DEFINE d == {j \in hashes : OnList(dlqList, j)}
<1>1. PICK ask \in Asked : walk' = [NoWalk EXCEPT !.pc = "depth", !.ask = ask, !.due = d]
  BY Zenon DEF StartWalk
<1>2. d \in SUBSET Letters /\ d \subseteq hashes /\ ask \in Int
  BY LetterAssumption, Zenon DEF LetterShape
<1>3. \A j \in d : Behind(j, 0)
  BY DEF OnList, Behind, LetterShape
<1> HIDE DEF d
<1>4. /\ walk' \in Walks /\ walk'.pc = "depth" /\ walk'.due = d /\ walk'.offset = 0
      /\ walk'.listed = {}
  <2>1. NoWalk \in Walks /\ NoWalk.offset = 0 /\ NoWalk.listed = {}
    BY NoWalkType, Zenon
  <2> QED  BY <1>1, <1>2, <2>1, Zenon DEF Walks, WalkStages
<1>5. UNCHANGED <<dlqList, hashes>>
  BY Zenon DEF StartWalk
<1>6. LetterShape'
  BY <1>2, <1>4, <1>5, Zenon DEF LetterShape
<1>7. WalkAhead'
  BY <1>3, <1>4, <1>5, Zenon DEF WalkAhead, Behind
<1> QED  BY <1>6, <1>7, Zenon

(* The depth is read after the offset was chosen.                          *)
LEMMA DepthStep == ASSUME LetterInv, GetDLQDepth PROVE LetterInv'
<1> USE DEF LetterInv
<1>1. /\ walk' = [walk EXCEPT !.pc = "range", !.depth = Len(dlqList)] /\ walk.pc = "depth"
      /\ UNCHANGED <<dlqList, hashes>>
  BY Zenon DEF GetDLQDepth
<1>2. Len(dlqList) \in Nat /\ walk \in Walks
  BY DEF LetterShape
<1>3. /\ walk' \in Walks /\ walk'.pc = "range" /\ walk'.depth = Len(dlqList)
      /\ walk'.offset = walk.offset /\ walk'.due = walk.due
      /\ walk'.listed = walk.listed /\ walk'.retried = walk.retried
  BY <1>1, <1>2, Zenon DEF Walks, WalkStages
<1>4. LetterShape'
  BY <1>1, <1>3, Zenon DEF LetterShape
<1>5. ASSUME ~walk.retried, walk.due \ walk.listed # {} PROVE walk.offset < Len(dlqList)
  <2>1. PICK j \in walk.due \ walk.listed : Behind(j, walk.offset)
    BY <1>1, <1>5, Zenon DEF WalkAhead
  <2>2. walk.offset \in Nat
    BY <1>2, Zenon DEF Walks
  <2> QED  BY <1>2, <2>1, <2>2 DEF Behind
<1>6. WalkAhead'
  BY <1>1, <1>3, <1>5 DEF WalkAhead, Behind
<1> QED  BY <1>4, <1>6, Zenon


(* What is behind the offset is on the page, or behind the page.           *)
LEMMA PageStep == ASSUME LetterInv, GetDLQJobsPage PROVE LetterInv'
<1> USE DEF LetterInv
<1> DEFINE size == PageSize(walk.ask)
           end == walk.offset + size - 1
           page == LRange(dlqList, walk.offset, end)
           last == IF end + 1 > Len(dlqList) THEN Len(dlqList) ELSE end + 1
<1>1. /\ walk' = [walk EXCEPT !.pc = "jobs", !.page = page] /\ walk.pc = "range"
      /\ UNCHANGED <<dlqList, hashes>>
  BY Zenon DEF GetDLQJobsPage
<1>2. walk.offset \in Nat /\ walk.ask \in Int /\ walk \in Walks /\ Len(dlqList) \in Nat
      /\ dlqList \in Seq(Letters)
  BY DEF LetterShape, Walks
<1>3. size \in Nat \ {0}
  BY <1>2, PageIsPositive, Zenon
<1>4. page = SubSeq(dlqList, walk.offset + 1, last)
  BY Zenon DEF LRange
<1> HIDE DEF size
<1>5. last \in Int /\ last <= Len(dlqList) /\ (last = Len(dlqList) \/ last = walk.offset + size)
  BY <1>2, <1>3
<1> HIDE DEF last, page
<1>6. /\ page \in Seq(Letters)
      /\ Len(page) = IF walk.offset + 1 <= last THEN last - (walk.offset + 1) + 1 ELSE 0
      /\ \A i \in 1..(last - (walk.offset + 1) + 1) : page[i] = dlqList[walk.offset + 1 + i - 1]
  <2>1. walk.offset + 1 \in Nat \ {0}
    BY <1>2
  <2>2. IsPart(page, Letters, dlqList, walk.offset + 1, last)
    BY <1>2, <1>4, <1>5, <2>1, PartOfList, Zenon
  <2> QED  BY <2>2, Zenon DEF IsPart
<1>7. /\ walk' \in Walks /\ walk'.pc = "jobs" /\ walk'.page = page /\ walk'.ask = walk.ask
      /\ walk'.offset = walk.offset /\ walk'.due = walk.due /\ walk'.depth = walk.depth
      /\ walk'.listed = walk.listed /\ walk'.retried = walk.retried
  BY <1>1, <1>2, <1>6, Zenon DEF Walks, WalkStages
<1>8. LetterShape'
  BY <1>1, <1>7, Zenon DEF LetterShape
<1>9. ASSUME NEW j, Behind(j, walk.offset)
      PROVE  (\E i \in 1..Len(page) : page[i] = j) \/ Behind(j, walk.offset + size)
  <2>1. PICK i \in 1..Len(dlqList) : i > walk.offset /\ dlqList[i] = j
    BY <1>9, Zenon DEF Behind
  <2>2. CASE i <= last
    <3>1. i - walk.offset \in 1..(last - (walk.offset + 1) + 1) /\ walk.offset + 1 + (i - walk.offset) - 1 = i
      BY <1>2, <1>5, <2>1, <2>2
    <3>2. Len(page) = last - (walk.offset + 1) + 1
      BY <1>2, <1>5, <1>6, <2>1, <2>2
    <3>3. page[i - walk.offset] = j
      BY <1>6, <2>1, <3>1, Zenon
    <3> QED  BY <3>1, <3>2, <3>3, Zenon
  <2>3. CASE ~(i <= last)
    <3>1. i > walk.offset + size
      BY <1>2, <1>3, <1>5, <2>1, <2>3
    <3> QED  BY <2>1, <3>1, Zenon DEF Behind
  <2> QED  BY <2>2, <2>3, Zenon
<1>10. WalkAhead'
  BY <1>1, <1>7, <1>9 DEF WalkAhead, Behind, size
<1> QED  BY <1>8, <1>10, Zenon


(* A job of the page that is due still has its hash, and is listed; the    *)
(* next page starts where this one ended.                                  *)
LEMMA ListStep == ASSUME LetterInv, ListJob PROVE LetterInv'
<1> USE DEF LetterInv
<1>0. /\ walk.pc = "jobs" /\ UNCHANGED <<dlqList, hashes>>
      /\ walk \in Walks /\ walk.page \in Seq(Letters) /\ walk.offset \in Nat /\ walk.ask \in Int
      /\ walk.listed \in SUBSET Letters /\ walk.depth \in Nat
  BY Zenon DEF ListJob, LetterShape, Walks
<1>1. CASE walk.page # <<>>
  <2> DEFINE rest == Tail(walk.page)
             done == walk.listed \cup ({Head(walk.page)} \cap hashes)
  <2>1. walk' = [walk EXCEPT !.page = rest, !.listed = done]
    BY <1>1, Zenon DEF ListJob
  <2>2. /\ rest \in Seq(Letters) /\ Len(rest) = Len(walk.page) - 1
        /\ \A i \in 1..Len(rest) : rest[i] = walk.page[i + 1]
        /\ Len(walk.page) \in Nat /\ Head(walk.page) = walk.page[1]
    BY <1>0, <1>1
  <2>3. done \in SUBSET Letters
    BY <1>0, Zenon DEF LetterShape
  <2>4. walk.listed \subseteq done /\ (Head(walk.page) \in hashes => Head(walk.page) \in done)
    BY Zenon
  <2> HIDE DEF rest, done
  <2>5. /\ walk' \in Walks /\ walk'.pc = "jobs" /\ walk'.page = rest /\ walk'.ask = walk.ask
        /\ walk'.offset = walk.offset /\ walk'.due = walk.due /\ walk'.depth = walk.depth
        /\ walk'.listed = done /\ walk'.retried = walk.retried
    BY <1>0, <2>1, <2>2, <2>3, Zenon DEF Walks
  <2>6. LetterShape'
    BY <1>0, <2>5, Zenon DEF LetterShape
  <2>7. ASSUME NEW j \in walk.due \ done, NEW i \in 1..Len(walk.page), walk.page[i] = j
        PROVE  \E k \in 1..Len(rest) : rest[k] = j
    <3>1. i # 1
      BY <2>2, <2>4, <2>7, Zenon DEF LetterShape
    <3>2. i - 1 \in 1..Len(rest) /\ rest[i - 1] = walk.page[i]
      BY <2>2, <3>1
    <3> QED  BY <2>7, <3>2, Zenon
  <2>8. ASSUME ~walk'.retried PROVE /\ \A j \in walk'.due \ walk'.listed :
                                         \/ \E i \in 1..Len(walk'.page) : walk'.page[i] = j
                                         \/ Behind(j, walk.offset + PageSize(walk.ask))'
                                    /\ walk'.due \ walk'.listed # {} => walk'.offset < walk'.depth
    <3>1. ASSUME NEW j \in walk.due \ done
          PROVE  /\ \/ \E i \in 1..Len(walk.page) : walk.page[i] = j
                    \/ Behind(j, walk.offset + PageSize(walk.ask))
                 /\ walk.offset < walk.depth
      <4>1. j \in walk.due \ walk.listed
        BY <2>4, Zenon
      <4> QED  BY <1>0, <2>5, <2>8, <4>1, Zenon DEF WalkAhead
    <3>2. \A x : Behind(x, walk.offset + PageSize(walk.ask))' <=> Behind(x, walk.offset + PageSize(walk.ask))
      BY <1>0, <2>5, Zenon DEF Behind
    <3>3. ASSUME NEW j \in walk.due \ done
          PROVE  \/ \E i \in 1..Len(rest) : rest[i] = j
                 \/ Behind(j, walk.offset + PageSize(walk.ask))'
      BY <2>7, <3>1, <3>2, Zenon
    <3> QED  BY <2>5, <3>1, <3>3, Zenon
  <2>9. WalkAhead'
    BY <2>5, <2>8, Zenon DEF WalkAhead
  <2> QED  BY <2>6, <2>9, Zenon
<1>2. CASE walk.page = <<>> /\ walk.offset >= walk.depth
  <2>1. walk' = [walk EXCEPT !.pc = "done"]
    BY <1>2, Zenon DEF ListJob
  <2>2. /\ walk' \in Walks /\ walk'.pc = "done" /\ walk'.due = walk.due
        /\ walk'.listed = walk.listed /\ walk'.retried = walk.retried
    BY <1>0, <2>1, Zenon DEF Walks, WalkStages
  <2>3. LetterShape'
    BY <1>0, <2>2, Zenon DEF LetterShape
  <2>4. ~walk.retried => walk.due \ walk.listed = {}
    BY <1>0, <1>2 DEF WalkAhead
  <2> QED  BY <2>2, <2>3, <2>4, Zenon DEF WalkAhead
<1>3. CASE walk.page = <<>> /\ ~(walk.offset >= walk.depth)
  <2> DEFINE next == walk.offset + PageSize(walk.ask)
  <2>1. walk' = [walk EXCEPT !.pc = "depth", !.offset = next]
    BY <1>3, Zenon DEF ListJob, ReportedLimit
  <2>2. next \in Nat
    <3>1. PageSize(walk.ask) \in Nat
      BY <1>0, PageIsPositive, Zenon
    <3> QED  BY <1>0, <3>1
  <2> HIDE DEF next
  <2>3. /\ walk' \in Walks /\ walk'.pc = "depth" /\ walk'.due = walk.due /\ walk'.offset = next
        /\ walk'.listed = walk.listed /\ walk'.retried = walk.retried
    BY <1>0, <2>1, <2>2, Zenon DEF Walks, WalkStages
  <2>4. LetterShape'
    BY <1>0, <2>3, Zenon DEF LetterShape
  <2>5. ~walk.retried => \A j \in walk.due \ walk.listed : Behind(j, next)
    <3>1. ~\E i \in 1..Len(walk.page) : TRUE
      BY <1>3
    <3> QED  BY <1>0, <3>1, Zenon DEF WalkAhead, next
  <2>6. \A j : Behind(j, next) => Behind(j, walk.offset)'
    BY <1>0, <2>3, Zenon DEF Behind
  <2> QED  BY <2>3, <2>4, <2>5, <2>6, Zenon DEF WalkAhead
<1> QED  BY <1>1, <1>2, <1>3, Zenon

(* A walk over the dead letters lists every job parked before it started   *)
(* whose hash is still there, for any list, page size and interleaving     *)
(* with pushes and expiries.                                               *)
THEOREM WalksAreComplete == LetterSpec => []WalkSeesAll
<1>1. LetterInit => LetterInv
  BY NoWalkType DEF LetterInit, LetterInv, LetterShape, WalkAhead
<1>2. LetterInv /\ [LetterNext]_letterVars => LetterInv'
  <2> SUFFICES ASSUME LetterInv, [LetterNext]_letterVars PROVE LetterInv'
    BY Zenon
  <2>1. CASE UNCHANGED letterVars
    BY <2>1, Zenon DEF letterVars, LetterInv, LetterShape, WalkAhead, Behind
  <2> QED  BY <2>1, PushStep, RetryStep, ExpireStep, StartStep, DepthStep, PageStep, ListStep, Zenon
           DEF LetterNext
<1>3. LetterInv => WalkSeesAll
  BY Zenon DEF LetterInv, WalkAhead, WalkSeesAll
<1> QED  BY <1>1, <1>2, <1>3, PTL DEF LetterSpec
=============================================================================
