--------------------------- MODULE CircuitBreaker ---------------------------
(***************************************************************************)
(* The circuit breaker in front of Redis and of the database               *)
(* (morf/utils/circuitbreaker.go).  Call decides under the mutex whether   *)
(* to admit, runs fn without it, and takes it again to record the outcome; *)
(* every critical section is one step.  onStateChange, which sets the      *)
(* gauge, runs after the mutex is released and is a step of its own.       *)
(*                                                                         *)
(* A rejected call changes nothing and is a stuttering step.  Time is      *)
(* reduced to whether resetTimeout has passed since lastFailTime.          *)
(* failureCount is only ever compared with maxFailures, so it saturates    *)
(* there.                                                                  *)
(***************************************************************************)
EXTENDS Naturals

CONSTANTS Callers, MaxFailures,
          MayReset      \* whether Reset is called (the service never does)

ASSUME BreakerAssumption == MaxFailures \in Nat \ {0} /\ MayReset \in BOOLEAN

VARIABLES state, failureCount, inFlightProbe,
          waited,       \* time.Since(lastFailTime) >= resetTimeout
          gauge,        \* morf_circuit_breaker_state
          pc, news,     \* where each caller is; the state it will report
          healthy       \* whether the protected service answers

breakerVars == <<state, failureCount, inFlightProbe, waited>>
vars == <<breakerVars, gauge, pc, news, healthy>>

CircuitState == {"closed", "open", "half-open"}

(* "announce" and "report" are the two places that fire onStateChange:     *)
(* before a probe runs fn, and after an outcome is recorded.               *)
TypeOK ==
  /\ state \in CircuitState
  /\ failureCount \in 0..MaxFailures
  /\ inFlightProbe \in BOOLEAN /\ waited \in BOOLEAN /\ healthy \in BOOLEAN
  /\ gauge \in CircuitState
  /\ pc \in [Callers -> {"idle", "call", "announce", "probe", "report"}]
  /\ news \in [Callers -> CircuitState]

Init ==
  /\ state = "closed" /\ failureCount = 0 /\ inFlightProbe = FALSE
  /\ waited = TRUE    \* lastFailTime is the zero time
  /\ gauge = "closed" /\ healthy = TRUE
  /\ pc = [c \in Callers |-> "idle"] /\ news = [c \in Callers |-> "closed"]

-----------------------------------------------------------------------------
Goto(c, label) == pc' = [pc EXCEPT ![c] = label] /\ UNCHANGED news

(* setState, and the callback it makes the caller owe. *)
SetState(c, to, owing) ==
  /\ state' = to
  /\ IF state = to
     THEN Goto(c, "idle")
     ELSE pc' = [pc EXCEPT ![c] = owing] /\ news' = [news EXCEPT ![c] = to]

(* Call, first critical section: a closed circuit admits everyone. *)
Admit(c) ==
  /\ pc[c] = "idle" /\ state = "closed"
  /\ Goto(c, "call")
  /\ UNCHANGED <<breakerVars, gauge, healthy>>

(* An open one admits a probe once resetTimeout has passed, a half-open    *)
(* one while none is in flight.                                            *)
ProbeAdmitted == IF state = "open" THEN waited
                                   ELSE state = "half-open" /\ ~inFlightProbe

AdmitProbe(c) ==
  /\ pc[c] = "idle" /\ ProbeAdmitted
  /\ inFlightProbe' = TRUE
  /\ IF state = "open"
     THEN SetState(c, "half-open", "announce") /\ waited' = FALSE
     ELSE Goto(c, "probe") /\ UNCHANGED <<state, waited>>
  /\ UNCHANGED <<failureCount, gauge, healthy>>

(* fireStateChange. *)
FireStateChange(c) ==
  /\ pc[c] \in {"announce", "report"}
  /\ gauge' = news[c]
  /\ Goto(c, IF pc[c] = "announce" THEN "probe" ELSE "idle")
  /\ UNCHANGED <<breakerVars, healthy>>

(* Mutant: only the count of failures opens the circuit, also half-open. *)
RecordFailureByCount(c) ==
  /\ failureCount' = IF failureCount < MaxFailures THEN failureCount + 1
                                                   ELSE MaxFailures
  /\ waited' = FALSE
  /\ IF failureCount' >= MaxFailures
     THEN SetState(c, "open", "report")
     ELSE Goto(c, "idle") /\ UNCHANGED state

RecordFailure(c) ==
  /\ failureCount' = IF failureCount < MaxFailures THEN failureCount + 1
                                                   ELSE MaxFailures
  /\ waited' = FALSE
  /\ IF state = "half-open" \/ failureCount' >= MaxFailures
     THEN SetState(c, "open", "report")
     ELSE Goto(c, "idle") /\ UNCHANGED state

(* Mutant: a success counts, but does not close the circuit. *)
RecordSuccessNoClose(c) ==
  /\ failureCount' = 0
  /\ Goto(c, "idle")
  /\ UNCHANGED <<state, waited>>

RecordSuccess(c) ==
  /\ failureCount' = 0
  /\ IF state = "half-open" THEN SetState(c, "closed", "report")
                            ELSE Goto(c, "idle") /\ UNCHANGED state
  /\ UNCHANGED waited

(* fn has returned: Call, second critical section.  A service that is down *)
(* fails some calls and answers others.                                    *)
Finish(c) ==
  /\ pc[c] \in {"call", "probe"}
  /\ inFlightProbe' = IF pc[c] = "probe" THEN FALSE ELSE inFlightProbe
  /\ RecordSuccess(c) \/ (~healthy /\ RecordFailure(c))
  /\ UNCHANGED <<gauge, healthy>>

(* Mutant: setState leaves the count of failures alone. *)
ResetKeepsCount(c) ==
  /\ MayReset /\ pc[c] = "idle"
  /\ SetState(c, "closed", "report")
  /\ inFlightProbe' = FALSE
  /\ UNCHANGED <<failureCount, waited, gauge, healthy>>

(* Reset; setState clears the count only if the state changes. *)
Reset(c) ==
  /\ MayReset /\ pc[c] = "idle"
  /\ SetState(c, "closed", "report")
  /\ failureCount' = IF state = "closed" THEN failureCount ELSE 0
  /\ inFlightProbe' = FALSE
  /\ UNCHANGED <<waited, gauge, healthy>>

(* resetTimeout passes; the service fails or recovers. *)
Elapse  == /\ ~waited /\ waited' = TRUE
           /\ UNCHANGED <<state, failureCount, inFlightProbe, gauge, pc, news, healthy>>
Service == /\ healthy' = ~healthy
           /\ UNCHANGED <<breakerVars, gauge, pc, news>>

Next == \/ \E c \in Callers : \/ Admit(c) \/ AdmitProbe(c) \/ FireStateChange(c)
                              \/ Finish(c) \/ Reset(c)
        \/ Elapse \/ Service

Spec == Init /\ [][Next]_vars

(* An admitted call returns (Redis operations have a timeout) and reports; *)
(* time passes; and calls keep coming: every worker's heartbeat is one.    *)
FairSpec ==
  /\ Spec /\ WF_vars(Elapse)
  /\ \A c \in Callers : /\ WF_vars(AdmitProbe(c))
                        /\ WF_vars(FireStateChange(c) \/ Finish(c))

-----------------------------------------------------------------------------
Probing(c) == pc[c] \in {"announce", "probe"}

(* A half-open circuit is being probed: whatever stragglers of the closed  *)
(* phase report meanwhile, and whoever resets it, the breaker cannot stay  *)
(* half-open with nobody left to decide (Call, recordFailure).             *)
HalfOpenHasProbe ==
  state = "half-open" => inFlightProbe /\ \E c \in Callers : Probing(c)

(* A closed circuit has not used up its failures: no path back to closed,  *)
(* not even one a straggler or Reset takes, leaves a count that the next   *)
(* failure finds past the threshold (setState, recordSuccess).             *)
ClosedBelowThreshold == state = "closed" => failureCount < MaxFailures

(* The breaker recovers: once the service answers for good, the circuit    *)
(* closes for good (Call, recordSuccess).                                  *)
Recovers == <>[]healthy => <>[](state = "closed")

(* While half-open only one probe runs fn at a time (Call's contract).     *)
SingleProbe ==
  state = "half-open" =>
    \A c, d \in Callers : pc[c] = "probe" /\ pc[d] = "probe" => c = d
=============================================================================
