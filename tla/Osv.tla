--------------------------------- MODULE Osv ---------------------------------
(***************************************************************************)
(* Vulnerability enrichment of an SBOM (morf/osv/osv.go EnrichComponents): *)
(* one batch query, then a goroutine per vulnerability ID under a          *)
(* semaphore, whose results go to a buffered channel that is read after    *)
(* all of them have ended.  The caller is a scan or an export command.     *)
(***************************************************************************)
EXTENDS Integers, FiniteSets

CONSTANTS OsvItems,          \* SBOM components
          OsvIds,            \* IDs OSV may list for one component
          OsvConcurrency     \* osvMaxConcurrency

ASSUME OsvAssumption == OsvConcurrency \in Nat \ {0} /\ IsFiniteSet(OsvItems)

VARIABLES enrich,    \* EnrichComponents: where it is
          listed,    \* the IDs the batch answer gives each component
          fetch,     \* the goroutine of each component and ID
          results    \* how many results are in the channel

osvVars == <<enrich, listed, fetch, results>>

Fetches == OsvItems \X OsvIds
Wanted  == {f \in Fetches : f[2] \in listed[f[1]]}

OsvTypeOK ==
  /\ enrich \in {"query", "spawn", "drain", "done"}
  /\ listed \in [OsvItems -> SUBSET OsvIds]
  /\ fetch \in [Fetches -> {"none", "running", "sending", "sent", "failed"}]
  /\ results \in Nat

OsvInit ==
  /\ enrich = "query" /\ listed = [i \in OsvItems |-> {}]
  /\ fetch = [f \in Fetches |-> "none"] /\ results = 0

(* The components purlToOSV supports that have a vulnerability. *)
PendingItems == {i \in OsvItems : listed[i] # {}}
InFetch      == {f \in Fetches : fetch[f] \in {"running", "sending"}}

(* Mutant: room for one result per component. *)
ChannelCapOne == Cardinality(PendingItems)

ChannelCap == Cardinality(PendingItems) * 4

-----------------------------------------------------------------------------
(* queryBatch: an error, or nothing listed, ends the enrichment with none. *)
QueryBatch ==
  /\ enrich = "query"
  /\ \E ids \in [OsvItems -> SUBSET OsvIds] :
       /\ listed' = ids
       /\ enrich' = IF \A i \in OsvItems : ids[i] = {} THEN "done" ELSE "spawn"
  /\ UNCHANGED <<fetch, results>>

(* The loop: a slot of the semaphore, then the goroutine. *)
SpawnFetch ==
  /\ enrich = "spawn" /\ Cardinality(InFetch) < OsvConcurrency
  /\ \E f \in Wanted : fetch[f] = "none" /\ fetch' = [fetch EXCEPT ![f] = "running"]
  /\ UNCHANGED <<enrich, listed, results>>

SpawnedAll ==
  /\ enrich = "spawn" /\ \A f \in Wanted : fetch[f] # "none"
  /\ enrich' = "drain" /\ UNCHANGED <<listed, fetch, results>>

(* fetchVuln, at most the client's timeout; a failure is logged. *)
FetchVuln(f) ==
  /\ fetch[f] = "running"
  /\ \E got \in BOOLEAN : fetch' = [fetch EXCEPT ![f] = IF got THEN "sending" ELSE "failed"]
  /\ UNCHANGED <<enrich, listed, results>>

(* The send on resultCh waits for room; only then do the deferred calls    *)
(* release the slot and the WaitGroup.                                     *)
SendResult(f) ==
  /\ fetch[f] = "sending" /\ results < ChannelCap
  /\ results' = results + 1 /\ fetch' = [fetch EXCEPT ![f] = "sent"]
  /\ UNCHANGED <<enrich, listed>>

(* wg.Wait, close, and the range over the channel. *)
DrainResults ==
  /\ enrich = "drain" /\ \A f \in Wanted : fetch[f] \in {"sent", "failed"}
  /\ enrich' = "done" /\ results' = 0
  /\ UNCHANGED <<listed, fetch>>

OsvStep == \/ QueryBatch \/ SpawnFetch \/ SpawnedAll \/ DrainResults
           \/ \E f \in Fetches : FetchVuln(f) \/ SendResult(f)

OsvNext == OsvStep

(* Every goroutine that can go on does; requests end at their timeout. *)
OsvFairness == WF_osvVars(OsvStep)
OsvSpec == OsvInit /\ [][OsvNext]_osvVars /\ OsvFairness

-----------------------------------------------------------------------------
(* "The SBOM is always emitted": once the batch is answered the enrichment *)
(* ends, however the fetches end and interleave (EnrichComponents).  So it *)
(* does while OSV lists at most four IDs per component, four being the     *)
(* room resultCh has for each; the fifth shows that it need not.           *)
EnrichmentEnds == (enrich = "spawn") ~> (enrich = "done")
=============================================================================
