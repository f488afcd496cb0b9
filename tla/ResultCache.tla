---------------------------- MODULE ResultCache -----------------------------
(***************************************************************************)
(* The metadata cache in Redis (morf/utils/cache.go) as the metadata step  *)
(* of a scan uses it (StartMetaDataCollection and startFileParser of       *)
(* morf/apk/metadata.go).  Entries are keyed by the pattern version and    *)
(* the package; one package is followed.  Every pod keeps the version in   *)
(* an atomic that the editors, the readers, the subscriber and the         *)
(* refresher of the pod all overwrite with what they last read.            *)
(***************************************************************************)
EXTENDS Integers, FiniteSets

CONSTANTS Pods,
          MaxVersion,   \* invalidations, at most
          MaxFaults     \* Redis commands that fail, at most

Loaders == {"reader", "subscriber", "refresher"}

VARIABLES version,    \* morf:pattern_version
          local,      \* patternVersion of each pod
          entries,    \* the versions the package has a cached result under
          message,    \* pods an invalidation message is on its way to
          load,       \* loadPatternVersion in each goroutine: the version read, or -1
          bump,       \* an InvalidateAllMetadataCache call of each pod
          lookup,     \* the metadata step of each pod's scan
          faults

cacheVars == <<version, local, entries, message, load, bump, lookup, faults>>

CacheTypeOK ==
  /\ version \in 0..MaxVersion /\ local \in [Pods -> 0..MaxVersion]
  /\ entries \subseteq 0..MaxVersion
  /\ message \subseteq Pods
  /\ load \in [Pods -> [Loaders -> -1..MaxVersion]]
  /\ bump \in [Pods -> [at: {"idle", "store", "publish"}, got: 0..MaxVersion]]
  /\ lookup \in [Pods -> {"idle", "reload", "analyse"}]
  /\ faults \in 0..MaxFaults

(* InitCache loaded the version, which nobody has bumped. *)
CacheInit ==
  /\ version = 0 /\ entries = {} /\ message = {} /\ faults = 0
  /\ local = [p \in Pods |-> 0]
  /\ load = [p \in Pods |-> [l \in Loaders |-> -1]]
  /\ bump = [p \in Pods |-> [at |-> "idle", got |-> 0]]
  /\ lookup = [p \in Pods |-> "idle"]

(* A command fails: Redis is away, or the breaker is open. *)
RedisFails == faults < MaxFaults /\ faults' = faults + 1

-----------------------------------------------------------------------------
(* Mutant: after an error the pod goes on with a version of its own. *)
IncrVersionAnyway(p) ==
  /\ bump[p].at = "idle" /\ version < MaxVersion
  /\ bump' = [bump EXCEPT ![p] = [at |-> "store", got |-> version + 1]]
  /\ \/ version' = version + 1 /\ UNCHANGED faults
     \/ RedisFails /\ UNCHANGED version
  /\ UNCHANGED <<local, entries, message, load, lookup>>

(* InvalidateAllMetadataCache: INCR, the store, the message. *)
IncrVersion(p) ==
  /\ bump[p].at = "idle"
  /\ \/ /\ version < MaxVersion /\ version' = version + 1
        /\ bump' = [bump EXCEPT ![p] = [at |-> "store", got |-> version + 1]]
        /\ UNCHANGED faults
     \/ RedisFails /\ UNCHANGED <<version, bump>>
  /\ UNCHANGED <<local, entries, message, load, lookup>>

StoreBump(p) ==
  /\ bump[p].at = "store"
  /\ local' = [local EXCEPT ![p] = bump[p].got]
  /\ bump' = [bump EXCEPT ![p].at = "publish"]
  /\ UNCHANGED <<version, entries, message, load, lookup, faults>>

(* publishInvalidation: a failure is logged.  Any subscriber may miss the  *)
(* message, and its client may have been closed under it.                  *)
PublishInvalidation(p) ==
  /\ bump[p].at = "publish"
  /\ bump' = [bump EXCEPT ![p] = [at |-> "idle", got |-> 0]]
  /\ \E heard \in SUBSET Pods : message' = message \cup heard
  /\ UNCHANGED <<version, local, entries, load, lookup, faults>>

-----------------------------------------------------------------------------
(* loadPatternVersion: the GET, then the store; when the GET fails the     *)
(* local version stays.                                                    *)
GetVersion(p, l) ==
  /\ load[p][l] = -1
  /\ \/ load' = [load EXCEPT ![p][l] = version] /\ UNCHANGED faults
     \/ RedisFails /\ UNCHANGED load

LoadStores(p, l) ==
  /\ load[p][l] # -1
  /\ local' = [local EXCEPT ![p] = load[p][l]]
  /\ load' = [load EXCEPT ![p][l] = -1]

(* handleInvalidationMessage. *)
HandleMessage(p) ==
  \/ /\ p \in message /\ GetVersion(p, "subscriber")
     /\ message' = message \ {p}
     /\ UNCHANGED <<version, local, entries, bump, lookup>>
  \/ /\ LoadStores(p, "subscriber")
     /\ UNCHANGED <<version, entries, message, bump, lookup, faults>>

(* Mutant: the refresher only runs while nothing is cached. *)
RefreshVersionOnce(p) ==
  \/ /\ entries = {} /\ GetVersion(p, "refresher")
     /\ UNCHANGED <<version, local, entries, message, bump, lookup>>
  \/ /\ LoadStores(p, "refresher")
     /\ UNCHANGED <<version, entries, message, bump, lookup, faults>>

(* StartPatternVersionRefresher: every minute, one load after another.     *)
RefreshVersion(p) ==
  \/ /\ GetVersion(p, "refresher")
     /\ UNCHANGED <<version, local, entries, message, bump, lookup>>
  \/ /\ LoadStores(p, "refresher")
     /\ UNCHANGED <<version, entries, message, bump, lookup, faults>>

-----------------------------------------------------------------------------
(* GetMetadataFromCache: a hit under the pod's own version ends the step;  *)
(* a miss reloads the version; an error does not.                          *)
GetMetadata(p) ==
  /\ lookup[p] = "idle"
  /\ \/ local[p] \notin entries /\ lookup' = [lookup EXCEPT ![p] = "reload"] /\ UNCHANGED faults
     \/ RedisFails /\ lookup' = [lookup EXCEPT ![p] = "analyse"]
  /\ UNCHANGED <<version, local, entries, message, load, bump>>

ReloadOnMiss(p) ==
  /\ lookup[p] = "reload"
  /\ \/ /\ GetVersion(p, "reader") /\ UNCHANGED local
        /\ lookup' = [lookup EXCEPT ![p] = IF load'[p]["reader"] = -1 THEN "analyse" ELSE @]
     \/ /\ LoadStores(p, "reader") /\ UNCHANGED faults
        /\ lookup' = [lookup EXCEPT ![p] = "analyse"]
  /\ UNCHANGED <<version, entries, message, bump>>

(* The analyser runs; SetMetadataInCache stores its result, if there is    *)
(* one and Redis takes it, under the version the pod has by then.          *)
SetMetadata(p) ==
  /\ lookup[p] = "analyse"
  /\ lookup' = [lookup EXCEPT ![p] = "idle"]
  /\ entries' \in {entries, entries \cup {local[p]}}
  /\ UNCHANGED <<version, local, message, load, bump, faults>>

(* metadataCacheTTL. *)
EntryExpires == /\ \E v \in entries : entries' = entries \ {v}
                /\ UNCHANGED <<version, local, message, load, bump, lookup, faults>>

CachePod(p) ==
  \/ IncrVersion(p) \/ StoreBump(p) \/ PublishInvalidation(p)
  \/ HandleMessage(p) \/ RefreshVersion(p)
  \/ GetMetadata(p) \/ ReloadOnMiss(p) \/ SetMetadata(p)

CacheNext == (\E p \in Pods : CachePod(p)) \/ EntryExpires

(* The ticker goes on for as long as the process lives, and a goroutine    *)
(* that holds a version stores it.                                         *)
CacheFairness ==
  \A p \in Pods : /\ WF_cacheVars(RefreshVersion(p)) /\ WF_cacheVars(HandleMessage(p))
                  /\ WF_cacheVars(ReloadOnMiss(p))
                  /\ WF_cacheVars(StoreBump(p)) /\ WF_cacheVars(PublishInvalidation(p))

CacheSpec == CacheInit /\ [][CacheNext]_cacheVars /\ CacheFairness

-----------------------------------------------------------------------------
(* No pod is ahead of Redis: nothing is cached under a version that an     *)
(* invalidation is still to come to (InvalidateAllMetadataCache).          *)
NeverAhead == /\ \A p \in Pods : local[p] <= version
              /\ \A v \in entries : v <= version

(* A pod that missed a message, or stored an old version over a new one,   *)
(* comes to use the version of Redis, and stays with it once the           *)
(* invalidations end (StartPatternVersionRefresher: "even if a pod misses  *)
(* an invalidation event, it re-syncs").                                   *)
PodsResync == <>[](\A p \in Pods : local[p] = version)
=============================================================================
