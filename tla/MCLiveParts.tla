---------------------------- MODULE MCLiveParts ----------------------------
(***************************************************************************)
(* The components with something that must eventually happen, and that     *)
(* share no state with each other, in one specification for TLC: a         *)
(* behaviour is a fair behaviour of the part Init chooses, and the         *)
(* variables of the other parts keep their initial values.                 *)
(***************************************************************************)
EXTENDS CircuitBreaker, RemoteStore, ResultCache, Lifecycle, Osv

VARIABLE part

Parts == {"breaker", "remote", "cache", "life", "osv"}

partVars == <<part, vars, remoteVars, cacheVars, lifeVars, osvVars>>

PartInit ==
  /\ part \in Parts
  /\ Init
  /\ RemoteInit
  /\ CacheInit
  /\ LifeInit
  /\ OsvInit

(* Only the variables of one part change. *)
Only(name) ==
  /\ part = name /\ UNCHANGED part
  /\ name # "breaker" => UNCHANGED vars
  /\ name # "remote" => UNCHANGED remoteVars
  /\ name # "cache" => UNCHANGED cacheVars
  /\ name # "life" => UNCHANGED lifeVars
  /\ name # "osv" => UNCHANGED osvVars

PartNext ==
  \/ Only("breaker") /\ Next
  \/ Only("remote") /\ RemoteNext
  \/ Only("cache") /\ CacheNext
  \/ Only("life") /\ LifeNext
  \/ Only("osv") /\ OsvNext

(* The fairness of each part is the one of its own specification. *)
PartFairness ==
  /\ \A p \in Puts : WF_remoteVars(/\ part = "remote"
                                   /\ Acquire(p) \/ SendAttempt(p) \/ AfterFunc(p))
  /\ \A p \in Pods : /\ WF_cacheVars(part = "cache" /\ RefreshVersion(p))
                     /\ WF_cacheVars(part = "cache" /\ HandleMessage(p))
                     /\ WF_cacheVars(part = "cache" /\ ReloadOnMiss(p))
                     /\ WF_cacheVars(part = "cache" /\ StoreBump(p))
                     /\ WF_cacheVars(part = "cache" /\ PublishInvalidation(p))
  /\ WF_lifeVars(part = "life" /\ MainStep)
  /\ WF_osvVars(part = "osv" /\ OsvStep)
  /\ WF_vars(part = "breaker" /\ Elapse)
  /\ \A c \in Callers : /\ WF_vars(part = "breaker" /\ AdmitProbe(c))
                        /\ WF_vars(/\ part = "breaker"
                                   /\ FireStateChange(c) \/ Finish(c))

PartSpec == PartInit /\ [][PartNext]_partVars /\ PartFairness
=============================================================================
