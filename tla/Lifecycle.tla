------------------------------ MODULE Lifecycle ------------------------------
(***************************************************************************)
(* The life of one MORF process: the start of the three commands that run  *)
(* a server (morf/main.go: runServer, runAPIOnly, runWorkerOnly), the      *)
(* worker pool it starts (morf/worker/pool.go), the webhook deliveries the *)
(* workers leave behind (morf/worker/worker.go, morf/utils/webhook.go) and *)
(* the shutdown on SIGTERM.  Each worker runs at most one job.             *)
(***************************************************************************)
EXTENDS Integers, FiniteSets

CONSTANTS Visits,      \* HTTP requests
          Crew,        \* the workers of the pool
          HookSlots,   \* webhookSem
          HookTries    \* attempts of DeliverWebhookWithRetryCtx

VARIABLES mode,    \* the command: "full", "api" or "worker"
          stage,   \* where its goroutine is
          visit,   \* each HTTP request
          crew,    \* each worker
          hook,    \* the delivery each worker's job asked for
          tries,   \* attempts made of it
          db,      \* the database handle: "none", "open" or "closed"
          late     \* a drain timeout has elapsed

lifeVars == <<mode, stage, visit, crew, hook, tries, db, late>>

Shutdown == {"http", "background", "workers", "hooks", "db"}
LifeTypeOK ==
  /\ mode \in {"none", "full", "api", "worker"}
  /\ stage \in {"boot", "sweep", "pool", "serving", "exited"} \cup Shutdown
  /\ visit \in [Visits -> {"none", "running", "answered"}]
  /\ crew \in [Crew -> {"off", "popping", "scanning", "storing", "notifying", "resting", "stopped"}]
  /\ hook \in [Crew -> {"none", "running", "delivered", "recorded", "lost"}]
  /\ tries \in [Crew -> 0..HookTries]
  /\ db \in {"none", "open", "closed"} /\ late \in BOOLEAN

LifeInit ==
  /\ mode = "none" /\ stage = "boot"
  /\ visit = [r \in Visits |-> "none"]
  /\ crew = [w \in Crew |-> "off"]
  /\ hook = [w \in Crew |-> "none"] /\ tries = [w \in Crew |-> 0]
  /\ db = "none" /\ late = FALSE

Alive == stage # "exited"
-----------------------------------------------------------------------------
(* validateStorageOrExit: a misconfigured backend ends every command. *)
ValidateStorageOrExit(command) ==
  /\ stage = "boot" /\ stage' = "exited" /\ mode' = command
  /\ UNCHANGED <<visit, crew, hook, tries, db, late>>

(* The start up to the queue; a failed InitDB is survived. *)
InitUpToQueue(command, goal) ==
  /\ stage = "boot" /\ stage' = goal /\ mode' = command
  /\ db' \in {"none", "open"}
  /\ UNCHANGED <<visit, crew, hook, tries, late>>

(* Without a queue a full server runs without a pool while the other two   *)
(* commands end.  The listener is taken to start.                          *)
RunServer ==
  \/ ValidateStorageOrExit("full")
  \/ \E goal \in {"sweep", "serving"} : InitUpToQueue("full", goal)
RunAPIOnly ==
  \/ ValidateStorageOrExit("api")
  \/ \E goal \in {"serving", "exited"} : InitUpToQueue("api", goal)
RunWorkerOnly ==
  \/ ValidateStorageOrExit("worker")
  \/ \E goal \in {"sweep", "exited"} : InitUpToQueue("worker", goal)

Boot == RunServer \/ RunAPIOnly \/ RunWorkerOnly

(* sweepJobWorkspaces, before any worker of this process runs. *)
Sweep ==
  /\ stage = "sweep" /\ stage' = "pool"
  /\ UNCHANGED <<mode, visit, crew, hook, tries, db, late>>

(* NewWorkerPool and Start. *)
StartPool ==
  /\ stage = "pool" /\ stage' = "serving"
  /\ crew' = [w \in Crew |-> "popping"]
  /\ UNCHANGED <<mode, visit, hook, tries, db, late>>

-----------------------------------------------------------------------------
Listen(r) ==
  /\ stage = "serving" /\ mode # "worker" /\ visit[r] = "none"
  /\ visit' = [visit EXCEPT ![r] = "running"]
  /\ UNCHANGED <<mode, stage, crew, hook, tries, db, late>>

Respond(r) ==
  /\ Alive /\ visit[r] = "running"
  /\ visit' = [visit EXCEPT ![r] = "answered"]
  /\ UNCHANGED <<mode, stage, crew, hook, tries, db, late>>

(* The pool's context is cancelled by Stop, the first thing it does. *)
PoolCancelled == stage \in {"workers", "hooks", "db"}

(* The loop of Worker.Start: the context is looked at before each pop, so  *)
(* a job popped as it is cancelled is still run to its end; the scan has a *)
(* context of its own.                                                     *)
PopOne(w) ==
  /\ Alive /\ crew[w] = "popping"
  /\ crew' = [crew EXCEPT ![w] = "scanning"]
  /\ UNCHANGED <<mode, stage, visit, hook, tries, db, late>>

LeaveLoop(w) ==
  /\ Alive /\ PoolCancelled /\ crew[w] \in {"popping", "resting"}
  /\ crew' = [crew EXCEPT ![w] = "stopped"]
  /\ UNCHANGED <<mode, stage, visit, hook, tries, db, late>>

ScanEnds(w) ==
  /\ Alive /\ crew[w] = "scanning"
  /\ crew' = [crew EXCEPT ![w] = "storing"]
  /\ UNCHANGED <<mode, stage, visit, hook, tries, db, late>>

(* The result is stored and the job handled; only a job with a webhook URL *)
(* and a change to report goes on to dispatchWebhook.                      *)
StoreEnds(w) ==
  /\ Alive /\ crew[w] = "storing"
  /\ \E goal \in {"resting", "notifying"} : crew' = [crew EXCEPT ![w] = goal]
  /\ UNCHANGED <<mode, stage, visit, hook, tries, db, late>>

-----------------------------------------------------------------------------
InFlight == {w \in Crew : hook[w] = "running"}

(* dispatchWebhook: the worker waits for a slot of webhookSem, joins       *)
(* webhookWG and only then starts the goroutine.                           *)
DispatchWebhook(w) ==
  /\ Alive /\ crew[w] = "notifying"
  /\ Cardinality(InFlight) < HookSlots
  /\ hook' = [hook EXCEPT ![w] = "running"]
  /\ crew' = [crew EXCEPT ![w] = "resting"]
  /\ UNCHANGED <<mode, stage, visit, tries, db, late>>

(* One attempt of the delivery fails with an error worth retrying. *)
RetryWebhook(w) ==
  /\ Alive /\ hook[w] = "running" /\ tries[w] < HookTries - 1
  /\ tries' = [tries EXCEPT ![w] = @ + 1]
  /\ UNCHANGED <<mode, stage, visit, crew, hook, db, late>>

(* deliverWebhook returns: delivered, or given up (a permanent error, a    *)
(* rejected URL, the last attempt) and recorded in the webhook DLQ, or the *)
(* record failed too and is only logged.                                   *)
DeliverWebhook(w) ==
  /\ Alive /\ hook[w] = "running"
  /\ \E end \in {"delivered", "recorded", "lost"} : hook' = [hook EXCEPT ![w] = end]
  /\ UNCHANGED <<mode, stage, visit, crew, tries, db, late>>

-----------------------------------------------------------------------------
Signal ==
  /\ stage = "serving"
  /\ stage' = IF mode = "worker" THEN "background" ELSE "http"
  /\ UNCHANGED <<mode, visit, crew, hook, tries, db, late>>

(* server.Shutdown, at most 30 s; handlers still running are abandoned. *)
DrainHTTP ==
  /\ stage = "http" /\ stage' = "background"
  /\ late' = (late \/ \E r \in Visits : visit[r] = "running")
  /\ UNCHANGED <<mode, visit, crew, hook, tries, db>>

HasPool == \E w \in Crew : crew[w] # "off"

(* Mutant: the database is closed with the background tasks. *)
CloseEarly ==
  /\ stage = "background" /\ stage' = IF HasPool THEN "workers" ELSE "db"
  /\ db' = IF db = "open" THEN "closed" ELSE db
  /\ UNCHANGED <<mode, visit, crew, hook, tries, late>>

(* bgCancel, then WorkerPool.Stop where there is a pool. *)
StopBackground ==
  /\ stage = "background" /\ stage' = IF HasPool THEN "workers" ELSE "db"
  /\ UNCHANGED <<mode, visit, crew, hook, tries, db, late>>

CrewStopped == \A w \in Crew : crew[w] \in {"off", "stopped"}

(* Mutant: Stop waits for its workers without a deadline. *)
WaitForever ==
  /\ stage = "workers" /\ CrewStopped /\ stage' = "hooks"
  /\ UNCHANGED <<mode, visit, crew, hook, tries, db, late>>

(* Stop: every worker has returned, or MORF_DRAIN_TIMEOUT elapses; only in *)
(* the first case is there time left for the webhooks.                     *)
DrainWorkers ==
  /\ stage = "workers"
  /\ stage' = IF CrewStopped THEN "hooks" ELSE "db"
  /\ late' = (late \/ ~CrewStopped)
  /\ UNCHANGED <<mode, visit, crew, hook, tries, db>>

(* WaitWebhooks, with what is left of the timeout. *)
DrainHooks ==
  /\ stage = "hooks" /\ stage' = "db"
  /\ late' = (late \/ InFlight # {})
  /\ UNCHANGED <<mode, visit, crew, hook, tries, db>>

(* The database is closed and the process exits. *)
CloseDB ==
  /\ stage = "db"
  /\ IF db = "open" THEN db' = "closed" /\ stage' = stage
                    ELSE stage' = "exited" /\ db' = db
  /\ UNCHANGED <<mode, visit, crew, hook, tries, late>>

MainStep == DrainHTTP \/ StopBackground \/ DrainWorkers \/ DrainHooks \/ CloseDB

LifeNext ==
  \/ Boot \/ Sweep \/ StartPool \/ Signal \/ MainStep
  \/ \E r \in Visits : Listen(r) \/ Respond(r)
  \/ \E w \in Crew : \/ PopOne(w) \/ LeaveLoop(w) \/ ScanEnds(w) \/ StoreEnds(w)
                     \/ DispatchWebhook(w) \/ RetryWebhook(w) \/ DeliverWebhook(w)

(* Each wait of the shutdown has a deadline, so its goroutine always goes  *)
(* on; nothing is assumed of requests, scans and deliveries.               *)
LifeFairness == WF_lifeVars(MainStep)
LifeSpec == LifeInit /\ [][LifeNext]_lifeVars /\ LifeFairness

-----------------------------------------------------------------------------
(* SHUTDOWN-1: unless a drain ran into its deadline, no request and no     *)
(* worker meets a closed database, and no webhook a worker promised dies   *)
(* with the process (drain HTTP, stop workers, WaitWebhooks, close DB).    *)
CleanShutdown ==
  ~late =>
    /\ db = "closed" => /\ \A r \in Visits : visit[r] # "running"
                        /\ \A w \in Crew : crew[w] \in {"off", "stopped"}
    /\ stage = "exited" => \A w \in Crew : crew[w] # "notifying" /\ hook[w] # "running"

(* SIGTERM always ends the process, even with a scan or a delivery that    *)
(* hangs (the drain timeouts).                                             *)
ShutdownEnds == (stage \in Shutdown) ~> (stage = "exited")
=============================================================================
