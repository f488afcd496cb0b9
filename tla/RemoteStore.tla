---------------------------- MODULE RemoteStore -----------------------------
(***************************************************************************)
(* The S3 artifact store (morf/storage/s3.go) with the retry loop it runs  *)
(* under (RetryWithContext in morf/utils/retry.go).  A member of Puts is   *)
(* one Put call and the key it writes.  Concurrent uploads share the       *)
(* byteSemaphore, a mutex and a condition variable: a waiter sleeps until  *)
(* somebody broadcasts, and only then looks at the budget again.           *)
(***************************************************************************)
EXTENDS Integers, FiniteSetsExt, Functions

CONSTANTS Puts,
          Sizes,        \* sizes of a body
          MaxUpload,    \* maxS3UploadBytes
          Capacity,     \* MORF_S3_MAX_INFLIGHT_BYTES
          S3Retries,    \* MaxRetries of s3RetryConfig
          NoObject

(* Readers a body comes from: one that can seek and that nobody closes, a  *)
(* file, which the transport closes once it was sent, and one that cannot  *)
(* seek.                                                                   *)
Readers == {"memory", "file", "pipe"}

ASSUME RemoteAssumption == /\ Capacity \in Nat /\ MaxUpload \in Nat /\ S3Retries \in Nat
                           /\ Sizes \subseteq Nat /\ NoObject \notin Puts
                           /\ IsFiniteSet(Puts)

VARIABLES object,     \* what the bucket holds under each key
          avail,      \* the budget nobody holds
          upload,     \* each Put call
          cancelled   \* calls whose context is done

remoteVars == <<object, avail, upload, cancelled>>

Phases == {"new", "acquire", "asleep", "send", "done", "failed", "deleted"}
NewPut == [at |-> "new", size |-> 0, reader |-> "pipe", weight |-> 0, attempt |-> 0,
           closed |-> FALSE]

RemoteTypeOK ==
  /\ object \in [Puts -> Puts \cup {NoObject}]
  /\ avail \in 0..Max({1, Capacity})
  /\ upload \in [Puts -> [at: Phases, size: Nat, reader: Readers, weight: Nat,
                          attempt: 0..S3Retries, closed: BOOLEAN]]
  /\ cancelled \subseteq Puts

(* newByteSemaphore. *)
Cap == IF Capacity < 1 THEN 1 ELSE Capacity

RemoteInit ==
  /\ object = [p \in Puts |-> NoObject]
  /\ avail = Cap
  /\ upload = [p \in Puts |-> NewPut]
  /\ cancelled = {}

-----------------------------------------------------------------------------
(* byteSemaphore. *)

Clamp(n) == IF n < 0 THEN 0 ELSE IF n > Cap THEN Cap ELSE n

(* Mutant: nobody is woken. *)
NoBroadcast(up) == up

(* cond.Broadcast: every sleeper looks at the budget again. *)
Broadcast(up) == [p \in Puts |-> IF up[p].at = "asleep" THEN [up[p] EXCEPT !.at = "acquire"]
                                 ELSE up[p]]

(* acquire, from one look at the budget to the next. *)
Acquire(p) ==
  /\ upload[p].at = "acquire"
  /\ LET n == Clamp(upload[p].size) IN
     \/ /\ avail >= n
        /\ avail' = avail - n
        /\ upload' = [upload EXCEPT ![p].at = "send", ![p].weight = n]
     \/ /\ avail < n
        /\ upload' = [upload EXCEPT ![p].at = IF p \in cancelled THEN "failed" ELSE "asleep"]
        /\ UNCHANGED avail
  /\ UNCHANGED <<object, cancelled>>

(* The caller's context ends; its AfterFunc broadcasts once it has the     *)
(* mutex.                                                                  *)
Cancelled(p) ==
  /\ p \notin cancelled /\ upload[p].at \notin {"new", "done", "failed", "deleted"}
  /\ cancelled' = cancelled \cup {p}
  /\ UNCHANGED <<object, avail, upload>>

AfterFunc(p) ==
  /\ p \in cancelled /\ upload[p].at = "asleep"
  /\ upload' = Broadcast(upload)
  /\ UNCHANGED <<object, avail, cancelled>>

(* Mutant: a call that ends early gives nothing back. *)
ReleaseOnSuccess(p, outcome) ==
  /\ avail' = IF outcome = "failed" THEN avail
              ELSE Min({Cap, avail + Clamp(upload[p].weight)})
  /\ upload' = Broadcast([upload EXCEPT ![p].at = outcome, ![p].weight = 0])

(* release, deferred until the call returns. *)
Release(p, outcome) ==
  /\ avail' = Min({Cap, avail + Clamp(upload[p].weight)})
  /\ upload' = Broadcast([upload EXCEPT ![p].at = outcome, ![p].weight = 0])

-----------------------------------------------------------------------------
(* The size a caller declares when it does not know it. *)
Unknown == -1

(* Put: putStreaming when the size is known and the body can seek, else    *)
(* putBuffered, which reads the body, checks its length and only then      *)
(* acquires.  The length it finds is a size too.                           *)
PutS3(p, size, reader) ==
  /\ upload[p].at = "new"
  /\ \E len \in Sizes :
       LET streamed == size >= 0 /\ reader # "pipe"
           refused  == \/ size > MaxUpload
                       \/ ~streamed /\ (len > MaxUpload \/ (size >= 0 /\ len # size)) IN
       upload' = [upload EXCEPT ![p] =
                    [NewPut EXCEPT !.at = IF refused THEN "failed" ELSE "acquire",
                                   !.size = IF refused THEN 0 ELSE IF streamed THEN size ELSE len,
                                   !.reader = IF streamed THEN reader ELSE "pipe"]]
  /\ UNCHANGED <<object, avail, cancelled>>

(* retryableStatus, and the client's answer to a 4xx. *)
Answers == {"2xx", "4xx", "5xx", "lost"}
Transient(answer) == answer \in {"5xx", "lost"}

(* build: a body that was streamed must be rewound; a closed file cannot   *)
(* be, and that error is not retried.                                      *)
Rewinds(p) == ~(upload[p].reader = "file" /\ upload[p].closed)

(* Mutant: a 4xx answer counts as success. *)
OutcomeLenient(answer) == IF Transient(answer) THEN "failed" ELSE "done"

(* What Put returns when the attempts end with this answer. *)
Outcome(answer) == IF answer = "2xx" THEN "done" ELSE "failed"

(* One attempt of doWithRetry.  A request whose answer is lost may have    *)
(* been carried out.                                                       *)
SendAttempt(p) ==
  /\ upload[p].at = "send"
  /\ IF p \in cancelled \/ ~Rewinds(p)
     THEN Release(p, "failed") /\ UNCHANGED object
     ELSE \E answer \in Answers :
            /\ object' \in CASE answer = "2xx"  -> {[object EXCEPT ![p] = p]}
                             [] answer = "lost" -> {object, [object EXCEPT ![p] = p]}
                             [] OTHER           -> {object}
            /\ IF Transient(answer) /\ upload[p].attempt < S3Retries
               THEN /\ upload' = [upload EXCEPT ![p].attempt = @ + 1,
                                                ![p].closed = upload[p].reader = "file"]
                    /\ UNCHANGED avail
               ELSE Release(p, Outcome(answer))
  /\ UNCHANGED cancelled

(* Delete: a 404 is no error; only a key whose Put returned is deleted. *)
DeleteS3(p) ==
  /\ upload[p].at \in {"done", "failed"} /\ object[p] # NoObject
  /\ object' = [object EXCEPT ![p] = NoObject]
  /\ upload' = [upload EXCEPT ![p].at = "deleted"]
  /\ UNCHANGED <<avail, cancelled>>

RemotePut(p) ==
  \/ \E size \in Sizes \cup {Unknown}, reader \in Readers : PutS3(p, size, reader)
  \/ Acquire(p) \/ SendAttempt(p)

RemoteNext == \E p \in Puts : RemotePut(p) \/ Cancelled(p) \/ AfterFunc(p) \/ DeleteS3(p)

-----------------------------------------------------------------------------
Weights == [p \in Puts |-> upload[p].weight]

(* The budget is conserved: what the uploads hold and what is available    *)
(* add up to the capacity, on every path out of Put (acquire, release).    *)
BudgetConserved == avail + SumFunctionOnSet(Weights, Puts) = Cap

(* Put tells the truth: a call that returned nil stored its body, also     *)
(* after answers were lost and requests repeated (doWithRetry, Put).       *)
PutIsTrue == \A p \in Puts : upload[p].at = "done" => object[p] = p

Ends(p) == upload[p].at \in {"done", "failed", "deleted"}

(* Every upload ends: nobody sleeps for ever on the budget, not even one   *)
(* larger than the capacity, whatever the others do (acquire, release).    *)
(* An attempt ends, at the latest at the timeout of the HTTP client.       *)
UploadsEnd == \A p \in Puts : upload[p].at # "new" ~> Ends(p)

RemoteFairness == \A p \in Puts : WF_remoteVars(Acquire(p) \/ SendAttempt(p) \/ AfterFunc(p))

RemoteSpec == RemoteInit /\ [][RemoteNext]_remoteVars /\ RemoteFairness
=============================================================================
