----------------------------- MODULE StatusIndex ----------------------------
(***************************************************************************)
(* The status index of the job queue (morf/queue/queue.go): one Redis set  *)
(* of job IDs per status, kept beside the job hashes by single commands.   *)
(* One job is followed.  UpdateJob is one step per command, so that the    *)
(* cancel script, the DLQ retry and the sweep of the reaper run between    *)
(* any two of them.  The worker around it (processJob and its handlers) is *)
(* the one of ScanWorker with the lease, the artifact and I/O errors left  *)
(* out; here it never dies, so one execution follows another.              *)
(***************************************************************************)
EXTENDS Integers

CONSTANTS IndexRetries,   \* MORF_WORKER_MAX_RETRIES
          IndexCancels,   \* how often a client may cancel
          IndexRevivals   \* how often an operator may retry from the DLQ

ASSUME IndexAssumption ==
  IndexRetries \in Nat \ {0} /\ IndexCancels \in Nat /\ IndexRevivals \in Nat

VARIABLES stat,      \* the status field of the hash, "none" when it is gone
          member,    \* the status sets that hold the job
          queued,    \* copies of the ID on morf:job_queue
          parked,    \* copies on morf:dlq
          reviving,  \* RetryDLQJob calls between the LREM and the enqueue
          writer,    \* the worker: its next command, the statuses it moves between
          sweep,     \* the set the sweep found the hash missing for, or "none"
          left       \* cancels, DLQ retries and scan retries still to come

indexVars == <<stat, member, queued, parked, reviving, writer, sweep, left>>

IndexPending  == {"queued", "processing"}
IndexTerminal == {"completed", "failed", "cancelled"}

(* nonTerminalStatuses and isTerminalStatus. *)
isTerminalStatus(s) == s \in IndexTerminal

Commands == {"idle", "load", "hget", "hset", "srem", "sadd", "cleanq", "cleanp",
             "scan", "push", "todlq", "ack"}
NoWriter == [pc |-> "idle", old |-> "none", new |-> "none"]

IndexTypeOK ==
  /\ stat \in {"none"} \cup IndexPending \cup IndexTerminal
  /\ member \subseteq IndexPending \cup IndexTerminal
  /\ queued \in Nat /\ parked \in Nat /\ reviving \in Nat
  /\ writer.pc \in Commands
  /\ sweep \in {"none"} \cup IndexTerminal
  /\ left \in [{"cancel", "revive", "retry"} -> Nat]

(* EnqueueJobAtomic published the job. *)
IndexInit ==
  /\ stat = "queued" /\ member = {"queued"} /\ queued = 1
  /\ parked = 0 /\ reviving = 0 /\ writer = NoWriter /\ sweep = "none"
  /\ left = [cancel |-> IndexCancels, revive |-> IndexRevivals, retry |-> IndexRetries - 1]

At(command)   == writer.pc = command
Then(command) == writer' = [writer EXCEPT !.pc = command]
Updating(s)   == writer' = [pc |-> "hget", old |-> "none", new |-> s]

-----------------------------------------------------------------------------
(* PopJobReliable, then GetJob: a terminal job is acked unprocessed. *)
IndexPop ==
  /\ At("idle") /\ queued > 0
  /\ queued' = queued - 1
  /\ Then("load") /\ UNCHANGED <<stat, member, parked, reviving, sweep, left>>

IndexLoad ==
  /\ At("load")
  /\ IF stat \in IndexPending THEN Updating("processing") ELSE Then("ack")
  /\ UNCHANGED <<stat, member, queued, parked, reviving, sweep, left>>

(* UpdateJob, command by command. *)
ReadOld ==
  /\ At("hget")
  /\ writer' = [writer EXCEPT !.pc = "hset", !.old = stat]
  /\ UNCHANGED <<stat, member, queued, parked, reviving, sweep, left>>

(* Mutant: the old status is read after the hash is overwritten. *)
WriteHashFirst ==
  /\ At("hset") /\ stat' = writer.new
  /\ writer' = [writer EXCEPT !.pc = IF isTerminalStatus(writer.new) THEN "cleanq"
                                     ELSE IF writer.new = "queued" THEN "push" ELSE "scan",
                              !.old = writer.new]
  /\ UNCHANGED <<member, queued, parked, reviving, sweep, left>>

(* What follows the bookkeeping: the call site of this UpdateJob. *)
AfterBookkeeping(s) == CASE s = "processing" -> "scan"
                         [] s = "queued"     -> "push"
                         [] OTHER            -> "cleanq"

WriteHash ==
  /\ At("hset") /\ stat' = writer.new
  /\ IF writer.old \notin {"none", writer.new}
     THEN Then("srem") ELSE Then(AfterBookkeeping(writer.new))
  /\ UNCHANGED <<member, queued, parked, reviving, sweep, left>>

RemoveOld ==
  /\ At("srem") /\ member' = member \ {writer.old}
  /\ Then("sadd") /\ UNCHANGED <<stat, queued, parked, reviving, sweep, left>>

AddNew ==
  /\ At("sadd") /\ member' = member \cup {writer.new}
  /\ Then(AfterBookkeeping(writer.new)) /\ UNCHANGED <<stat, queued, parked, reviving, sweep, left>>

(* A terminal job leaves both pending sets, in the order of the slice. *)
CleanPending ==
  /\ \/ At("cleanq") /\ member' = member \ {"queued"} /\ Then("cleanp")
     \/ /\ At("cleanp") /\ member' = member \ {"processing"}
        /\ Then(IF writer.new = "failed" THEN "todlq" ELSE "ack")
  /\ UNCHANGED <<stat, queued, parked, reviving, sweep, left>>

UpdateJobIndex == ReadOld \/ WriteHash \/ RemoveOld \/ AddNew \/ CleanPending

(* The scan ends: completed, failed for good, to be retried, or aborted by *)
(* a cancel, which handles nothing.                                        *)
IndexScan ==
  /\ At("scan")
  /\ \/ Updating("completed") /\ UNCHANGED left
     \/ Updating("failed") /\ stat # "cancelled" /\ UNCHANGED left
     \/ /\ left.retry > 0 /\ stat # "cancelled"
        /\ Updating("queued") /\ left' = [left EXCEPT !.retry = @ - 1]
     \/ stat = "cancelled" /\ Then("ack") /\ UNCHANGED left
  /\ UNCHANGED <<stat, member, queued, parked, reviving, sweep>>

IndexPush ==
  /\ At("push") /\ queued' = queued + 1
  /\ Then("ack") /\ UNCHANGED <<stat, member, parked, reviving, sweep, left>>

(* moveToDLQScript: one unit. *)
IndexToDLQ ==
  /\ At("todlq") /\ parked' = parked + 1
  /\ member' = member \ {"queued", "processing", "failed"}
  /\ Then("ack") /\ UNCHANGED <<stat, queued, reviving, sweep, left>>

IndexAck == /\ At("ack") /\ writer' = NoWriter
            /\ UNCHANGED <<stat, member, queued, parked, reviving, sweep, left>>

-----------------------------------------------------------------------------
(* cancelJobScript: one unit. *)
IndexCancel ==
  /\ left.cancel > 0 /\ stat \in IndexPending
  /\ left' = [left EXCEPT !.cancel = @ - 1]
  /\ stat' = "cancelled"
  /\ member' = (member \ IndexPending) \cup {"cancelled"}
  /\ queued' = IF stat = "queued" /\ queued > 0 THEN queued - 1 ELSE queued
  /\ UNCHANGED <<parked, reviving, writer, sweep>>

(* RetryDLQJob: the LREM; then GetJob, which fails on an expired hash, and *)
(* EnqueueJobAtomic, which writes the hash and the queued set together.    *)
IndexUnpark ==
  /\ left.revive > 0 /\ parked > 0
  /\ left' = [left EXCEPT !.revive = @ - 1]
  /\ parked' = parked - 1 /\ reviving' = reviving + 1
  /\ UNCHANGED <<stat, member, queued, writer, sweep>>

IndexRevive ==
  /\ reviving > 0 /\ reviving' = reviving - 1
  /\ IF stat = "none" THEN UNCHANGED <<stat, member, queued, left>>
     ELSE /\ stat' = "queued" /\ member' = member \cup {"queued"}
          /\ queued' = queued + 1
          /\ left' = [left EXCEPT !.retry = IndexRetries - 1]
  /\ UNCHANGED <<parked, writer, sweep>>

(* The 7 day TTL, which every UpdateJob renews, runs out: nobody works. *)
Settled == At("idle") /\ queued = 0
HashExpires ==
  /\ Settled /\ stat # "none"
  /\ stat' = "none" /\ UNCHANGED <<member, queued, parked, reviving, writer, sweep, left>>

(* TrimTerminalStatusSets on one member: EXISTS, then SREM. *)
TrimTerminalStatusSets ==
  \/ /\ sweep = "none" /\ stat = "none"
     /\ \E s \in member \cap IndexTerminal : sweep' = s
     /\ UNCHANGED <<stat, member, queued, parked, reviving, writer, left>>
  \/ /\ sweep # "none" /\ member' = member \ {sweep} /\ sweep' = "none"
     /\ UNCHANGED <<stat, queued, parked, reviving, writer, left>>

IndexNext ==
  \/ IndexPop \/ IndexLoad \/ UpdateJobIndex \/ IndexScan \/ IndexPush
  \/ IndexToDLQ \/ IndexAck
  \/ IndexCancel \/ IndexUnpark \/ IndexRevive \/ HashExpires \/ TrimTerminalStatusSets

IndexSpec == IndexInit /\ [][IndexNext]_indexVars

-----------------------------------------------------------------------------
CancelledAgain == IndexCancels - left.cancel > 1

(* A settled job can be found: with no worker on it, it is in the set of   *)
(* its status, or on the DLQ, or in a DLQ retry (UpdateJob reads the old   *)
(* status first), whatever came between two commands of UpdateJob.  The    *)
(* one exception is a job cancelled a second time because a worker wrote   *)
(* over the first cancel: it may be listed as pending only, when the       *)
(* worker's SREM of the first cancel takes away the second.                *)
IndexFindsJob ==
  Settled /\ stat # "none" =>
    \/ stat \in member
    \/ stat = "failed" /\ parked + reviving > 0
    \/ stat = "cancelled" /\ CancelledAgain /\ member \cap IndexPending # {}
=============================================================================
