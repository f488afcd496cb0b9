----------------------------- MODULE DeadLetters ----------------------------
(***************************************************************************)
(* The dead-letter queue as GET /dlq lists it while jobs are parked,       *)
(* retried and expire (morf/queue/queue.go, morf/router/routers.go).       *)
(* The reader is a client that walks the pages: from offset 0, on by the   *)
(* limit each reply reports, until the offset has reached the depth.       *)
(***************************************************************************)
EXTENDS RedisList

CONSTANTS Letters,        \* job IDs that may be parked
          PageDefault,    \* the limit of a query without one
          maxDLQPageSize,
          Asked,          \* limits a client asks for
          MaxParks        \* how often a job is moved to the DLQ

(* The default and the cap of a page are positive constants. *)
ASSUME LetterAssumption == /\ PageDefault \in Nat \ {0} /\ maxDLQPageSize \in Nat \ {0}
                           /\ Asked \subseteq Int

VARIABLES dlqList,   \* morf:dlq, newest first
          hashes,    \* jobs whose hash exists
          parks,     \* MoveToDLQ calls so far
          walk       \* the client's walk and the request it waits for

letterVars == <<dlqList, hashes, parks, walk>>

NoWalk == [pc |-> "idle", ask |-> 0, offset |-> 0, depth |-> 0, page |-> <<>>,
           listed |-> {}, due |-> {}, retried |-> FALSE]

LetterTypeOK ==
  /\ dlqList \in Seq(Letters) /\ hashes \subseteq Letters
  /\ walk.pc \in {"idle", "depth", "range", "jobs", "done"}

LetterInit ==
  /\ dlqList = <<>> /\ hashes = Letters /\ parks = 0 /\ walk = NoWalk

LRange(list, from, to) == SubSeq(list, from + 1, IF to + 1 > Len(list) THEN Len(list) ELSE to + 1)

-----------------------------------------------------------------------------
(* moveToDLQScript pushes at the head. *)
MoveToDLQ(j) ==
  /\ parks < MaxParks /\ parks' = parks + 1 /\ j \in hashes
  /\ dlqList' = <<j>> \o dlqList /\ UNCHANGED <<hashes, walk>>

(* RetryDLQJob: the LREM of one copy; the rest is JobQueue's. *)
RetryDLQ(j) ==
  /\ OnList(dlqList, j)
  /\ dlqList' = LRem(dlqList, j)
  /\ walk' = [walk EXCEPT !.retried = walk.pc # "idle"]
  /\ UNCHANGED <<hashes, parks>>

LetterExpires(j) ==
  /\ j \in hashes /\ hashes' = hashes \ {j}
  /\ walk' = [walk EXCEPT !.due = @ \ {j}] /\ UNCHANGED <<dlqList, parks>>

(* GET /dlq: the limit of a page. *)
PageSize(ask) == IF ask <= 0 THEN PageDefault
                 ELSE IF ask > maxDLQPageSize THEN maxDLQPageSize ELSE ask

(* Mutant: the reply repeats the limit asked for. *)
ReportedLimitAsked(ask) == IF ask <= 0 THEN PageDefault ELSE ask

(* The limit the reply reports is the one applied. *)
ReportedLimit(ask) == PageSize(ask)

(* The walk starts: due are the jobs it has to report. *)
StartWalk ==
  /\ walk.pc = "idle"
  /\ \E ask \in Asked :
       walk' = [NoWalk EXCEPT !.pc = "depth", !.ask = ask,
                              !.due = {j \in hashes : OnList(dlqList, j)}]
  /\ UNCHANGED <<dlqList, hashes, parks>>

(* GetDLQDepth; a failed call answers 500, and the client asks again. *)
GetDLQDepth ==
  /\ walk.pc = "depth"
  /\ walk' = [walk EXCEPT !.pc = "range", !.depth = Len(dlqList)]
  /\ UNCHANGED <<dlqList, hashes, parks>>

GetDLQJobsPage ==
  /\ walk.pc = "range"
  /\ LET end == walk.offset + PageSize(walk.ask) - 1
     IN walk' = [walk EXCEPT !.pc = "jobs", !.page = LRange(dlqList, walk.offset, end)]
  /\ UNCHANGED <<dlqList, hashes, parks>>

(* One GetJob per ID; a job without a hash is skipped.  At the end of the  *)
(* page the reply goes out, and the client asks for the next page or ends. *)
ListJob ==
  /\ walk.pc = "jobs"
  /\ IF walk.page # <<>>
     THEN walk' = [walk EXCEPT !.page = Tail(@),
                               !.listed = @ \cup ({Head(walk.page)} \cap hashes)]
     ELSE IF walk.offset >= walk.depth THEN walk' = [walk EXCEPT !.pc = "done"]
     ELSE walk' = [walk EXCEPT !.pc = "depth", !.offset = @ + ReportedLimit(walk.ask)]
  /\ UNCHANGED <<dlqList, hashes, parks>>

LetterNext == \/ \E j \in Letters : MoveToDLQ(j) \/ RetryDLQ(j) \/ LetterExpires(j)
              \/ StartWalk \/ GetDLQDepth \/ GetDLQJobsPage \/ ListJob

LetterSpec == LetterInit /\ [][LetterNext]_letterVars

-----------------------------------------------------------------------------
(* A walk over GET /dlq lists every job that was parked when it started    *)
(* and whose hash is still there, whatever is parked while it runs (the    *)
(* pushes are at the head); a retry, which closes a gap, may hide one.     *)
WalkSeesAll == walk.pc = "done" /\ ~ walk.retried => walk.due \subseteq walk.listed
=============================================================================
