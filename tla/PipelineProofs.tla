--------------------------- MODULE PipelineProofs ---------------------------
(***************************************************************************)
(* What a scan promises, for every value of the constants: its workspace   *)
(* and its findings, and the patterns it matches with.                     *)
(***************************************************************************)
EXTENDS ScanPipeline, Patterns, WellFoundedInduction, NaturalsInduction, TLAPS

-----------------------------------------------------------------------------
(* ScanPipeline.  Every step of an execution is shown to touch only its    *)
(* own workspace (Moves) and to keep what is known of its findings         *)
(* (Keeps); the two invariants follow for all executions at once.          *)

Things  == {"dirs", "temp"} \cup Secrets
AllKinds == WorkerKinds \cup RowKinds \cup ScanKinds
Full    == {"smali", "res", "bin"}
Preparing  == {"begin", "open", "copy", "safe", "dup", "meta"}

ExecStates ==
  [pc : Points, kind : AllKinds, remote : BOOLEAN, live : BOOLEAN,
   tool : [Tools -> {"idle", "running", "failed", "ok"}], hash : Hashes,
   made : SUBSET Secrets, found : SUBSET Secrets, result : Finished \cup {"none"}]

PipeShape ==
  /\ tree \in [Dirs -> SUBSET Things]
  /\ exec \in [Execs -> ExecStates]
  /\ row \in [Hashes -> {NoRow} \cup SUBSET Secrets]
  /\ \A w \in writing : w.hash \in Hashes /\ w.found \in SUBSET Secrets
  /\ \A e \in Execs : exec[e].pc = "cleanup" => exec[e].result \notin {"none", "crashed"}

(* Whoever left more than empty directories is still at work, or crashed.  *)
Owner(e, d) ==
  /\ Dir(e) = d
  /\ \/ exec[e].pc \notin {"idle", "begin", "done"}
     \/ exec[e].pc = "done" /\ exec[e].result = "crashed"

Owned == \A d \in Dirs : tree[d] \subseteq {"dirs"} \/ \E e \in Execs : Owner(e, d)

(* All that the package holds where a pass looks.                          *)
Whole(x) == x.found = IF x.kind \in IpaKinds THEN x.made ELSE Full

(* How far an execution is, given what is in its workspace.                *)
ExecOK(x, t) ==
  /\ x.pc \in Preparing => \A k \in Tools : x.tool[k] = "idle"
  /\ x.pc \in Preparing \cup {"tools", "unpack", "corpus", "text"} => x.found = {}
  /\ x.pc \notin {"cleanup", "done"} => x.result = "none"
  /\ x.pc \in {"open", "copy"} => x.kind \in WorkerKinds
  /\ x.pc \in {"safe", "dup"} => x.kind \notin ScanKinds
  /\ x.pc \in {"meta", "tools", "binary"} => x.kind \notin IpaKinds
  /\ x.pc \in {"unpack", "corpus"} => x.kind \in IpaKinds
  /\ x.pc = "tools" => \A k \in Tools : x.tool[k] = "ok" => Output(k) \subseteq t
  /\ x.pc = "text" => IF x.kind \in IpaKinds THEN x.made = t \cap {"strings"} ELSE Full \subseteq t
  /\ x.pc = "binary" => x.found = {"smali", "res"} /\ "bin" \in t
  /\ x.pc \in {"persist", "report"} => Whole(x)
  /\ x.result = "success" => Whole(x)
  /\ x.result = "duplicate" /\ x.kind \notin IpaKinds => x.found = Full

(* One package: .apk or .ipa, and one execution at a time.                 *)
Alike ==
  /\ \A d, e \in Execs : exec[d].pc # "idle" /\ exec[e].pc # "idle" =>
       (exec[d].kind \in IpaKinds) = (exec[e].kind \in IpaKinds)
  /\ \A d, e \in Execs : exec[d].pc \notin {"idle", "done"} /\ exec[e].pc \notin {"idle", "done"} => d = e

RowsOK ==
  (\A e \in Execs : exec[e].pc # "idle" => exec[e].kind \notin IpaKinds) =>
    /\ \A h \in Hashes : row[h] \in {NoRow, Full}
    /\ \A w \in writing : w.found = Full

AnswerOK(x) ==
  /\ x.pc = "idle" => x.result = "none"
  /\ x.result = "success" => Whole(x)
  /\ x.result = "duplicate" /\ x.kind \notin IpaKinds => x.found = Full

CompleteInv ==
  /\ Alike /\ RowsOK
  /\ \A e \in Execs : AnswerOK(exec[e])
  /\ \A e \in Execs : exec[e].pc \notin {"idle", "done"} => ExecOK(exec[e], tree[Dir(e)])

-----------------------------------------------------------------------------
FullRows(r, w) == (\A h \in Hashes : r[h] \in {NoRow, Full}) /\ (\A x \in w : x.found = Full)

TreeMoves(e) ==
  /\ tree' \in [Dirs -> SUBSET Things]
  /\ \A d \in Dirs \ {Dir(e)} : tree'[d] = tree[d]

RowMoves ==
  /\ row' \in [Hashes -> {NoRow} \cup SUBSET Secrets]
  /\ \A w \in writing' : w.hash \in Hashes /\ w.found \in SUBSET Secrets

(* What a step of one execution may touch.                                 *)
Moves(e) ==
  /\ exec' \in [Execs -> ExecStates]
  /\ \A d \in Execs \ {e} : exec'[d] = exec[d]
  /\ TreeMoves(e) /\ RowMoves
  /\ exec[e].pc \notin {"idle", "done"} /\ exec'[e].pc # "idle"
  /\ exec'[e].kind = exec[e].kind
  /\ exec'[e].pc = "cleanup" => exec'[e].result \notin {"none", "crashed"}
  /\ exec'[e].pc \in {"begin", "done"} =>
       \/ tree'[Dir(e)] = {}
       \/ exec[e].pc = "begin" /\ tree'[Dir(e)] \subseteq tree[Dir(e)] \cup {"dirs"}

(* And what it keeps, when it runs alone.                                  *)
Keeps(e) ==
  /\ ExecOK(exec[e], tree[Dir(e)])
  /\ exec[e].kind \notin IpaKinds => FullRows(row, writing)
  => /\ exec'[e].pc # "done" => ExecOK(exec'[e], tree'[Dir(e)])
     /\ AnswerOK(exec'[e])
     /\ exec[e].kind \notin IpaKinds => FullRows(row', writing')

(* A workspace is the job's or the execution's own (NewJobContext).        *)
LEMMA DirType == ASSUME NEW e \in Execs PROVE Dir(e) \in Dirs
BY Zenon DEF Dir, Dirs

(* Files nobody touches.                                                   *)
LEMMA TreeSame == ASSUME PipeShape, NEW e \in Execs, UNCHANGED tree PROVE TreeMoves(e)
BY Zenon DEF PipeShape, TreeMoves

(* One workspace gets new contents.                                        *)
LEMMA TreeSet ==
  ASSUME PipeShape, NEW e \in Execs, NEW t \in SUBSET Things, tree' = [tree EXCEPT ![Dir(e)] = t]
  PROVE  TreeMoves(e) /\ tree'[Dir(e)] = t
BY DirType, Zenon DEF PipeShape, TreeMoves

(* Files are written into the workspace of an execution.                   *)
LEMMA TreeWrite ==
  ASSUME PipeShape, NEW e \in Execs, NEW t \in SUBSET Things, Write(e, t)
  PROVE  TreeMoves(e) /\ tree'[Dir(e)] = tree[Dir(e)] \cup t
<1>1. tree[Dir(e)] \cup t \in SUBSET Things
  BY DirType, Zenon DEF PipeShape
<1>2. tree' = [tree EXCEPT ![Dir(e)] = tree[Dir(e)] \cup t]
  BY Zenon DEF Write
<1> QED  BY <1>1, <1>2, TreeSet, Zenon

(* Files are removed from the workspace of an execution.                   *)
LEMMA TreeWipe ==
  ASSUME PipeShape, NEW e \in Execs, NEW t, Wipe(e, t)
  PROVE  TreeMoves(e) /\ tree'[Dir(e)] = tree[Dir(e)] \ t
<1>1. tree[Dir(e)] \ t \in SUBSET Things
  BY DirType, Zenon DEF PipeShape
<1>2. tree' = [tree EXCEPT ![Dir(e)] = tree[Dir(e)] \ t]
  BY Zenon DEF Wipe
<1> QED  BY <1>1, <1>2, TreeSet, Zenon

(* Rows nobody touches.                                                    *)
LEMMA RowsSame == ASSUME PipeShape, UNCHANGED <<row, writing>> PROVE RowMoves
BY Zenon DEF PipeShape, RowMoves

(* One execution moves, the others stay.                                   *)
LEMMA OneExec ==
  ASSUME PipeShape, NEW e \in Execs, NEW c \in ExecStates, exec' = [exec EXCEPT ![e] = c]
  PROVE  /\ exec' \in [Execs -> ExecStates] /\ exec'[e] = c
         /\ \A d \in Execs \ {e} : exec'[d] = exec[d]
BY Zenon DEF PipeShape

(* An execution is one of its states.                                      *)
LEMMA ExecType == ASSUME PipeShape, NEW e \in Execs PROVE exec[e] \in ExecStates
BY Zenon DEF PipeShape

(* The same execution at another point.                                    *)
LEMMA GoesTo ==
  ASSUME PipeShape, NEW e \in Execs, NEW p \in Points, To(e, p)
  PROVE  /\ exec' \in [Execs -> ExecStates] /\ \A d \in Execs \ {e} : exec'[d] = exec[d]
         /\ exec'[e].pc = p /\ exec'[e].kind = exec[e].kind /\ exec'[e].tool = exec[e].tool
         /\ exec'[e].made = exec[e].made /\ exec'[e].found = exec[e].found
         /\ exec'[e].result = exec[e].result
<1> DEFINE c == [exec[e] EXCEPT !.pc = p]
<1>1. /\ c \in ExecStates /\ c.pc = p /\ c.kind = exec[e].kind /\ c.tool = exec[e].tool
      /\ c.made = exec[e].made /\ c.found = exec[e].found /\ c.result = exec[e].result
  BY ExecType, Zenon DEF ExecStates
<1>2. exec' = [exec EXCEPT ![e] = c]
  BY Zenon DEF To
<1> HIDE DEF c
<1> QED  BY <1>1, <1>2, OneExec, Zenon

(* A return keeps what was found and goes to the deferred clean-up.        *)
LEMMA ExecReturns ==
  ASSUME PipeShape, NEW e \in Execs, NEW r \in Finished, Return(e, r)
  PROVE  /\ exec' \in [Execs -> ExecStates] /\ \A d \in Execs \ {e} : exec'[d] = exec[d]
         /\ exec'[e].pc = "cleanup" /\ exec'[e].kind = exec[e].kind
         /\ exec'[e].made = exec[e].made /\ exec'[e].found = exec[e].found
         /\ exec'[e].result = r
<1> DEFINE c == [exec[e] EXCEPT !.pc = "cleanup", !.result = r]
<1>1. /\ c \in ExecStates /\ c.pc = "cleanup" /\ c.kind = exec[e].kind
      /\ c.made = exec[e].made /\ c.found = exec[e].found /\ c.result = r
  BY ExecType, Zenon DEF ExecStates, Points
<1>2. exec' = [exec EXCEPT ![e] = c]
  BY Zenon DEF Return
<1> HIDE DEF c
<1> QED  BY <1>1, <1>2, OneExec, Zenon

(* A step that fails the scan promises nothing about its findings.         *)
LEMMA Fails ==
  ASSUME PipeShape, NEW e \in Execs, NEW r \in {"error", "fatal"}, Return(e, r),
         exec[e].pc \notin {"idle", "done"}, TreeMoves(e), UNCHANGED <<row, writing>>
  PROVE  Moves(e) /\ Keeps(e)
<1>1. /\ exec' \in [Execs -> ExecStates] /\ \A d \in Execs \ {e} : exec'[d] = exec[d]
      /\ exec'[e].pc = "cleanup" /\ exec'[e].kind = exec[e].kind /\ exec'[e].result = r
  BY ExecReturns, Zenon DEF Finished
<1>2. Moves(e)
  BY <1>1, RowsSame, Zenon DEF Moves
<1>3. Keeps(e)
  BY <1>1, Zenon DEF Keeps, ExecOK, AnswerOK, Preparing
<1> QED  BY <1>2, <1>3, Zenon

(* A step that goes on.                                                    *)
LEMMA GoesOn ==
  ASSUME PipeShape, NEW e \in Execs, NEW p \in Points \ {"idle", "begin", "cleanup", "done"}, To(e, p),
         exec[e].pc \notin {"idle", "done"}, TreeMoves(e), RowMoves
  PROVE  /\ Moves(e)
         /\ exec'[e].pc = p /\ exec'[e].kind = exec[e].kind /\ exec'[e].tool = exec[e].tool
         /\ exec'[e].made = exec[e].made /\ exec'[e].found = exec[e].found
         /\ exec'[e].result = exec[e].result
BY GoesTo, Zenon DEF Moves

(* What is left of an execution is its answer.                             *)
LEMMA OverType ==
  ASSUME PipeShape, NEW e \in Execs, NEW r \in Finished
  PROVE  /\ Over(e, r) \in ExecStates /\ Over(e, r).pc = "done" /\ Over(e, r).kind = exec[e].kind
         /\ Over(e, r).result = r
         /\ r \in {"success", "duplicate"} =>
              Over(e, r).made = exec[e].made /\ Over(e, r).found = exec[e].found
<1> DEFINE idle == [t \in Tools |-> "idle"]
           answer == [NoExec EXCEPT !.pc = "done", !.kind = exec[e].kind, !.result = r]
<1>1. idle \in [Tools -> {"idle", "running", "failed", "ok"}]
  BY Zenon
<1>2. NoExec = [pc |-> "idle", kind |-> "apk", remote |-> FALSE, live |-> TRUE, tool |-> idle,
                hash |-> "hash", made |-> {}, found |-> {}, result |-> "none"]
  BY Zenon DEF NoExec
<1> HIDE DEF idle
<1>3. exec[e] \in ExecStates
  BY ExecType, Zenon
<1>4. answer \in ExecStates /\ answer.pc = "done" /\ answer.kind = exec[e].kind /\ answer.result = r
  BY <1>1, <1>2, <1>3, Zenon DEF ExecStates, Points, Hashes
<1>5. Over(e, r) = IF r \notin {"success", "duplicate"} THEN answer
                   ELSE [answer EXCEPT !.made = exec[e].made, !.found = exec[e].found]
  BY Zenon DEF Over
<1> HIDE DEF answer
<1>6. CASE r \notin {"success", "duplicate"}
  BY <1>4, <1>5, <1>6, Zenon
<1>7. CASE r \in {"success", "duplicate"}
  <2> DEFINE c == [answer EXCEPT !.made = exec[e].made, !.found = exec[e].found]
  <2>1. /\ c \in ExecStates /\ c.pc = answer.pc /\ c.kind = answer.kind /\ c.result = answer.result
        /\ c.made = exec[e].made /\ c.found = exec[e].found
    BY <1>3, <1>4, Zenon DEF ExecStates
  <2>2. Over(e, r) = c
    BY <1>5, <1>7, Zenon
  <2> HIDE DEF c
  <2> QED  BY <1>4, <2>1, <2>2, Zenon
<1> QED  BY <1>6, <1>7, Zenon

(* CreateWorkspace: the execution touches only its own workspace and keeps *)
(* what it has found so far.                                               *)
LEMMA CreateStep ==
  ASSUME PipeShape, NEW e \in Execs, CreateWorkspace(e)
  PROVE  Moves(e) /\ Keeps(e)
<1>1. exec[e].pc = "begin" /\ UNCHANGED <<row, writing>> /\ exec[e] \in ExecStates
  BY ExecType, Zenon DEF CreateWorkspace, In
<1>2. ASSUME Write(e, {"dirs"}) PROVE TreeMoves(e) /\ tree'[Dir(e)] = tree[Dir(e)] \cup {"dirs"}
  BY <1>2, TreeWrite, Zenon DEF Things
<1>3. ASSUME NEW p \in {"tools", "unpack", "dup", "open"}, Write(e, {"dirs"}), To(e, p),
             p = "tools" => exec[e].kind = "scan apk", p = "unpack" => exec[e].kind = "scan ipa",
             p = "dup" => exec[e].kind \in RowKinds,
             p = "open" => exec[e].kind \notin {"scan apk", "scan ipa"} \cup RowKinds
      PROVE  Moves(e) /\ Keeps(e)
  <2>1. /\ Moves(e) /\ exec'[e].pc = p /\ exec'[e].kind = exec[e].kind /\ exec'[e].tool = exec[e].tool
        /\ exec'[e].found = exec[e].found /\ exec'[e].result = exec[e].result
    BY <1>1, <1>2, <1>3, GoesOn, RowsSame, Zenon DEF Points
  <2>2. Keeps(e)
    BY <1>1, <1>3, <2>1, Zenon DEF Keeps, ExecOK, AnswerOK, Preparing, WorkerKinds, RowKinds, ScanKinds, IpaKinds, AllKinds, ExecStates
  <2> QED  BY <2>1, <2>2, Zenon
<1>4. ASSUME Write(e, {"dirs"}) \/ UNCHANGED tree, exec' = [exec EXCEPT ![e] = Over(e, "error")]
      PROVE  Moves(e) /\ Keeps(e)
  <2> DEFINE c == Over(e, "error")
  <2>1. /\ c \in ExecStates /\ c.pc = "done" /\ c.kind = exec[e].kind /\ c.result = "error"
    BY <1>1, OverType, Zenon DEF Finished
  <2>2. exec' = [exec EXCEPT ![e] = c]
    BY <1>4, Zenon
  <2> HIDE DEF c
  <2>3. exec' \in [Execs -> ExecStates] /\ exec'[e] = c /\ \A d \in Execs \ {e} : exec'[d] = exec[d]
    BY <2>1, <2>2, OneExec, Zenon
  <2>4. TreeMoves(e) /\ tree'[Dir(e)] \subseteq tree[Dir(e)] \cup {"dirs"}
    BY <1>2, <1>4, TreeSame, Zenon
  <2>5. Moves(e)
    BY <1>1, <2>1, <2>3, <2>4, RowsSame, Zenon DEF Moves
  <2>6. Keeps(e)
    BY <1>1, <2>1, <2>3, Zenon DEF Keeps, ExecOK, AnswerOK, Preparing
  <2> QED  BY <2>5, <2>6, Zenon
<1>5. CASE exec[e].live /\ Write(e, {"dirs"}) /\
           To(e, CASE exec[e].kind = "scan apk" -> "tools" [] exec[e].kind = "scan ipa" -> "unpack"
                   [] exec[e].kind \in RowKinds -> "dup" [] OTHER -> "open")
  <2> DEFINE p == CASE exec[e].kind = "scan apk" -> "tools" [] exec[e].kind = "scan ipa" -> "unpack"
                   [] exec[e].kind \in RowKinds -> "dup" [] OTHER -> "open"
  <2>1. /\ p \in {"tools", "unpack", "dup", "open"}
        /\ p = "tools" => exec[e].kind = "scan apk"
        /\ p = "unpack" => exec[e].kind = "scan ipa"
        /\ p = "dup" => exec[e].kind \in RowKinds
        /\ p = "open" => exec[e].kind \notin {"scan apk", "scan ipa"} \cup RowKinds
    BY Zenon DEF RowKinds
  <2>2. Write(e, {"dirs"}) /\ To(e, p)
    BY <1>5, Zenon
  <2> HIDE DEF p
  <2> QED  BY <1>3, <2>1, <2>2, Zenon
<1>6. CASE Write(e, {"dirs"}) /\ Return(e, "error")
  BY <1>1, <1>2, <1>6, Fails, Zenon
<1> QED  BY <1>4, <1>5, <1>6, Zenon DEF CreateWorkspace

(* A step to a point before the tools, or on to the corpus of an .ipa, has *)
(* found nothing yet.                                                      *)
LEMMA Passes ==
  ASSUME PipeShape, NEW e \in Execs, NEW p \in {"open", "copy", "safe", "dup", "meta", "unpack", "corpus"},
         To(e, p), exec[e].pc \in Preparing \cup {"unpack"}, TreeMoves(e), UNCHANGED <<row, writing>>,
         p \in Preparing => exec[e].pc \in Preparing,
         ExecOK(exec[e], tree[Dir(e)]) =>
           /\ p \in {"open", "copy"} => exec[e].kind \in WorkerKinds
           /\ p \in {"safe", "dup"} => exec[e].kind \notin ScanKinds
           /\ p = "meta" => exec[e].kind \notin IpaKinds
           /\ p \in {"unpack", "corpus"} => exec[e].kind \in IpaKinds
  PROVE  Moves(e) /\ Keeps(e)
<1>1. /\ Moves(e) /\ exec'[e].pc = p /\ exec'[e].kind = exec[e].kind /\ exec'[e].tool = exec[e].tool
      /\ exec'[e].found = exec[e].found /\ exec'[e].result = exec[e].result
  BY GoesOn, RowsSame DEF Points, Preparing
<1>2. Keeps(e)
  BY <1>1, Zenon DEF Keeps, ExecOK, AnswerOK, Preparing
<1> QED  BY <1>1, <1>2, Zenon

(* resolveAPKPath, local: the execution touches only its own workspace and *)
(* keeps what it has found so far.                                         *)
LEMMA FindStep ==
  ASSUME PipeShape, NEW e \in Execs, FindLocal(e)
  PROVE  Moves(e) /\ Keeps(e)
<1>1. exec[e].pc = "open" /\ UNCHANGED <<tree, row, writing>> /\ (To(e, "safe") \/ Return(e, "error"))
  BY Zenon DEF FindLocal, In
<1>2. ExecOK(exec[e], tree[Dir(e)]) => exec[e].kind \notin ScanKinds
  BY <1>1, Zenon DEF ExecOK, WorkerKinds, ScanKinds
<1> QED  BY <1>1, <1>2, Passes, Fails, TreeSame, Zenon DEF Preparing

(* resolveAPKPath, remote object: the execution touches only its own       *)
(* workspace and keeps what it has found so far.                           *)
LEMMA OpenStep ==
  ASSUME PipeShape, NEW e \in Execs, OpenObject(e)
  PROVE  Moves(e) /\ Keeps(e)
<1>1. exec[e].pc = "open" /\ UNCHANGED <<row, writing>>
  BY Zenon DEF OpenObject, In
<1>2. CASE Write(e, {"temp"}) /\ To(e, "copy")
  <2>1. TreeMoves(e)
    BY <1>2, TreeWrite, Zenon DEF Things
  <2>2. ExecOK(exec[e], tree[Dir(e)]) => exec[e].kind \in WorkerKinds
    BY <1>1, Zenon DEF ExecOK
  <2> QED  BY <1>1, <1>2, <2>1, <2>2, Passes, Zenon DEF Preparing
<1>3. CASE Return(e, "error") /\ UNCHANGED tree
  BY <1>1, <1>3, Fails, TreeSame, Zenon
<1> QED  BY <1>2, <1>3, Zenon DEF OpenObject

(* The copy of a remote object: the execution touches only its own         *)
(* workspace and keeps what it has found so far.                           *)
LEMMA CopyStep ==
  ASSUME PipeShape, NEW e \in Execs, CopyObject(e)
  PROVE  Moves(e) /\ Keeps(e)
<1>1. /\ exec[e].pc = "copy" /\ UNCHANGED <<row, writing>> /\ Wipe(e, {"temp"})
      /\ To(e, "safe") \/ Return(e, "error")
  BY Zenon DEF CopyObject, In
<1>2. TreeMoves(e)
  BY <1>1, TreeWipe, Zenon
<1>3. ExecOK(exec[e], tree[Dir(e)]) => exec[e].kind \notin ScanKinds
  BY <1>1, Zenon DEF ExecOK, WorkerKinds, ScanKinds
<1> QED  BY <1>1, <1>2, <1>3, Passes, Fails, Zenon DEF Preparing

(* CheckAPKSafe: the execution touches only its own workspace and keeps    *)
(* what it has found so far.                                               *)
LEMMA SafeStep ==
  ASSUME PipeShape, NEW e \in Execs, CheckAPKSafe(e)
  PROVE  Moves(e) /\ Keeps(e)
<1>1. exec[e].pc = "safe" /\ UNCHANGED <<tree, row, writing>> /\ TreeMoves(e) /\ exec[e] \in ExecStates
  BY TreeSame, ExecType, Zenon DEF CheckAPKSafe, In
<1>2. CASE To(e, "dup") /\ exec[e].kind \in WorkerKinds
  BY <1>1, <1>2, Passes, Zenon DEF Preparing, ExecOK
<1>3. CASE To(e, "meta") /\ exec[e].kind \notin WorkerKinds
  <2>1. ExecOK(exec[e], tree[Dir(e)]) => exec[e].kind \notin IpaKinds
    BY <1>1, <1>3, Zenon DEF ExecOK, WorkerKinds, IpaKinds, ScanKinds
  <2> QED  BY <1>1, <1>3, <2>1, Passes, Zenon DEF Preparing
<1>4. CASE \E r \in {"fatal", "error"} : Return(e, r)
  BY <1>1, <1>4, Fails, Zenon
<1> QED  BY <1>2, <1>3, <1>4, Zenon DEF CheckAPKSafe

(* The stored answer is taken over: of an .apk it is complete.             *)
LEMMA DuplicateStep ==
  ASSUME PipeShape, NEW e \in Execs, Duplicate(e), exec[e].pc = "dup", UNCHANGED <<tree, row, writing>>
  PROVE  Moves(e) /\ Keeps(e)
<1> DEFINE k == Known(e)
           c == [exec[e] EXCEPT !.pc = "cleanup", !.result = "duplicate", !.found = k]
<1>1. exec' = [exec EXCEPT ![e] = c]
  BY Zenon DEF Duplicate
<1>2. k # NoRow /\ \E h \in Hashes : k = row[h]
  BY Zenon DEF Duplicate, Known, Hashes
<1>3. k \in SUBSET Secrets
  BY <1>2, Zenon DEF PipeShape
<1> HIDE DEF k
<1>4. /\ c \in ExecStates /\ c.pc = "cleanup" /\ c.kind = exec[e].kind
      /\ c.result = "duplicate" /\ c.found = k
  <2>1. "cleanup" \in Points /\ "duplicate" \in Finished
    BY Zenon DEF Points, Finished
  <2>2. exec[e] \in ExecStates
    BY ExecType, Zenon
  <2>3. c.pc = "cleanup" /\ c.kind = exec[e].kind /\ c.result = "duplicate" /\ c.found = k
    BY <2>2, Zenon DEF ExecStates
  <2>4. c \in ExecStates
    BY <1>3, <2>1, <2>2, Zenon DEF ExecStates
  <2> QED  BY <2>3, <2>4, Zenon
<1> HIDE DEF c
<1>5. exec' \in [Execs -> ExecStates] /\ exec'[e] = c /\ \A d \in Execs \ {e} : exec'[d] = exec[d]
  BY <1>1, <1>4, OneExec, Zenon
<1>6. Moves(e)
  BY <1>4, <1>5, TreeSame, RowsSame, Zenon DEF Moves
<1>7. Keeps(e)
  BY <1>2, <1>4, <1>5, Zenon DEF Keeps, ExecOK, AnswerOK, Preparing, FullRows
<1> QED  BY <1>6, <1>7, Zenon

(* CheckDuplicateInDB, by every kind of execution: the stored answer, or a *)
(* scan.                                                                   *)
LEMMA DupStep ==
  ASSUME PipeShape, NEW e \in Execs,
         \/ DuplicateAPK(e) \/ DuplicateIPA(e) \/ CliDuplicate(e) \/ JiraDuplicate(e)
         \/ handleExistingAPK(e)
  PROVE  Moves(e) /\ Keeps(e)
<1> USE DEF In
<1>1. exec[e].pc = "dup" /\ UNCHANGED <<tree, row, writing>> /\ TreeMoves(e)
  BY TreeSame, Zenon DEF DuplicateAPK, DuplicateIPA, CliDuplicate, JiraDuplicate, handleExistingAPK
<1>2. CASE Duplicate(e)
  BY <1>1, <1>2, DuplicateStep, Zenon
<1>3. CASE To(e, "meta") /\ exec[e].kind = "apk"
  BY <1>1, <1>3, Passes, Zenon DEF Preparing, IpaKinds
<1>4. CASE To(e, "unpack") /\ exec[e].kind = "ipa"
  BY <1>1, <1>4, Passes, Zenon DEF Preparing, IpaKinds
<1>5. CASE To(e, "safe")
  BY <1>1, <1>5, Passes, Zenon DEF Preparing, ExecOK
<1>6. CASE Return(e, "error")
  BY <1>1, <1>6, Fails, Zenon
<1> QED  BY <1>2, <1>3, <1>4, <1>5, <1>6, Zenon
         DEF DuplicateAPK, DuplicateIPA, CliDuplicate, JiraDuplicate, handleExistingAPK

(* ExtractMetadataAndPackageData: the execution touches only its own       *)
(* workspace and keeps what it has found so far.                           *)
LEMMA MetadataStep ==
  ASSUME PipeShape, NEW e \in Execs, ExtractMetadata(e)
  PROVE  Moves(e) /\ Keeps(e)
<1>1. exec[e].pc = "meta" /\ UNCHANGED <<tree, row, writing>> /\ TreeMoves(e)
  BY TreeSame, Zenon DEF ExtractMetadata, In
<1>2. ASSUME NEW h \in Hashes, exec' = [exec EXCEPT ![e].pc = "tools", ![e].hash = h]
      PROVE  Moves(e) /\ Keeps(e)
  <2> DEFINE c == [exec[e] EXCEPT !.pc = "tools", !.hash = h]
  <2>1. exec' = [exec EXCEPT ![e] = c]
    BY <1>2, Zenon
  <2>2. /\ c \in ExecStates /\ c.pc = "tools" /\ c.kind = exec[e].kind /\ c.result = exec[e].result
        /\ c.found = exec[e].found /\ c.tool = exec[e].tool
    BY ExecType, Zenon DEF ExecStates, Points
  <2> HIDE DEF c
  <2>3. exec' \in [Execs -> ExecStates] /\ exec'[e] = c /\ \A d \in Execs \ {e} : exec'[d] = exec[d]
    BY <2>1, <2>2, OneExec, Zenon
  <2>4. Moves(e)
    BY <1>1, <2>2, <2>3, RowsSame, Zenon DEF Moves
  <2>5. Keeps(e)
    BY <1>1, <2>2, <2>3, Zenon DEF Keeps, ExecOK, AnswerOK, Preparing
  <2> QED  BY <2>4, <2>5, Zenon
<1>3. CASE Return(e, "error")
  BY <1>1, <1>3, Fails, Zenon
<1> QED  BY <1>2, <1>3, Zenon DEF ExtractMetadata, ExtractPackageData, Hashes

(* What a tool writes is part of the secrets of an .apk.                   *)
LEMMA OutputType == \A t \in Tools : Output(t) \subseteq Full /\ Output(t) \subseteq Things
BY Zenon DEF Output, Full, Things, Secrets

(* A tool changes state; the outputs of the two tools are apart.           *)
LEMMA ToolMoves ==
  ASSUME PipeShape, NEW e \in Execs, NEW t \in Tools, NEW v \in {"running", "failed", "ok"},
         NEW m \in SUBSET Secrets, exec[e].pc = "tools",
         exec' = [exec EXCEPT ![e] = [exec[e] EXCEPT !.tool = [exec[e].tool EXCEPT ![t] = v], !.made = m]],
         TreeMoves(e), UNCHANGED <<row, writing>>,
         v = "ok" => Output(t) \subseteq tree'[Dir(e)],
         \A k \in Tools \ {t} : Output(k) \subseteq tree[Dir(e)] => Output(k) \subseteq tree'[Dir(e)]
  PROVE  Moves(e) /\ Keeps(e)
<1> DEFINE g == [exec[e].tool EXCEPT ![t] = v]
           c == [exec[e] EXCEPT !.tool = g, !.made = m]
<1>1. /\ g \in [Tools -> {"idle", "running", "failed", "ok"}] /\ g[t] = v
      /\ \A k \in Tools \ {t} : g[k] = exec[e].tool[k]
  BY ExecType, Zenon DEF ExecStates
<1>2. exec' = [exec EXCEPT ![e] = c]
  BY Zenon
<1> HIDE DEF g
<1>3. /\ c \in ExecStates /\ c.pc = "tools" /\ c.kind = exec[e].kind /\ c.result = exec[e].result
      /\ c.found = exec[e].found /\ c.tool = g
  <2>1. exec[e] \in ExecStates
    BY ExecType, Zenon
  <2>2. /\ c.pc = exec[e].pc /\ c.kind = exec[e].kind /\ c.result = exec[e].result
        /\ c.found = exec[e].found /\ c.tool = g
    BY <2>1, Zenon DEF ExecStates
  <2>3. c \in ExecStates
    BY <1>1, <2>1, Zenon DEF ExecStates
  <2> QED  BY <2>2, <2>3, Zenon
<1> HIDE DEF c
<1>4. exec' \in [Execs -> ExecStates] /\ exec'[e] = c /\ \A d \in Execs \ {e} : exec'[d] = exec[d]
  BY <1>2, <1>3, OneExec, Zenon
<1>5. Moves(e)
  BY <1>3, <1>4, RowsSame, Zenon DEF Moves
<1>6. ASSUME ExecOK(exec[e], tree[Dir(e)]), NEW k \in Tools, g[k] = "ok"
      PROVE  Output(k) \subseteq tree'[Dir(e)]
  <2>1. CASE k = t
    BY <1>1, <1>6, <2>1, Zenon
  <2>2. CASE k # t
    BY <1>1, <1>6, <2>2, Zenon DEF ExecOK
  <2> QED  BY <2>1, <2>2, Zenon
<1>7. ExecOK(exec[e], tree[Dir(e)]) => ExecOK(c, tree'[Dir(e)]) /\ AnswerOK(c)
  BY <1>3, <1>6, Zenon DEF ExecOK, AnswerOK, Preparing
<1>8. Keeps(e)
  BY <1>4, <1>7, Zenon DEF Keeps
<1> QED  BY <1>5, <1>8, Zenon

(* A tool starts, and empties its own output only (apktool -f).            *)
LEMMA StartToolStep ==
  ASSUME PipeShape, NEW e \in Execs, NEW t \in Tools, StartTool(e, t)
  PROVE  Moves(e) /\ Keeps(e)
<1>1. /\ exec[e].pc = "tools" /\ UNCHANGED <<row, writing>> /\ exec[e] \in ExecStates
      /\ TreeMoves(e) /\ tree'[Dir(e)] = tree[Dir(e)] \ Output(t)
  BY TreeWipe, ExecType, Zenon DEF StartTool, In
<1>2. PICK v \in {"running", "failed"} : exec' = [exec EXCEPT ![e].tool[t] = v]
  BY Zenon DEF StartTool
<1>3. exec[e].made \in SUBSET Secrets
  BY <1>1, Zenon DEF ExecStates
<1>4. exec' = [exec EXCEPT ![e] = [exec[e] EXCEPT !.tool = [exec[e].tool EXCEPT ![t] = v], !.made = exec[e].made]]
  <2>1. [exec[e] EXCEPT !.tool[t] = v]
          = [exec[e] EXCEPT !.tool = [exec[e].tool EXCEPT ![t] = v], !.made = exec[e].made]
    BY <1>1, Zenon DEF ExecStates
  <2>2. exec' = [exec EXCEPT ![e] = [exec[e] EXCEPT !.tool[t] = v]]
    BY <1>2, Zenon
  <2> QED  BY <2>1, <2>2, Zenon
<1>5. \A k \in Tools \ {t} : Output(k) \subseteq tree[Dir(e)] => Output(k) \subseteq tree'[Dir(e)]
  BY <1>1, Zenon DEF Output, Tools
<1> QED  BY <1>1, <1>3, <1>4, <1>5, ToolMoves, Zenon

(* A tool that ends well has written all of its output.                    *)
LEMMA EndToolStep ==
  ASSUME PipeShape, NEW e \in Execs, NEW t \in Tools, EndTool(e, t)
  PROVE  Moves(e) /\ Keeps(e)
<1>1. /\ exec[e].pc = "tools" /\ UNCHANGED <<row, writing>> /\ exec[e] \in ExecStates
      /\ exec[e].made \in SUBSET Secrets
  BY ExecType, Zenon DEF EndTool, In, ExecStates
<1>2. CASE /\ Write(e, Output(t) \cup {"dirs"})
           /\ exec' = [exec EXCEPT ![e].tool[t] = "ok", ![e].made = @ \cup Output(t)]
  <2>1. TreeMoves(e) /\ tree'[Dir(e)] = tree[Dir(e)] \cup (Output(t) \cup {"dirs"})
    BY <1>2, TreeWrite, OutputType, Zenon DEF Things
  <2> DEFINE m == exec[e].made \cup Output(t)
  <2>2. m \in SUBSET Secrets
    BY <1>1, Zenon DEF Output, Secrets
  <2>3. exec' = [exec EXCEPT ![e] = [exec[e] EXCEPT !.tool = [exec[e].tool EXCEPT ![t] = "ok"], !.made = m]]
    <3>1. exec' = [exec EXCEPT ![e] = [exec[e] EXCEPT !.tool[t] = "ok", !.made = m]]
      BY <1>2, Zenon
    <3> HIDE DEF m
    <3>2. [exec[e] EXCEPT !.tool[t] = "ok", !.made = m]
            = [exec[e] EXCEPT !.tool = [exec[e].tool EXCEPT ![t] = "ok"], !.made = m]
      BY <1>1, Zenon DEF ExecStates
    <3> QED  BY <3>1, <3>2, Zenon
  <2> HIDE DEF m
  <2>4. /\ Output(t) \subseteq tree'[Dir(e)]
        /\ \A k \in Tools \ {t} : Output(k) \subseteq tree[Dir(e)] => Output(k) \subseteq tree'[Dir(e)]
    BY <2>1, Zenon
  <2> QED  BY <1>1, <2>1, <2>2, <2>3, <2>4, ToolMoves, Zenon
<1>3. CASE exec' = [exec EXCEPT ![e].tool[t] = "failed"] /\ UNCHANGED tree
  <2>1. exec' = [exec EXCEPT ![e] = [exec[e] EXCEPT !.tool = [exec[e].tool EXCEPT ![t] = "failed"], !.made = exec[e].made]]
    <3>1. [exec[e] EXCEPT !.tool[t] = "failed"]
          = [exec[e] EXCEPT !.tool = [exec[e].tool EXCEPT ![t] = "failed"], !.made = exec[e].made]
      BY <1>1, Zenon DEF ExecStates
    <3>2. exec' = [exec EXCEPT ![e] = [exec[e] EXCEPT !.tool[t] = "failed"]]
      BY <1>3, Zenon
    <3> QED  BY <3>1, <3>2, Zenon
  <2> QED  BY <1>1, <1>3, <2>1, TreeSame, ToolMoves, Zenon
<1> QED  BY <1>2, <1>3, Zenon DEF EndTool

(* Past wg.Wait both tools have ended well, so all is in the workspace     *)
(* (StartSecScanE).                                                        *)
LEMMA JoinStep ==
  ASSUME PipeShape, NEW e \in Execs, JoinTools(e)
  PROVE  Moves(e) /\ Keeps(e)
<1>1. exec[e].pc = "tools" /\ UNCHANGED <<tree, row, writing>> /\ TreeMoves(e)
  BY TreeSame, Zenon DEF JoinTools, In
<1>2. CASE To(e, "text") /\ \A t \in Tools : exec[e].tool[t] = "ok"
  <2>1. /\ Moves(e) /\ exec'[e].pc = "text" /\ exec'[e].kind = exec[e].kind
        /\ exec'[e].found = exec[e].found /\ exec'[e].result = exec[e].result
    BY <1>1, <1>2, GoesOn, RowsSame, Zenon DEF Points
  <2>2. ExecOK(exec[e], tree[Dir(e)]) => Full \subseteq tree[Dir(e)]
    BY <1>1, <1>2, Zenon DEF ExecOK, Output, Full, Tools
  <2>3. Keeps(e)
    BY <1>1, <2>1, <2>2, Zenon DEF Keeps, ExecOK, AnswerOK, Preparing
  <2> QED  BY <2>1, <2>3, Zenon
<1>3. CASE Return(e, "fatal")
  BY <1>1, <1>3, Fails, Zenon
<1> QED  BY <1>2, <1>3, Zenon DEF JoinTools

(* StartUnpack: the execution touches only its own workspace and keeps     *)
(* what it has found so far.                                               *)
LEMMA UnpackStep ==
  ASSUME PipeShape, NEW e \in Execs, StartUnpack(e)
  PROVE  Moves(e) /\ Keeps(e)
<1>1. exec[e].pc = "unpack" /\ UNCHANGED <<row, writing>>
  BY Zenon DEF StartUnpack, In
<1>2. CASE Write(e, {"dirs"}) /\ To(e, "corpus")
  <2>1. TreeMoves(e)
    BY <1>2, TreeWrite, Zenon DEF Things
  <2> QED  BY <1>1, <1>2, <2>1, Passes, Zenon DEF Preparing, ExecOK
<1>3. CASE Return(e, "error") /\ UNCHANGED tree
  BY <1>1, <1>3, Fails, TreeSame, Zenon
<1> QED  BY <1>2, <1>3, Zenon DEF StartUnpack

(* The corpus holds what was made of the strings, and nothing of an older  *)
(* corpus (StartIOSExtraction).                                            *)
LEMMA CorpusStep ==
  ASSUME PipeShape, NEW e \in Execs, BuildCorpus(e)
  PROVE  Moves(e) /\ Keeps(e)
<1>1. exec[e].pc = "corpus" /\ UNCHANGED <<row, writing>>
  BY Zenon DEF BuildCorpus, In
<1>2. ASSUME NEW parts \in SUBSET {"strings"},
             tree' = [tree EXCEPT ![Dir(e)] = (@ \ {"strings"}) \cup parts \cup {"dirs"}],
             exec' = [exec EXCEPT ![e].pc = "text", ![e].made = parts]
      PROVE  Moves(e) /\ Keeps(e)
  <2> DEFINE t == (tree[Dir(e)] \ {"strings"}) \cup parts \cup {"dirs"}
             c == [exec[e] EXCEPT !.pc = "text", !.made = parts]
  <2>1. t \in SUBSET Things /\ t \cap {"strings"} = parts
    BY DirType, Zenon DEF PipeShape, Things, Secrets
  <2>2. tree' = [tree EXCEPT ![Dir(e)] = t] /\ exec' = [exec EXCEPT ![e] = c]
    BY <1>2, Zenon
  <2>3. /\ c \in ExecStates /\ c.pc = "text" /\ c.kind = exec[e].kind /\ c.result = exec[e].result
        /\ c.found = exec[e].found /\ c.made = parts
    <3>1. exec[e] \in ExecStates /\ "text" \in Points /\ parts \in SUBSET Secrets
      BY ExecType, Zenon DEF Points, Secrets
    <3>2. /\ c.pc = "text" /\ c.kind = exec[e].kind /\ c.result = exec[e].result
          /\ c.found = exec[e].found /\ c.made = parts
      BY <3>1, Zenon DEF ExecStates
    <3>3. c \in ExecStates
      BY <3>1, Zenon DEF ExecStates
    <3> QED  BY <3>2, <3>3, Zenon
  <2> HIDE DEF c, t
  <2>4. exec' \in [Execs -> ExecStates] /\ exec'[e] = c /\ \A d \in Execs \ {e} : exec'[d] = exec[d]
    BY <2>2, <2>3, OneExec, Zenon
  <2>5. TreeMoves(e) /\ tree'[Dir(e)] = t
    BY <2>1, <2>2, TreeSet, Zenon
  <2>6. Moves(e)
    BY <1>1, <2>3, <2>4, <2>5, RowsSame, Zenon DEF Moves
  <2>7. Keeps(e)
    BY <1>1, <2>1, <2>3, <2>4, <2>5, Zenon DEF Keeps, ExecOK, AnswerOK, Preparing
  <2> QED  BY <2>6, <2>7, Zenon
<1>3. CASE Return(e, "error") /\ UNCHANGED tree
  BY <1>1, <1>3, Fails, TreeSame, Zenon
<1> QED  BY <1>2, <1>3, Zenon DEF BuildCorpus

(* A pass finds what is in the workspace where it looks                    *)
(* (scanCorpusWithOpts).                                                   *)
LEMMA PassStep ==
  ASSUME PipeShape, NEW e \in Execs, NEW looked \in SUBSET Secrets, NEW next \in {"binary", "persist"},
         exec[e].pc \in {"text", "binary"}, ScanCorpusWithOpts(e, looked, next),
         ExecOK(exec[e], tree[Dir(e)]) =>
           LET f == exec[e].found \cup (tree[Dir(e)] \cap looked)
           IN  IF next = "binary"
               THEN exec[e].kind \notin IpaKinds /\ f = {"smali", "res"} /\ "bin" \in tree[Dir(e)]
               ELSE f = IF exec[e].kind \in IpaKinds THEN exec[e].made ELSE Full
  PROVE  Moves(e) /\ Keeps(e)
<1>1. UNCHANGED <<tree, row, writing>> /\ TreeMoves(e)
  BY TreeSame, Zenon DEF ScanCorpusWithOpts
<1>2. CASE exec' = [exec EXCEPT ![e].pc = next, ![e].found = @ \cup (tree[Dir(e)] \cap looked)]
  <2> DEFINE f == exec[e].found \cup (tree[Dir(e)] \cap looked)
             c == [exec[e] EXCEPT !.pc = next, !.found = f]
  <2>1. f \in SUBSET Secrets
    BY ExecType, Zenon DEF ExecStates
  <2>2. exec' = [exec EXCEPT ![e] = c]
    BY <1>2, Zenon
  <2>3. ExecOK(exec[e], tree[Dir(e)]) =>
           IF next = "binary"
           THEN exec[e].kind \notin IpaKinds /\ f = {"smali", "res"} /\ "bin" \in tree[Dir(e)]
           ELSE f = IF exec[e].kind \in IpaKinds THEN exec[e].made ELSE Full
    BY Zenon
  <2> HIDE DEF f
  <2>4. /\ c \in ExecStates /\ c.pc = next /\ c.kind = exec[e].kind /\ c.result = exec[e].result
        /\ c.found = f /\ c.made = exec[e].made
    <3>1. exec[e] \in ExecStates /\ next \in Points
      BY ExecType, Zenon DEF Points
    <3>2. /\ c.pc = next /\ c.kind = exec[e].kind /\ c.result = exec[e].result
          /\ c.found = f /\ c.made = exec[e].made
      BY <3>1, Zenon DEF ExecStates
    <3>3. c \in ExecStates
      BY <2>1, <3>1, Zenon DEF ExecStates
    <3> QED  BY <3>2, <3>3, Zenon
  <2> HIDE DEF c
  <2>5. exec' \in [Execs -> ExecStates] /\ exec'[e] = c /\ \A d \in Execs \ {e} : exec'[d] = exec[d]
    BY <2>2, <2>4, OneExec, Zenon
  <2>6. Moves(e)
    BY <1>1, <2>4, <2>5, RowsSame, Zenon DEF Moves
  <2>7. ExecOK(exec[e], tree[Dir(e)]) => exec[e].result = "none"
    BY Zenon DEF ExecOK
  <2>8. ExecOK(exec[e], tree[Dir(e)]) => ExecOK(c, tree[Dir(e)]) /\ AnswerOK(c)
    BY <2>3, <2>4, <2>7, Zenon DEF ExecOK, AnswerOK, Preparing, Whole
  <2>9. Keeps(e)
    BY <1>1, <2>5, <2>8, Zenon DEF Keeps
  <2> QED  BY <2>6, <2>9, Zenon
<1>3. CASE Return(e, "error")
  BY <1>1, <1>3, Fails, Zenon
<1> QED  BY <1>2, <1>3, Zenon DEF ScanCorpusWithOpts

(* The text pass finds the sources and resources of an .apk, or the corpus *)
(* of an .ipa.                                                             *)
LEMMA TextStep ==
  ASSUME PipeShape, NEW e \in Execs, ScanText(e)
  PROVE  Moves(e) /\ Keeps(e)
<1>1. exec[e].pc = "text"
  BY Zenon DEF ScanText, In
<1>2. CASE exec[e].kind \in IpaKinds
  <2>1. ScanCorpusWithOpts(e, {"strings"}, "persist")
    BY <1>2, Zenon DEF ScanText
  <2>2. ExecOK(exec[e], tree[Dir(e)]) =>
          exec[e].found \cup (tree[Dir(e)] \cap {"strings"}) = exec[e].made
    BY <1>1, <1>2, Zenon DEF ExecOK
  <2> QED  BY <1>1, <1>2, <2>1, <2>2, PassStep, Zenon DEF Secrets
<1>3. CASE exec[e].kind \notin IpaKinds
  <2>1. ScanCorpusWithOpts(e, {"smali", "res"}, "binary")
    BY <1>3, Zenon DEF ScanText
  <2>2. ExecOK(exec[e], tree[Dir(e)]) =>
          /\ exec[e].found \cup (tree[Dir(e)] \cap {"smali", "res"}) = {"smali", "res"}
          /\ "bin" \in tree[Dir(e)]
    BY <1>1, <1>3, Zenon DEF ExecOK, Full
  <2> QED  BY <1>1, <1>3, <2>1, <2>2, PassStep, Zenon DEF Secrets
<1> QED  BY <1>2, <1>3, Zenon

(* The binary pass completes the findings of an .apk.                      *)
LEMMA BinaryStep ==
  ASSUME PipeShape, NEW e \in Execs, ScanBinary(e)
  PROVE  Moves(e) /\ Keeps(e)
<1>1. exec[e].pc = "binary" /\ ScanCorpusWithOpts(e, {"bin"}, "persist")
  BY Zenon DEF ScanBinary, In
<1>2. ExecOK(exec[e], tree[Dir(e)]) =>
        /\ exec[e].found \cup (tree[Dir(e)] \cap {"bin"}) = Full
        /\ exec[e].kind \notin IpaKinds
  BY <1>1, Zenon DEF ExecOK, Full
<1> QED  BY <1>1, <1>2, PassStep, Zenon DEF Secrets

(* insertSecretsSync stores the findings, or leaves the row.               *)
LEMMA InsertRowFacts ==
  ASSUME PipeShape, NEW h \in Hashes, NEW found \in SUBSET Secrets, InsertRow(h, found)
  PROVE  /\ row' \in [Hashes -> {NoRow} \cup SUBSET Secrets]
         /\ \A g \in Hashes : row'[g] \in {row[g], found}
BY Zenon DEF PipeShape, InsertRow

(* The result is stored, or will be by a goroutine, or not.                *)
LEMMA StorePipeStep ==
  ASSUME PipeShape, NEW e \in Execs, exec[e].pc = "persist", To(e, "report"), UNCHANGED tree,
         RowMoves, \A g \in Hashes : row'[g] \in {row[g], exec[e].found},
         \A w \in writing' : w \in writing \/ w.found = exec[e].found
  PROVE  Moves(e) /\ Keeps(e)
<1>1. /\ Moves(e) /\ exec'[e].pc = "report" /\ exec'[e].kind = exec[e].kind /\ exec'[e].made = exec[e].made
      /\ exec'[e].found = exec[e].found /\ exec'[e].result = exec[e].result
  BY GoesOn, TreeSame, Zenon DEF Points
<1>2. ExecOK(exec[e], tree[Dir(e)]) => ExecOK(exec'[e], tree'[Dir(e)]) /\ AnswerOK(exec'[e])
  BY <1>1, Zenon DEF ExecOK, AnswerOK, Preparing, Whole
<1>3. ExecOK(exec[e], tree[Dir(e)]) /\ exec[e].kind \notin IpaKinds => exec[e].found = Full
  BY Zenon DEF ExecOK, Whole
<1>4. Keeps(e)
  BY <1>1, <1>2, <1>3, Zenon DEF Keeps, FullRows
<1> QED  BY <1>1, <1>4, Zenon

(* Every kind of execution stores what it found, which is complete.        *)
LEMMA PersistStep ==
  ASSUME PipeShape, NEW e \in Execs,
         PersistAPK(e) \/ PersistIPA(e) \/ PersistCli(e) \/ PersistJira(e) \/ handleDatabaseOperations(e)
  PROVE  Moves(e) /\ Keeps(e)
<1> USE DEF In
<1>1. exec[e].pc = "persist" /\ To(e, "report") /\ UNCHANGED tree
      /\ exec[e].hash \in Hashes /\ exec[e].found \in SUBSET Secrets
  BY ExecType, Zenon DEF PersistAPK, PersistIPA, PersistCli, PersistJira, handleDatabaseOperations, ExecStates
<1>2. CASE UNCHANGED writing /\ \E h \in Hashes : InsertRow(h, exec[e].found)
  <2>1. /\ row' \in [Hashes -> {NoRow} \cup SUBSET Secrets]
        /\ \A g \in Hashes : row'[g] \in {row[g], exec[e].found}
    BY <1>1, <1>2, InsertRowFacts, Zenon
  <2>2. RowMoves
    BY <1>2, <2>1, Zenon DEF RowMoves, PipeShape
  <2> QED  BY <1>1, <1>2, <2>1, <2>2, StorePipeStep, Zenon
<1>3. CASE UNCHANGED row /\ (Later(e) \/ UNCHANGED writing)
  <2>1. \A w \in writing' : w \in writing \/ (w.hash = exec[e].hash /\ w.found = exec[e].found)
    BY <1>3 DEF Later
  <2>2. RowMoves
    BY <1>1, <1>3, <2>1, Zenon DEF RowMoves, PipeShape
  <2> QED  BY <1>1, <1>3, <2>1, <2>2, StorePipeStep, Zenon
<1> QED
  BY <1>1, <1>2, <1>3, Zenon DEF PersistAPK, PersistIPA, PersistCli, PersistJira, handleDatabaseOperations, Hashes

(* The answer is what was found.                                           *)
LEMMA ReportStep ==
  ASSUME PipeShape, NEW e \in Execs, exec[e].pc \in {"persist", "report"}, Return(e, "success"),
         UNCHANGED <<tree, row, writing>>
  PROVE  Moves(e) /\ Keeps(e)
<1>1. /\ exec' \in [Execs -> ExecStates] /\ \A d \in Execs \ {e} : exec'[d] = exec[d]
      /\ exec'[e].pc = "cleanup" /\ exec'[e].kind = exec[e].kind /\ exec'[e].result = "success"
      /\ exec'[e].made = exec[e].made /\ exec'[e].found = exec[e].found
  BY ExecReturns, Zenon DEF Finished
<1>2. Moves(e)
  BY <1>1, RowsSame, TreeSame, Zenon DEF Moves
<1>3. ExecOK(exec[e], tree[Dir(e)]) => ExecOK(exec'[e], tree'[Dir(e)]) /\ AnswerOK(exec'[e])
  BY <1>1, Zenon DEF ExecOK, AnswerOK, Preparing, Whole
<1>4. Keeps(e)
  BY <1>3, Zenon DEF Keeps
<1> QED  BY <1>2, <1>4, Zenon

(* CleanupWorkspace leaves nothing in the workspace.                       *)
LEMMA CleanupStep ==
  ASSUME PipeShape, NEW e \in Execs, CleanupWorkspace(e)
  PROVE  Moves(e) /\ Keeps(e)
<1> DEFINE c == Over(e, exec[e].result)
<1>0. /\ exec[e].pc = "cleanup" /\ exec' = [exec EXCEPT ![e] = c] /\ exec[e].result \in Finished
      /\ UNCHANGED <<row, writing>> /\ tree' = [tree EXCEPT ![Dir(e)] = {}]
  BY ExecType, Zenon DEF CleanupWorkspace, In, PipeShape, ExecStates
<1>1. /\ c \in ExecStates /\ c.pc = "done" /\ c.kind = exec[e].kind /\ c.result = exec[e].result
      /\ exec[e].result \in {"success", "duplicate"} => c.made = exec[e].made /\ c.found = exec[e].found
  BY <1>0, OverType
<1> HIDE DEF c
<1>2. exec' \in [Execs -> ExecStates] /\ exec'[e] = c /\ \A d \in Execs \ {e} : exec'[d] = exec[d]
  BY <1>0, <1>1, OneExec, Zenon
<1>3. TreeMoves(e) /\ tree'[Dir(e)] = {}
  BY <1>0, TreeSet, Zenon
<1>4. Moves(e)
  BY <1>0, <1>1, <1>2, <1>3, RowsSame, Zenon DEF Moves
<1>5. ExecOK(exec[e], tree[Dir(e)]) => AnswerOK(c)
  BY <1>0, <1>1, Zenon DEF ExecOK, AnswerOK, Whole
<1>6. Keeps(e)
  BY <1>0, <1>1, <1>2, <1>5, Zenon DEF Keeps
<1> QED  BY <1>4, <1>6, Zenon

(* A cancelled context changes nothing but the context.                    *)
LEMMA StopStep ==
  ASSUME PipeShape, NEW e \in Execs, StopScan(e)
  PROVE  Moves(e) /\ Keeps(e)
<1> DEFINE c == [exec[e] EXCEPT !.live = FALSE]
<1>1. exec[e].pc \notin {"idle", "cleanup", "done"} /\ UNCHANGED <<tree, row, writing>> /\ TreeMoves(e)
      /\ exec' = [exec EXCEPT ![e] = c]
  BY TreeSame, Zenon DEF StopScan, In
<1>2. /\ c \in ExecStates /\ c.pc = exec[e].pc /\ c.kind = exec[e].kind /\ c.result = exec[e].result
      /\ c.tool = exec[e].tool /\ c.made = exec[e].made /\ c.found = exec[e].found
  BY ExecType, Zenon DEF ExecStates
<1> HIDE DEF c
<1>3. exec' \in [Execs -> ExecStates] /\ exec'[e] = c /\ \A d \in Execs \ {e} : exec'[d] = exec[d]
  BY <1>1, <1>2, OneExec, Zenon
<1>4. Moves(e)
  BY <1>1, <1>2, <1>3, RowsSame, Zenon DEF Moves
<1>5. ExecOK(exec[e], tree[Dir(e)]) => ExecOK(c, tree[Dir(e)]) /\ AnswerOK(c)
  BY <1>1, <1>2 DEF ExecOK, AnswerOK, Whole
<1>6. Keeps(e)
  BY <1>1, <1>3, <1>5, Zenon DEF Keeps
<1> QED  BY <1>4, <1>6, Zenon

(* A step of an execution that has begun, other than a crash.              *)
Work(e) ==
  \/ CreateWorkspace(e) \/ StopScan(e) \/ FindLocal(e) \/ OpenObject(e) \/ CopyObject(e)
  \/ CheckAPKSafe(e) \/ DuplicateAPK(e) \/ DuplicateIPA(e) \/ CliDuplicate(e)
  \/ JiraDuplicate(e) \/ handleExistingAPK(e) \/ ExtractMetadata(e)
  \/ \E t \in Tools : StartTool(e, t) \/ EndTool(e, t)
  \/ JoinTools(e) \/ StartUnpack(e) \/ BuildCorpus(e) \/ ScanText(e) \/ ScanBinary(e)
  \/ PersistAPK(e) \/ PersistIPA(e) \/ PersistCli(e) \/ PersistJira(e)
  \/ handleDatabaseOperations(e)
  \/ ReportAPK(e) \/ ReportIPA(e) \/ ReportCli(e) \/ ReportJira(e) \/ ReportExtract(e)
  \/ ReportScan(e) \/ CleanupWorkspace(e)

(* Every step of an execution touches only its own workspace and keeps     *)
(* what it has found so far.                                               *)
LEMMA WorkStep ==
  ASSUME PipeShape, NEW e \in Execs, Work(e)
  PROVE  Moves(e) /\ Keeps(e)
<1>1. CASE ReportAPK(e) \/ ReportIPA(e) \/ ReportCli(e) \/ ReportJira(e) \/ ReportExtract(e) \/ ReportScan(e)
  <2>1. exec[e].pc \in {"persist", "report"} /\ Return(e, "success") /\ UNCHANGED <<tree, row, writing>>
    BY <1>1, Zenon DEF ReportAPK, ReportIPA, ReportCli, ReportJira, ReportExtract, ReportScan, Report, In
  <2> QED  BY <2>1, ReportStep, Zenon
<1> QED
  BY <1>1, CreateStep, StopStep, FindStep, OpenStep, CopyStep, SafeStep, DupStep, MetadataStep,
     StartToolStep, EndToolStep, JoinStep, UnpackStep, CorpusStep, TextStep, BinaryStep, PersistStep,
     CleanupStep, Zenon DEF Work

(* The workspace follows from the kind of the execution.                   *)
LEMMA SameDir ==
  ASSUME NEW e \in Execs, exec'[e].kind = exec[e].kind
  PROVE  Dir(e)' = Dir(e)
BY Zenon DEF Dir, IsWorker

(* A step of an execution leaves an owner of every workspace that holds    *)
(* files.                                                                  *)
LEMMA MovesOwned ==
  ASSUME PipeShape, Owned, NEW e \in Execs, Moves(e)
  PROVE  PipeShape' /\ Owned'
<1>1. PipeShape'
  BY DEF PipeShape, Moves, TreeMoves, RowMoves
<1>2. \A d \in Execs : exec'[d].kind = exec[d].kind
  BY Zenon DEF Moves
<1>3. \A d \in Execs : Dir(d)' = Dir(d)
  BY <1>2, SameDir, Zenon
<1>4. ASSUME NEW d \in Dirs, ~(tree'[d] \subseteq {"dirs"})
      PROVE  \E f \in Execs : Owner(f, d)'
  <2>1. CASE d = Dir(e) /\ exec'[e].pc \notin {"begin", "done"}
    BY <1>3, <2>1, Zenon DEF Owner, Moves
  <2>2. CASE d # Dir(e)
    <3>1. PICK f \in Execs : Owner(f, d)
      BY <1>4, <2>2, Zenon DEF Owned, Moves, TreeMoves
    <3>2. f # e
      BY <2>2, <3>1, Zenon DEF Owner
    <3> QED  BY <1>3, <3>1, <3>2, Zenon DEF Owner, Moves
  <2>3. CASE d = Dir(e) /\ exec'[e].pc \in {"begin", "done"}
    <3>1. exec[e].pc = "begin" /\ ~(tree[d] \subseteq {"dirs"})
      BY <1>4, <2>3, Zenon DEF Moves
    <3>2. PICK f \in Execs : Owner(f, d)
      BY <3>1, Zenon DEF Owned
    <3>3. f # e
      BY <3>1, <3>2, Zenon DEF Owner
    <3> QED  BY <1>3, <3>2, <3>3, Zenon DEF Owner, Moves
  <2> QED  BY <2>1, <2>2, <2>3, Zenon
<1> QED  BY <1>1, <1>4, Zenon DEF Owned

(* A step of the only execution keeps the findings complete.               *)
LEMMA MovesComplete ==
  ASSUME PipeShape, CompleteInv, NEW e \in Execs, Moves(e), Keeps(e)
  PROVE  CompleteInv'
<1>1. /\ \A d \in Execs : exec'[d].kind = exec[d].kind
      /\ \A d \in Execs : exec'[d].pc = "idle" <=> exec[d].pc = "idle"
      /\ \A d \in Execs \ {e} : exec'[d] = exec[d]
      /\ exec[e].pc \notin {"idle", "done"} /\ exec'[e].pc # "idle"
  BY Zenon DEF Moves
<1>2. \A d \in Execs : exec[d].pc \notin {"idle", "done"} => d = e
  BY <1>1, Zenon DEF CompleteInv, Alike
<1>3. exec[e].kind \notin IpaKinds => FullRows(row, writing)
  <2>1. exec[e].kind \notin IpaKinds => \A d \in Execs : exec[d].pc # "idle" => exec[d].kind \notin IpaKinds
    BY <1>1, Zenon DEF CompleteInv, Alike
  <2> QED  BY <2>1, Zenon DEF CompleteInv, RowsOK, FullRows
<1>4. /\ exec'[e].pc # "done" => ExecOK(exec'[e], tree'[Dir(e)])
      /\ AnswerOK(exec'[e])
      /\ exec[e].kind \notin IpaKinds => FullRows(row', writing')
  BY <1>1, <1>3, Zenon DEF CompleteInv, Keeps
<1>5. Alike'
  <2>1. ASSUME NEW d \in Execs, NEW f \in Execs, exec'[d].pc # "idle", exec'[f].pc # "idle"
        PROVE  (exec'[d].kind \in IpaKinds) = (exec'[f].kind \in IpaKinds)
    BY <1>1, <2>1 DEF CompleteInv, Alike
  <2>2. ASSUME NEW d \in Execs, exec'[d].pc \notin {"idle", "done"} PROVE d = e
    BY <1>1, <1>2, <2>2, Zenon
  <2> QED  BY <2>1, <2>2, Zenon DEF Alike
<1>6. RowsOK'
  BY <1>1, <1>4, Zenon DEF RowsOK, FullRows
<1>7. \A d \in Execs : AnswerOK(exec[d])'
  <2>1. ASSUME NEW d \in Execs PROVE AnswerOK(exec'[d])
    BY <1>1, <1>4, Zenon DEF CompleteInv
  <2> QED  BY <2>1, Zenon DEF AnswerOK, Whole
<1>8. ASSUME NEW d \in Execs, exec'[d].pc \notin {"idle", "done"} PROVE ExecOK(exec[d], tree[Dir(d)])'
  <2>1. d = e
    BY <1>1, <1>2, <1>8, Zenon
  <2>2. Dir(e)' = Dir(e)
    BY <1>1, SameDir, Zenon
  <2>3. ExecOK(exec'[e], tree'[Dir(e)])
    BY <1>4, <1>8, <2>1, Zenon
  <2> QED  BY <2>1, <2>2, <2>3 DEF ExecOK, Whole
<1> QED  BY <1>5, <1>6, <1>7, <1>8, Zenon DEF CompleteInv

(* A new execution has found nothing; it starts while no other runs,       *)
(* unless executions may overlap (scanAPK, scanIPA, StartCliExtraction).   *)
LEMMA StartPipeStep ==
  ASSUME PipeShape, Owned, NEW e \in Execs, NEW kind \in AllKinds, NEW remote \in BOOLEAN, Start(e, kind, remote)
  PROVE  /\ PipeShape' /\ Owned'
         /\ ~Overlap /\ CompleteInv => CompleteInv'
<1> DEFINE idle == [t \in Tools |-> "idle"]
           c == [NoExec EXCEPT !.pc = "begin", !.kind = kind, !.remote = remote]
<1>1. idle \in [Tools -> {"idle", "running", "failed", "ok"}] /\ \A t \in Tools : idle[t] = "idle"
  BY Zenon
<1>2. NoExec = [pc |-> "idle", kind |-> "apk", remote |-> FALSE, live |-> TRUE, tool |-> idle,
                hash |-> "hash", made |-> {}, found |-> {}, result |-> "none"]
  BY Zenon DEF NoExec
<1>3. /\ exec[e].pc = "idle" /\ exec' = [exec EXCEPT ![e] = c] /\ UNCHANGED <<tree, row, writing>>
      /\ Overlap \/ \A d \in Execs : exec[d].pc \in {"idle", "done"}
      /\ \A d \in Execs : exec[d].pc # "idle" => (kind \in IpaKinds) = (exec[d].kind \in IpaKinds)
  BY Zenon DEF Start, In
<1> HIDE DEF idle
<1>4. /\ c \in ExecStates /\ c.pc = "begin" /\ c.kind = kind /\ c.tool = idle /\ c.found = {} /\ c.result = "none"
  BY <1>1, <1>2, Zenon DEF ExecStates, Points, Hashes
<1> HIDE DEF c
<1>5. exec' \in [Execs -> ExecStates] /\ exec'[e] = c /\ \A d \in Execs \ {e} : exec'[d] = exec[d]
  BY <1>3, <1>4, OneExec, Zenon
<1>6. PipeShape'
  BY <1>3, <1>4, <1>5, Zenon DEF PipeShape
<1>7. Owned'
  <2> SUFFICES ASSUME NEW d \in Dirs, ~(tree[d] \subseteq {"dirs"}) PROVE \E f \in Execs : Owner(f, d)'
    BY <1>3, Zenon DEF Owned
  <2>1. PICK f \in Execs : Owner(f, d)
    BY Zenon DEF Owned
  <2>2. f # e
    BY <1>3, <2>1, Zenon DEF Owner
  <2> QED  BY <1>5, <2>1, <2>2, Zenon DEF Owner, Dir, IsWorker
<1>8. ASSUME ~Overlap, CompleteInv PROVE CompleteInv'
  <2>1. Alike'
    <3>1. ASSUME NEW d \in Execs, exec'[d].pc \notin {"idle", "done"} PROVE d = e
      BY <1>3, <1>5, <1>8, <3>1, Zenon
    <3>2. ASSUME NEW d \in Execs, exec'[d].pc # "idle"
          PROVE  (exec'[d].kind \in IpaKinds) = (kind \in IpaKinds)
      BY <1>3, <1>4, <1>5, <3>2, Zenon
    <3> QED  BY <3>1, <3>2, Zenon DEF Alike
  <2>2. RowsOK'
    <3> SUFFICES ASSUME \A d \in Execs : exec'[d].pc # "idle" => exec'[d].kind \notin IpaKinds
                 PROVE  FullRows(row, writing)
      BY <1>3, Zenon DEF RowsOK, FullRows
    <3>1. \A d \in Execs : exec[d].pc # "idle" => exec[d].kind \notin IpaKinds
      BY <1>3, <1>5, Zenon
    <3> QED  BY <1>8, <3>1, Zenon DEF CompleteInv, RowsOK, FullRows
  <2>3. ASSUME NEW d \in Execs PROVE AnswerOK(exec[d])'
    <3>1. CASE d = e
      BY <1>4, <1>5, <3>1, Zenon DEF AnswerOK
    <3>2. CASE d # e
      BY <1>5, <1>8, <3>2, Zenon DEF CompleteInv, AnswerOK, Whole
    <3> QED  BY <3>1, <3>2, Zenon
  <2>4. ASSUME NEW d \in Execs, exec'[d].pc \notin {"idle", "done"} PROVE ExecOK(exec[d], tree[Dir(d)])'
    <3>1. exec'[d] = c
      BY <1>3, <1>5, <1>8, <2>4, Zenon
    <3> QED  BY <1>1, <1>4, <3>1, Zenon DEF ExecOK, Preparing
  <2> QED  BY <2>1, <2>2, <2>3, <2>4, Zenon DEF CompleteInv
<1> QED  BY <1>6, <1>7, <1>8, Zenon

(* A crash leaves the workspace to the crashed execution, and no answer.   *)
LEMMA CrashStep ==
  ASSUME PipeShape, Owned, NEW e \in Execs, ScanCrash(e)
  PROVE  PipeShape' /\ Owned' /\ (CompleteInv => CompleteInv')
<1>1. ASSUME NEW d \in Execs
      PROVE  /\ exec'[d] \in ExecStates /\ exec'[d].kind = exec[d].kind
             /\ exec[d].pc \in {"idle", "done"} => exec'[d] = exec[d]
             /\ exec[d].pc \notin {"idle", "done"} => exec'[d].pc = "done" /\ exec'[d].result = "crashed"
  BY OverType, ExecType, Zenon DEF ScanCrash, Finished
<1>2. exec' \in [Execs -> ExecStates] /\ writing' = {} /\ row' = row
  BY <1>1, Zenon DEF ScanCrash
<1>3. tree' \in [Dirs -> SUBSET Things] /\ \A d \in Dirs : tree'[d] \subseteq tree[d]
  BY Zenon DEF ScanCrash, PipeShape
<1>4. PipeShape'
  BY <1>1, <1>2, <1>3, Zenon DEF PipeShape
<1>5. \A d \in Execs : Dir(d)' = Dir(d)
  BY <1>1, SameDir, Zenon
<1>6. Owned'
  <2> SUFFICES ASSUME NEW d \in Dirs, ~(tree'[d] \subseteq {"dirs"}) PROVE \E f \in Execs : Owner(f, d)'
    BY Zenon DEF Owned
  <2>1. PICK f \in Execs : Owner(f, d)
    BY <1>3, Zenon DEF Owned
  <2> QED  BY <1>1, <1>5, <2>1, Zenon DEF Owner
<1>7. ASSUME CompleteInv PROVE CompleteInv'
  <2>1. \A d \in Execs : exec'[d].pc \in {"idle", "done"} /\ (exec'[d].pc = "idle" <=> exec[d].pc = "idle")
    BY <1>1, Zenon
  <2>2. Alike'
    BY <1>1, <1>7, <2>1 DEF CompleteInv, Alike
  <2>3. RowsOK'
    BY <1>1, <1>2, <1>7, <2>1, Zenon DEF CompleteInv, RowsOK
  <2>4. ASSUME NEW d \in Execs PROVE AnswerOK(exec[d])'
    BY <1>1, <1>7 DEF CompleteInv, AnswerOK, Whole
  <2> QED  BY <2>1, <2>2, <2>3, <2>4, Zenon DEF CompleteInv
<1> QED  BY <1>4, <1>6, <1>7, Zenon

(* The goroutine stores what its execution had found (InsertSecretsAsync). *)
LEMMA InsertStep ==
  ASSUME PipeShape, Owned, InsertSecretsAsync
  PROVE  PipeShape' /\ Owned' /\ (CompleteInv => CompleteInv')
<1>1. PICK w \in writing : InsertRow(w.hash, w.found) /\ writing' = writing \ {w} /\ UNCHANGED <<tree, exec>>
  BY Zenon DEF InsertSecretsAsync
<1>2. /\ row' \in [Hashes -> {NoRow} \cup SUBSET Secrets]
      /\ \A g \in Hashes : row'[g] \in {row[g], w.found}
  BY <1>1, InsertRowFacts, Zenon DEF PipeShape
<1>3. PipeShape' /\ Owned'
  BY <1>1, <1>2, Zenon DEF PipeShape, Owned, Owner, Dir, IsWorker
<1>4. ASSUME CompleteInv PROVE CompleteInv'
  <2>1. exec' = exec /\ tree' = tree /\ \A e \in Execs : Dir(e)' = Dir(e)
    BY <1>1, Zenon DEF Dir, IsWorker
  <2>2. Alike'
    BY <1>4, <2>1, Zenon DEF CompleteInv, Alike
  <2>3. RowsOK'
    BY <1>1, <1>2, <1>4, <2>1, Zenon DEF CompleteInv, RowsOK
  <2>4. ASSUME NEW e \in Execs PROVE AnswerOK(exec[e])'
    BY <1>4, <2>1, Zenon DEF CompleteInv, AnswerOK, Whole
  <2>5. ASSUME NEW e \in Execs, exec'[e].pc \notin {"idle", "done"}
        PROVE  ExecOK(exec'[e], tree'[Dir(e)'])
    BY <1>4, <2>1, <2>5, Zenon DEF CompleteInv
  <2> QED  BY <2>2, <2>3, <2>4, <2>5, Zenon DEF CompleteInv
<1> QED  BY <1>3, <1>4, Zenon

(* Nothing is there before the first execution.                            *)
LEMMA PipeStart == PipeInit => PipeShape /\ Owned /\ CompleteInv
<1> SUFFICES ASSUME PipeInit PROVE PipeShape /\ Owned /\ CompleteInv
  BY Zenon
<1> DEFINE idle == [t \in Tools |-> "idle"]
<1>1. idle \in [Tools -> {"idle", "running", "failed", "ok"}]
  BY Zenon
<1>2. NoExec = [pc |-> "idle", kind |-> "apk", remote |-> FALSE, live |-> TRUE, tool |-> idle,
                hash |-> "hash", made |-> {}, found |-> {}, result |-> "none"]
  BY Zenon DEF NoExec
<1> HIDE DEF idle
<1>3. NoExec \in ExecStates /\ NoExec.pc = "idle" /\ NoExec.result = "none"
  BY <1>1, <1>2, Zenon DEF ExecStates, Points, Hashes, AllKinds, WorkerKinds
<1>4. \A e \in Execs : exec[e] = NoExec
  BY Zenon DEF PipeInit
<1>5. PipeShape /\ Owned
  BY <1>3, <1>4, Zenon DEF PipeInit, PipeShape, Owned
<1>6. CompleteInv
  BY <1>3, <1>4, Zenon DEF PipeInit, CompleteInv, Alike, RowsOK, AnswerOK
<1> QED  BY <1>5, <1>6, Zenon

(* Every step keeps the shape, the owners and, without overlap, the        *)
(* findings.                                                               *)
LEMMA PipeStep ==
  PipeShape /\ Owned /\ [PipeNext]_pipeVars =>
    PipeShape' /\ Owned' /\ (~Overlap /\ CompleteInv => CompleteInv')
<1> SUFFICES ASSUME PipeShape, Owned, [PipeNext]_pipeVars
             PROVE  PipeShape' /\ Owned' /\ (~Overlap /\ CompleteInv => CompleteInv')
  BY Zenon
<1>1. ASSUME NEW e \in Execs,
             \/ scanAPK(e) \/ scanIPA(e) \/ StartCliExtraction(e) \/ PostJira(e)
             \/ PostSlackScan(e) \/ StartScanTool(e)
      PROVE  PipeShape' /\ Owned' /\ (~Overlap /\ CompleteInv => CompleteInv')
  <2>1. PICK kind \in AllKinds : \E remote \in BOOLEAN : Start(e, kind, remote)
    BY <1>1, Zenon DEF scanAPK, scanIPA, StartCliExtraction, PostJira, PostSlackScan, StartScanTool,
                StartJiraProcess, StartExtractProcess, AllKinds, WorkerKinds, RowKinds, ScanKinds
  <2> QED  BY <2>1, StartPipeStep, Zenon
<1>2. ASSUME NEW e \in Execs, Work(e)
      PROVE  PipeShape' /\ Owned' /\ (~Overlap /\ CompleteInv => CompleteInv')
  BY <1>2, WorkStep, MovesOwned, MovesComplete, Zenon
<1>3. ASSUME NEW e \in Execs, ScanCrash(e)
      PROVE  PipeShape' /\ Owned' /\ (~Overlap /\ CompleteInv => CompleteInv')
  BY <1>3, CrashStep, Zenon
<1>4. CASE InsertSecretsAsync
  BY <1>4, InsertStep, Zenon
<1>5. CASE UNCHANGED pipeVars
  <2>1. exec' = exec /\ tree' = tree /\ row' = row /\ writing' = writing
    BY <1>5, Zenon DEF pipeVars
  <2>2. \A e : Dir(e)' = Dir(e)
    BY <2>1, Zenon DEF Dir, IsWorker
  <2>3. PipeShape'
    BY <2>1, Zenon DEF PipeShape
  <2>4. Owned'
    BY <2>1, <2>2, Zenon DEF Owned, Owner
  <2>5. Alike' = Alike /\ RowsOK' = RowsOK
    BY <2>1, Zenon DEF Alike, RowsOK
  <2>6. CompleteInv => CompleteInv'
    BY <2>1, <2>2, <2>5, Zenon DEF CompleteInv
  <2> QED  BY <2>3, <2>4, <2>6, Zenon
<1> QED  BY <1>1, <1>2, <1>3, <1>4, <1>5 DEF PipeNext, Work

(* What is in a workspace beyond empty directories belongs to an execution *)
(* that is at work or crashed: every return runs the deferred              *)
(* CleanupWorkspace. For any number of executions of any kind, overlapping *)
(* or not.                                                                 *)
THEOREM WorkspacesAreReclaimed == PipeSpec => []WorkspaceReclaimed
<1>1. PipeShape /\ Owned => WorkspaceReclaimed
  BY Zenon DEF PipeShape, Owned, Owner, WorkspaceReclaimed
<1> QED  BY <1>1, PipeStart, PipeStep, PTL DEF PipeSpec

(* When executions of a package do not overlap, one that answers success   *)
(* has all its package holds, and a stored answer for an .apk is complete, *)
(* whatever fails, crashes or is cancelled and however many executions     *)
(* came before (scanAPK, scanIPA, StartSecScanE). OneExecution tells when  *)
(* the queue keeps executions of a job apart.                              *)
THEOREM ScansAreComplete == ~Overlap => (PipeSpec => []FindingsComplete)
<1> SUFFICES ASSUME ~Overlap PROVE PipeSpec => []FindingsComplete
  BY Zenon
<1>1. PipeShape /\ Owned /\ CompleteInv /\ [PipeNext]_pipeVars => PipeShape' /\ Owned' /\ CompleteInv'
  BY PipeStep, Zenon
<1>2. CompleteInv => FindingsComplete
  BY Zenon DEF CompleteInv, AnswerOK, Whole, FindingsComplete, Full
<1> QED  BY <1>1, <1>2, PipeStart, PTL DEF PipeSpec

-----------------------------------------------------------------------------
(* Patterns.  PatternsFresh is not inductive: a cache, and a build on its  *)
(* way to one, cover every file up to their stamp, whatever scans listed   *)
(* it.                                                                     *)

(* A set of natural numbers with a bound has a greatest element.           *)
LEMMA MaxExists ==
  ASSUME NEW S, S # {}, NEW b \in Nat, S \subseteq 0..b
  PROVE  Max(S) \in S /\ \A x \in S : x <= Max(S)
<1> DEFINE above == {n \in Nat : \A x \in S : x <= n}
<1>1. PICK m \in above : \A k \in above : ~(<<k, m>> \in OpToRel(<, Nat))
  BY b \in above, NatLessThanWellFounded, WFMin, Zenon
<1>2. m \in S
  <2> SUFFICES ASSUME m \notin S PROVE FALSE
    BY Zenon
  <2>1. m # 0
    <3>1. PICK x \in S : TRUE
      BY Zenon
    <3> QED  BY <3>1
  <2>2. m - 1 \in above /\ m - 1 < m
    BY <2>1
  <2> QED  BY <1>1, <2>2, Zenon DEF OpToRel
<1> QED  BY <1>1, <1>2, Zenon DEF Max

ScanStates ==
  [at : {"idle", "look", "lock", "build", "done", "failed"},
   from : [Files -> Nat], max : Nat, todo : SUBSET Files,
   listed : SUBSET Files, read : [Files -> Nat], any : BOOLEAN]

PatternShape ==
  /\ disk \in [Files -> Body \cup {NoPatterns}]
  /\ mtime \in [Files -> Nat] /\ changed \in [Files -> Nat] /\ now \in Nat
  /\ scan \in [Scans -> ScanStates]
  /\ cache \in [built : Int, read : [Files -> Nat]]
  /\ now <= MaxChanges /\ cache.built <= now
  /\ \A f \in Files : mtime[f] <= now /\ changed[f] <= now
  /\ \A f \in Files : disk[f] # NoPatterns => mtime[f] = changed[f]

Present == {f \in Files : disk[f] # NoPatterns}
Listing == {"look", "lock", "build"}

(* A snapshot, by its stamp and what it read of f, has f as it was at v or *)
(* later.                                                                  *)
Covers(stamp, read, f, v) == v <= stamp => v <= read[f]

ScanShape(s) ==
  /\ scan[s].max <= now
  /\ scan[s].listed \subseteq Present
  /\ \A f \in Files : scan[s].from[f] <= changed[f]
  /\ scan[s].at \in Listing => \A f \in scan[s].listed : scan[s].from[f] <= scan[s].max

(* What a build has read so far, against what is there and what was        *)
(* listed.                                                                 *)
Building(s) ==
  scan[s].at \in Listing =>
    \A f \in Present \ scan[s].todo :
      /\ Covers(scan[s].max, scan[s].read, f, changed[f])
      /\ \A t \in Scans : f \in scan[t].listed =>
           Covers(scan[s].max, scan[s].read, f, scan[t].from[f])

CacheCovers ==
  cache.built >= 0 =>
    \A f \in Present :
      /\ Covers(cache.built, cache.read, f, changed[f])
      /\ \A t \in Scans : f \in scan[t].listed =>
           Covers(cache.built, cache.read, f, scan[t].from[f])

PatternInv ==
  /\ PatternShape
  /\ \A s \in Scans : ScanShape(s) /\ Building(s)
  /\ CacheCovers /\ PatternsFresh

(* A snapshot against what is there and what the scans listed.             *)
CoversAll(stamp, read, f) ==
  /\ Covers(stamp, read, f, changed[f])
  /\ \A t \in Scans : f \in scan[t].listed => Covers(stamp, read, f, scan[t].from[f])

(* A scan that has not started.                                            *)
LEMMA NoScanState == NoScan \in ScanStates
<1>1. [f \in Files |-> 0] \in [Files -> Nat]
  BY Zenon
<1> QED  BY <1>1, Zenon DEF NoScan, ScanStates

(* A step of one scan keeps the invariant if what it read covers what is   *)
(* there and what the scans listed.                                        *)
LEMMA ScanMoves ==
  ASSUME PatternInv, NEW s \in Scans, NEW c \in ScanStates,
         scan' = [scan EXCEPT ![s] = c], UNCHANGED <<disk, mtime, changed, now>>,
         cache' \in [built : Int, read : [Files -> Nat]], cache'.built <= now,
         c.max <= now, c.listed \subseteq Present,
         \A f \in Files : c.from[f] <= changed[f],
         \A f \in c.listed : \/ f \in scan[s].listed /\ c.from[f] = scan[s].from[f]
                             \/ c.from[f] = changed[f],
         c.at \in Listing => /\ \A f \in c.listed : c.from[f] <= c.max
                             /\ \A f \in Present \ c.todo : CoversAll(c.max, c.read, f),
         c.at = "done" => \A f \in c.listed : c.read[f] >= c.from[f],
         cache'.built >= 0 => \A f \in Present : CoversAll(cache'.built, cache'.read, f)
  PROVE  PatternInv'
<1>0. /\ scan' \in [Scans -> ScanStates] /\ scan'[s] = c
      /\ \A t \in Scans \ {s} : scan'[t] = scan[t]
  BY Zenon DEF PatternInv, PatternShape
<1>1. Present' = Present /\ changed' = changed /\ now' = now
  BY Zenon DEF Present
<1>2. PatternShape'
  BY <1>0, Zenon DEF PatternInv, PatternShape
<1>3. ASSUME NEW f \in Files, NEW stamp, NEW read, CoversAll(stamp, read, f)
      PROVE  /\ Covers(stamp, read, f, changed[f])
             /\ \A t \in Scans : f \in scan'[t].listed => Covers(stamp, read, f, scan'[t].from[f])
  <2>1. ASSUME NEW t \in Scans, f \in scan'[t].listed
        PROVE  Covers(stamp, read, f, scan'[t].from[f])
    <3>1. CASE t = s
      BY <1>0, <1>3, <2>1, <3>1, Zenon DEF CoversAll
    <3>2. CASE t # s
      BY <1>0, <1>3, <2>1, <3>2, Zenon DEF CoversAll
    <3> QED  BY <3>1, <3>2, Zenon
  <2> QED  BY <1>3, <2>1, Zenon DEF CoversAll
<1>4. ASSUME NEW t \in Scans PROVE ScanShape(t)'
  <2>1. CASE t = s
    BY <1>0, <1>1, <2>1, Zenon DEF ScanShape
  <2>2. CASE t # s
    BY <1>0, <1>1, <2>2, Zenon DEF ScanShape, PatternInv
  <2> QED  BY <2>1, <2>2, Zenon
<1>5. ASSUME NEW t \in Scans, scan'[t].at \in Listing, NEW f \in Present, f \notin scan'[t].todo
      PROVE  CoversAll(scan'[t].max, scan'[t].read, f)
  <2>1. CASE t = s
    BY <1>0, <1>5, <2>1, Zenon
  <2>2. CASE t # s
    <3>1. scan'[t] = scan[t] /\ Building(t)
      BY <1>0, <2>2, Zenon DEF PatternInv
    <3> QED  BY <1>5, <3>1, Zenon DEF Building, CoversAll
  <2> QED  BY <2>1, <2>2, Zenon
<1>6. ASSUME NEW t \in Scans PROVE Building(t)'
  <2> SUFFICES ASSUME scan'[t].at \in Listing, NEW f \in Present, f \notin scan'[t].todo
               PROVE  /\ Covers(scan'[t].max, scan'[t].read, f, changed[f])
                      /\ \A u \in Scans : f \in scan'[u].listed =>
                           Covers(scan'[t].max, scan'[t].read, f, scan'[u].from[f])
    BY <1>1, Zenon DEF Building, Covers
  <2> QED  BY <1>3, <1>5, Zenon DEF Present
<1>7. CacheCovers'
  <2> SUFFICES ASSUME cache'.built >= 0, NEW f \in Present
               PROVE  /\ Covers(cache'.built, cache'.read, f, changed[f])
                      /\ \A u \in Scans : f \in scan'[u].listed =>
                           Covers(cache'.built, cache'.read, f, scan'[u].from[f])
    BY <1>1, Zenon DEF CacheCovers, Covers
  <2> QED  BY <1>3, Zenon DEF Present
<1>8. PatternsFresh'
  BY <1>0, Zenon DEF PatternInv, PatternsFresh
<1> QED  BY <1>2, <1>4, <1>6, <1>7, <1>8, Zenon DEF PatternInv

(* A scan lists the files with their times (GetPatternCache); the stamp of *)
(* its listing is the greatest of them.                                    *)
LEMMA ListPatternsStep ==
  ASSUME PatternInv, NEW s \in Scans, ListPatterns(s)
  PROVE  PatternInv'
<1> DEFINE top == Max({mtime[f] : f \in Files})
           c == [NoScan EXCEPT !.at = "look", !.from = changed, !.todo = Present,
                               !.listed = Present, !.max = top]
<1>1. top \in Nat /\ top <= now /\ \A f \in Files : mtime[f] <= top
  <2>1. {mtime[f] : f \in Files} # {} /\ {mtime[f] : f \in Files} \subseteq 0..now /\ now \in Nat
    BY PatternAssumption DEF PatternInv, PatternShape
  <2> QED  BY <2>1, MaxExists
<1>2. scan' = [scan EXCEPT ![s] = c] /\ UNCHANGED <<disk, mtime, changed, now, cache>>
  BY Zenon DEF ListPatterns, Present
<1> HIDE DEF top
<1>3. /\ c \in ScanStates /\ c.at = "look" /\ c.from = changed /\ c.todo = Present
      /\ c.listed = Present /\ c.max = top
  BY <1>1, NoScanState, Zenon DEF ScanStates, PatternInv, PatternShape, Present, NoScan
<1> HIDE DEF c
<1>4. \A f \in c.listed : c.from[f] <= c.max
  BY <1>1, <1>3, Zenon DEF PatternInv, PatternShape, Present
<1>5. cache'.built >= 0 => \A f \in Present : CoversAll(cache'.built, cache'.read, f)
  BY <1>2, Zenon DEF PatternInv, CacheCovers, CoversAll
<1>6. /\ cache' \in [built : Int, read : [Files -> Nat]] /\ cache'.built <= now
      /\ \A f \in Files : c.from[f] <= changed[f]
  BY <1>2, <1>3 DEF PatternInv, PatternShape
<1> QED  BY <1>1, <1>2, <1>3, <1>4, <1>5, <1>6, ScanMoves, Zenon

(* A scan that moves on without listing, reading or publishing.            *)
LEMMA MoveOn ==
  ASSUME PatternInv, NEW s \in Scans, NEW c \in ScanStates,
         scan' = [scan EXCEPT ![s] = c], UNCHANGED <<disk, mtime, changed, now, cache>>,
         scan[s].at \in Listing, c.at \in Listing,
         c.max = scan[s].max, c.from = scan[s].from, c.listed = scan[s].listed,
         c.todo = scan[s].todo, c.read = scan[s].read
  PROVE  PatternInv'
<1>1. cache'.built >= 0 => \A f \in Present : CoversAll(cache'.built, cache'.read, f)
  BY Zenon DEF PatternInv, CacheCovers, CoversAll
<1>2. \A f \in Present \ c.todo : CoversAll(c.max, c.read, f)
  BY Zenon DEF PatternInv, Building, CoversAll
<1>3. ScanShape(s) /\ c.at # "done"
  BY Zenon DEF PatternInv, Listing
<1>4. cache' \in [built : Int, read : [Files -> Nat]] /\ cache'.built <= now
  BY Zenon DEF PatternInv, PatternShape
<1>5. /\ c.max <= now /\ c.listed \subseteq Present
      /\ \A f \in Files : c.from[f] <= changed[f]
      /\ \A f \in c.listed : c.from[f] <= c.max
      /\ \A f \in c.listed : f \in scan[s].listed /\ c.from[f] = scan[s].from[f]
  BY <1>3, Zenon DEF ScanShape
<1> QED  BY <1>1, <1>2, <1>3, <1>4, <1>5, ScanMoves, Zenon

(* A scan that returns: what it got is as new as its listing.              *)
LEMMA ReturnStep ==
  ASSUME PatternInv, NEW s \in Scans, NEW how \in {"done", "failed"},
         NEW read \in [Files -> Nat], Returns(s, how, read),
         UNCHANGED <<disk, mtime, changed, now>>,
         how = "done" => \A f \in scan[s].listed : read[f] >= scan[s].from[f],
         cache' \in [built : Int, read : [Files -> Nat]], cache'.built <= now,
         cache'.built >= 0 => \A f \in Present : CoversAll(cache'.built, cache'.read, f)
  PROVE  PatternInv'
<1> DEFINE c == [NoScan EXCEPT !.at = how, !.from = scan[s].from,
                               !.listed = scan[s].listed, !.read = read]
<1>1. scan' = [scan EXCEPT ![s] = c]
  BY Zenon DEF Returns
<1>2. scan[s] \in ScanStates
  BY Zenon DEF PatternInv, PatternShape
<1>3. /\ c \in ScanStates /\ c.at = how /\ c.from = scan[s].from
      /\ c.listed = scan[s].listed /\ c.read = read /\ c.max = 0
  BY <1>2, NoScanState, Zenon DEF ScanStates, NoScan
<1> HIDE DEF c
<1>4. ScanShape(s) /\ now \in Nat /\ c.at \notin Listing
  BY <1>3, Zenon DEF PatternInv, PatternShape, Listing
<1>5. /\ c.max <= now /\ c.listed \subseteq Present
      /\ \A f \in Files : c.from[f] <= changed[f]
      /\ \A f \in c.listed : f \in scan[s].listed /\ c.from[f] = scan[s].from[f]
      /\ c.at = "done" => \A f \in c.listed : c.read[f] >= c.from[f]
  BY <1>3, <1>4 DEF ScanShape
<1> QED  BY <1>1, <1>3, <1>4, <1>5, ScanMoves, Zenon

(* A cache that is fresh for the listing has every listed file as listed   *)
(* or later (GetPatternCache).                                             *)
LEMMA TakePatternsStep ==
  ASSUME PatternInv, NEW s \in Scans, scan[s].at \in Listing, FreshFor(s), Take(s),
         UNCHANGED <<disk, mtime, changed, now, cache>>
  PROVE  PatternInv'
<1>1. /\ cache \in [built : Int, read : [Files -> Nat]] /\ cache.built <= now
      /\ cache.read \in [Files -> Nat] /\ scan[s] \in ScanStates
  BY Zenon DEF PatternInv, PatternShape
<1>2. cache.built >= 0 /\ scan[s].max <= cache.built
  BY <1>1 DEF FreshFor, ScanStates
<1>3. \A f \in Present : CoversAll(cache.built, cache.read, f)
  BY <1>2, Zenon DEF PatternInv, CacheCovers, CoversAll
<1>4. ASSUME NEW f \in scan[s].listed PROVE cache.read[f] >= scan[s].from[f]
  <2>1. /\ f \in Present /\ scan[s].from[f] <= scan[s].max
        /\ f \in Files /\ scan[s].from[f] \in Nat /\ scan[s].max \in Nat /\ cache.read[f] \in Nat
    BY <1>1, <1>4, Zenon DEF PatternInv, ScanShape, Present, ScanStates
  <2>2. Covers(cache.built, cache.read, f, scan[s].from[f])
    BY <1>3, <1>4, <2>1, Zenon DEF CoversAll
  <2> QED  BY <1>1, <1>2, <2>1, <2>2 DEF Covers
<1> QED  BY <1>1, <1>3, <1>4, ReturnStep, Zenon DEF Take

(* Both looks at the cache, before the lock and under it                   *)
(* (GetPatternCache).                                                      *)
LEMMA LookStep ==
  ASSUME PatternInv, NEW s \in Scans, LookUp(s) \/ LockCache(s)
  PROVE  PatternInv'
<1>1. scan[s].at \in Listing /\ UNCHANGED <<disk, mtime, changed, now, cache>>
  BY Zenon DEF LookUp, LockCache, Listing
<1>2. CASE FreshFor(s)
  BY <1>1, <1>2, TakePatternsStep, Zenon DEF LookUp, LockCache
<1>3. CASE ~FreshFor(s)
  <2>1. PICK a \in {"lock", "build"} : scan' = [scan EXCEPT ![s].at = a]
    BY <1>3, Zenon DEF LookUp, LockCache
  <2> DEFINE c == [scan[s] EXCEPT !.at = a]
  <2>2. scan[s] \in ScanStates
    BY Zenon DEF PatternInv, PatternShape
  <2>3. /\ c \in ScanStates /\ c.at \in Listing /\ c.max = scan[s].max /\ c.from = scan[s].from
        /\ c.listed = scan[s].listed /\ c.todo = scan[s].todo /\ c.read = scan[s].read
    BY <2>2, Zenon DEF ScanStates, Listing
  <2>4. scan' = [scan EXCEPT ![s] = c]
    BY <2>1, Zenon
  <2> HIDE DEF c
  <2> QED  BY <1>1, <2>3, <2>4, MoveOn, Zenon
<1> QED  BY <1>2, <1>3, Zenon

(* A file is read as it is now, as new as any listing of it                *)
(* (buildPatternCache).                                                    *)
LEMMA ReadFileStep ==
  ASSUME PatternInv, NEW s \in Scans, NEW f \in Files, ReadPatternFile(s, f)
  PROVE  PatternInv'
<1> DEFINE b == scan[s].any \/ Enabled(f)
           c == [scan[s] EXCEPT !.todo = @ \ {f}, !.read[f] = changed[f], !.any = b]
<1>1. scan[s] \in ScanStates /\ changed[f] \in Nat /\ scan[s].at = "build"
  BY Zenon DEF PatternInv, PatternShape, ReadPatternFile
<1>2. b \in BOOLEAN
  BY Zenon
<1>3. scan' = [scan EXCEPT ![s] = c] /\ UNCHANGED <<disk, mtime, changed, now, cache>>
  BY Zenon DEF ReadPatternFile
<1> HIDE DEF b
<1>4. /\ c \in ScanStates /\ c.at = "build" /\ c.max = scan[s].max /\ c.from = scan[s].from
      /\ c.listed = scan[s].listed /\ c.todo = scan[s].todo \ {f}
      /\ c.read = [scan[s].read EXCEPT ![f] = changed[f]]
  BY <1>1, <1>2, Zenon DEF ScanStates
<1> HIDE DEF c
<1>5. cache'.built >= 0 => \A g \in Present : CoversAll(cache'.built, cache'.read, g)
  BY <1>3, Zenon DEF PatternInv, CacheCovers, CoversAll
<1>6. ASSUME NEW g \in Present \ c.todo PROVE CoversAll(c.max, c.read, g)
  <2>1. CASE g = f
    <3>1. c.read[f] = changed[f]
      BY <1>1, <1>4, Zenon DEF ScanStates
    <3>2. \A t \in Scans : scan[t].from[f] <= changed[f]
      BY Zenon DEF PatternInv, ScanShape
    <3> QED  BY <1>1, <2>1, <3>1, <3>2 DEF CoversAll, Covers
  <2>2. CASE g # f
    <3>1. c.read[g] = scan[s].read[g] /\ g \in Present \ scan[s].todo
      BY <1>1, <1>4, <1>6, <2>2, Zenon DEF ScanStates, Present
    <3>2. Building(s)
      BY Zenon DEF PatternInv
    <3> QED  BY <1>1, <1>4, <3>1, <3>2, Zenon DEF Building, CoversAll, Covers, Listing
  <2> QED  BY <2>1, <2>2, Zenon
<1>7. ScanShape(s) /\ c.at # "done"
  BY <1>4, Zenon DEF PatternInv
<1>8. /\ c.max <= now /\ c.listed \subseteq Present
      /\ \A g \in Files : c.from[g] <= changed[g]
      /\ \A g \in c.listed : c.from[g] <= c.max
      /\ \A g \in c.listed : g \in scan[s].listed /\ c.from[g] = scan[s].from[g]
  BY <1>1, <1>4, <1>7, Zenon DEF ScanShape, Listing
<1>9. cache' \in [built : Int, read : [Files -> Nat]] /\ cache'.built <= now
  BY <1>3, Zenon DEF PatternInv, PatternShape
<1> QED  BY <1>3, <1>4, <1>5, <1>6, <1>7, <1>8, <1>9, ScanMoves, Zenon

(* The published cache covers what is there up to its stamp                *)
(* (buildPatternCache).                                                    *)
LEMMA PublishStep ==
  ASSUME PatternInv, NEW s \in Scans, PublishCache(s)
  PROVE  PatternInv'
<1>1. /\ scan[s] \in ScanStates /\ scan[s].at = "build" /\ scan[s].todo = {}
      /\ UNCHANGED <<disk, mtime, changed, now>> /\ now \in Nat
  BY Zenon DEF PatternInv, PatternShape, PublishCache
<1>2. CASE scan[s].any
  <2>1. cache' = [built |-> scan[s].max, read |-> scan[s].read] /\ Returns(s, "done", scan[s].read)
    BY <1>2, Zenon DEF PublishCache, Stamp
  <2>2. /\ cache' \in [built : Int, read : [Files -> Nat]] /\ cache'.built = scan[s].max
        /\ cache'.read = scan[s].read /\ cache'.built <= now /\ scan[s].read \in [Files -> Nat]
    BY <1>1, <2>1 DEF ScanStates, PatternInv, ScanShape
  <2>3. \A f \in Present : CoversAll(scan[s].max, scan[s].read, f)
    BY <1>1, Zenon DEF PatternInv, Building, CoversAll, Listing
  <2>4. ASSUME NEW f \in scan[s].listed PROVE scan[s].read[f] >= scan[s].from[f]
    <3>1. /\ f \in Present /\ scan[s].from[f] <= scan[s].max
          /\ scan[s].from[f] \in Nat /\ scan[s].read[f] \in Nat
      BY <1>1, <2>4, Zenon DEF PatternInv, ScanShape, Listing, ScanStates
    <3>2. Covers(scan[s].max, scan[s].read, f, scan[s].from[f])
      BY <2>3, <2>4, <3>1, Zenon DEF CoversAll
    <3> QED  BY <3>1, <3>2, Zenon DEF Covers
  <2> QED  BY <1>1, <2>1, <2>2, <2>3, <2>4, ReturnStep, Zenon
<1>3. CASE ~scan[s].any
  <2>1. cache' = cache /\ Returns(s, "failed", NoScan.read)
    BY <1>3, Zenon DEF PublishCache
  <2>2. NoScan.read \in [Files -> Nat]
    BY NoScanState, Zenon DEF ScanStates
  <2>3. cache' \in [built : Int, read : [Files -> Nat]] /\ cache'.built <= now
    BY <2>1, Zenon DEF PatternInv, PatternShape
  <2>4. cache'.built >= 0 => \A f \in Present : CoversAll(cache'.built, cache'.read, f)
    BY <2>1, Zenon DEF PatternInv, CacheCovers, CoversAll
  <2> QED  BY <1>1, <2>1, <2>2, <2>3, <2>4, ReturnStep, Zenon
<1> QED  BY <1>2, <1>3, Zenon

(* A scan ends, and another may start.                                     *)
LEMMA EndScanStep ==
  ASSUME PatternInv, NEW s \in Scans, EndScan(s)
  PROVE  PatternInv'
<1>1. scan' = [scan EXCEPT ![s] = NoScan] /\ UNCHANGED <<disk, mtime, changed, now, cache>>
  BY Zenon DEF EndScan
<1>2. cache'.built >= 0 => \A f \in Present : CoversAll(cache'.built, cache'.read, f)
  BY <1>1, Zenon DEF PatternInv, CacheCovers, CoversAll
<1>3. /\ cache' \in [built : Int, read : [Files -> Nat]] /\ cache'.built <= now
      /\ now \in Nat /\ changed \in [Files -> Nat]
  BY <1>1, Zenon DEF PatternInv, PatternShape
<1>4. /\ NoScan.max <= now /\ NoScan.listed = {} /\ NoScan.at = "idle"
      /\ \A f \in Files : NoScan.from[f] <= changed[f]
  BY <1>3 DEF NoScan
<1> QED  BY <1>1, <1>2, <1>3, <1>4, NoScanState, ScanMoves, Zenon DEF Listing

(* A file written: its new time is beyond every stamp.                     *)
LEMMA WriteStep ==
  ASSUME PatternInv, NEW f \in Files, NEW body \in Body, Touch(f, body), UNCHANGED <<scan, cache>>
  PROVE  PatternInv'
<1>1. /\ disk' \in [Files -> Body \cup {NoPatterns}] /\ mtime' \in [Files -> Nat]
      /\ changed' \in [Files -> Nat] /\ now' = now + 1 /\ now \in Nat /\ now' <= MaxChanges
      /\ changed'[f] = now + 1 /\ mtime'[f] = now + 1 /\ disk'[f] = body
      /\ \A g \in Files \ {f} : /\ disk'[g] = disk[g] /\ mtime'[g] = mtime[g]
                                /\ changed'[g] = changed[g]
  BY PatternAssumption DEF PatternInv, PatternShape, Touch
<1>2. scan' = scan /\ cache' = cache /\ scan \in [Scans -> ScanStates]
      /\ cache \in [built : Int, read : [Files -> Nat]] /\ cache.built <= now
  BY Zenon DEF PatternInv, PatternShape
<1>3. PatternShape'
  BY <1>1, <1>2 DEF PatternInv, PatternShape
<1>4. Present \subseteq Present' /\ \A g \in Present' : g \in Files /\ (g \in Present \/ g = f)
  BY <1>1, PatternAssumption, Zenon DEF Present, Body
<1>5. ASSUME NEW s \in Scans
      PROVE  /\ scan[s] \in ScanStates /\ scan[s].listed \subseteq Present
             /\ scan[s].max <= now /\ \A g \in Files : scan[s].from[g] <= changed[g]
             /\ scan[s].at \in Listing => \A g \in scan[s].listed : scan[s].from[g] <= scan[s].max
  BY <1>2, Zenon DEF PatternInv, ScanShape
<1>6. ASSUME NEW s \in Scans PROVE ScanShape(s)'
  <2>1. \A g \in Files : scan[s].from[g] <= changed'[g]
    <3> SUFFICES ASSUME NEW g \in Files PROVE scan[s].from[g] <= changed'[g]
      BY Zenon
    <3>1. scan[s].from[g] \in Nat /\ changed[g] \in Nat /\ changed[g] <= now /\ scan[s].from[g] <= changed[g]
      BY <1>5 DEF ScanStates, PatternInv, PatternShape
    <3> QED  BY <1>1, <3>1
  <2>2. scan[s].max <= now' /\ scan[s].listed \subseteq Present'
    BY <1>1, <1>4, <1>5 DEF ScanStates
  <2> QED  BY <1>2, <1>5, <2>1, <2>2, Zenon DEF ScanShape
<1>7. ASSUME NEW stamp \in Int, stamp <= now, NEW read, NEW g \in Present',
             g \in Present => CoversAll(stamp, read, g)
      PROVE  CoversAll(stamp, read, g)'
  <2>1. CASE g = f
    <3>1. Covers(stamp, read, f, changed'[f])
      BY <1>1, <1>7 DEF Covers
    <3>2. \A t \in Scans : f \in scan[t].listed => Covers(stamp, read, f, scan[t].from[f])
      BY <1>5, <1>7, <2>1, Zenon DEF CoversAll
    <3> QED  BY <1>2, <2>1, <3>1, <3>2, Zenon DEF CoversAll, Covers
  <2>2. CASE g # f
    BY <1>1, <1>2, <1>4, <1>7, <2>2, Zenon DEF CoversAll, Covers
  <2> QED  BY <2>1, <2>2, Zenon
<1>8. ASSUME NEW s \in Scans PROVE Building(s)'
  <2> SUFFICES ASSUME scan[s].at \in Listing, NEW g \in Present', g \notin scan[s].todo
               PROVE  CoversAll(scan[s].max, scan[s].read, g)'
    BY <1>2, Zenon DEF Building, CoversAll
  <2>1. g \in Present => CoversAll(scan[s].max, scan[s].read, g)
    BY Zenon DEF PatternInv, Building, CoversAll
  <2>2. scan[s].max \in Int
    BY <1>5 DEF ScanStates
  <2>3. QED
    <3> DEFINE m == scan[s].max
               r == scan[s].read
    <3>1. m \in Int /\ m <= now /\ (g \in Present => CoversAll(m, r, g)) /\ m' = m /\ r' = r
      BY <1>2, <1>5, <2>1, <2>2, Zenon
    <3> HIDE DEF m, r
    <3>2. CoversAll(m, r, g)'
      BY <1>7, <3>1, Zenon
    <3> QED  BY <3>2, Zenon DEF m, r
<1>9. CacheCovers'
  <2> DEFINE m == cache.built
             r == cache.read
  <2> SUFFICES ASSUME m >= 0, NEW g \in Present' PROVE CoversAll(m, r, g)'
    BY <1>2, Zenon DEF CacheCovers, CoversAll
  <2>1. m \in Int /\ m <= now /\ (g \in Present => CoversAll(m, r, g)) /\ m' = m /\ r' = r
    BY <1>2, Zenon DEF PatternInv, CacheCovers, CoversAll
  <2> HIDE DEF m, r
  <2> QED  BY <1>7, <2>1, Zenon
<1>10. PatternsFresh'
  BY <1>2, Zenon DEF PatternInv, PatternsFresh
<1> QED  BY <1>3, <1>6, <1>8, <1>9, <1>10, Zenon DEF PatternInv

(* A file removed: nobody expects it any more.                             *)
LEMMA RemoveStep ==
  ASSUME PatternInv, NEW f \in Files, DeletePatternFile(f)
  PROVE  PatternInv'
<1>1. /\ disk' \in [Files -> Body \cup {NoPatterns}] /\ mtime' \in [Files -> Nat]
      /\ changed' \in [Files -> Nat] /\ now' = now + 1 /\ now \in Nat /\ now' <= MaxChanges
      /\ changed'[f] = now + 1 /\ mtime'[f] = 0 /\ disk'[f] = NoPatterns /\ cache' = cache
      /\ \A g \in Files \ {f} : /\ disk'[g] = disk[g] /\ mtime'[g] = mtime[g]
                                /\ changed'[g] = changed[g]
  BY PatternAssumption DEF PatternInv, PatternShape, DeletePatternFile
<1>2. ASSUME NEW s \in Scans
      PROVE  /\ scan[s] \in ScanStates /\ scan'[s] \in ScanStates
             /\ scan'[s].listed = scan[s].listed \ {f}
             /\ scan'[s].at = scan[s].at /\ scan'[s].max = scan[s].max
             /\ scan'[s].from = scan[s].from /\ scan'[s].todo = scan[s].todo
             /\ scan'[s].read = scan[s].read
  <2>1. scan[s] \in ScanStates
    BY Zenon DEF PatternInv, PatternShape
  <2>2. scan'[s] = [scan[s] EXCEPT !.listed = @ \ {f}]
    BY Zenon DEF DeletePatternFile
  <2> QED  BY <2>1, <2>2, Zenon DEF ScanStates
<1>3. PatternShape'
  <2>1. scan' \in [Scans -> ScanStates]
    BY <1>2, Zenon DEF DeletePatternFile
  <2> QED  BY <1>1, <2>1 DEF PatternInv, PatternShape
<1>4. Present' = Present \ {f} /\ Present \subseteq Files
  BY <1>1, Zenon DEF Present
<1>5. ASSUME NEW s \in Scans PROVE ScanShape(s)'
  <2>1. ScanShape(s)
    BY Zenon DEF PatternInv
  <2>2. \A g \in Files : scan[s].from[g] <= changed'[g]
    <3> SUFFICES ASSUME NEW g \in Files PROVE scan[s].from[g] <= changed'[g]
      BY Zenon
    <3>1. scan[s].from[g] \in Nat /\ changed[g] \in Nat /\ changed[g] <= now /\ scan[s].from[g] <= changed[g]
      BY <1>2, <2>1 DEF ScanStates, PatternInv, PatternShape, ScanShape
    <3> QED  BY <1>1, <3>1
  <2>3. scan[s].max <= now'
    BY <1>1, <1>2, <2>1 DEF ScanStates, ScanShape
  <2> QED  BY <1>2, <1>4, <2>1, <2>2, <2>3, Zenon DEF ScanShape
<1>6. ASSUME NEW s \in Scans PROVE Building(s)'
  <2> SUFFICES ASSUME scan[s].at \in Listing, NEW g \in Present \ {f}, g \notin scan[s].todo
               PROVE  /\ Covers(scan[s].max, scan[s].read, g, changed[g])
                      /\ \A t \in Scans : g \in scan[t].listed =>
                           Covers(scan[s].max, scan[s].read, g, scan[t].from[g])
    BY <1>1, <1>2, <1>4 DEF Building, Covers
  <2> QED  BY Zenon DEF PatternInv, Building
<1>7. CacheCovers'
  <2> SUFFICES ASSUME cache.built >= 0, NEW g \in Present \ {f}
               PROVE  /\ Covers(cache.built, cache.read, g, changed[g])
                      /\ \A t \in Scans : g \in scan[t].listed =>
                           Covers(cache.built, cache.read, g, scan[t].from[g])
    BY <1>1, <1>2, <1>4 DEF CacheCovers, Covers
  <2> QED  BY Zenon DEF PatternInv, CacheCovers
<1>8. PatternsFresh'
  BY <1>2, Zenon DEF PatternInv, PatternsFresh
<1> QED  BY <1>3, <1>5, <1>6, <1>7, <1>8, Zenon DEF PatternInv

-----------------------------------------------------------------------------
(* An edit: what it loaded, and what it is going to write.                 *)
Edits ==
  [at : {"idle", "truncate", "write"}, file : Files \cup {NoPatterns},
   name : Names \cup {NoPatterns}, loaded : Body \cup {NoPatterns}, body : Body]

EditOK(e) ==
  editor[e].at # "idle" =>
    /\ editor[e].file \in Files
    /\ editor[e].name \in Names =>
         \A n \in Names \ {editor[e].name} : editor[e].body[n] = editor[e].loaded[n]

EditInv == editor \in [Editors -> Edits] /\ \A e \in Editors : EditOK(e)

(* A file with no patterns, and a handler with no request.                 *)
LEMMA BlankBody == Blank \in Body /\ NoEdit \in Edits /\ NoEdit.at = "idle"
BY Zenon DEF Blank, Body, NoEdit, Edits

(* One edit changes.                                                       *)
LEMMA OneEdit ==
  ASSUME EditInv, NEW e \in Editors, NEW c \in Edits, editor' = [editor EXCEPT ![e] = c],
         c.at # "idle" =>
           /\ c.file \in Files
           /\ c.name \in Names => \A n \in Names \ {c.name} : c.body[n] = c.loaded[n]
  PROVE  EditInv'
<1>1. /\ editor' \in [Editors -> Edits] /\ editor'[e] = c
      /\ \A d \in Editors \ {e} : editor'[d] = editor[d]
  BY Zenon DEF EditInv
<1>2. ASSUME NEW d \in Editors PROVE EditOK(d)'
  <2>1. CASE d = e
    BY <1>1, <2>1, Zenon DEF EditOK
  <2>2. CASE d # e
    BY <1>1, <2>2 DEF EditOK, EditInv
  <2> QED  BY <2>1, <2>2, Zenon
<1> QED  BY <1>1, <1>2, Zenon DEF EditInv

(* A handler loads the file it is going to edit.                           *)
LEMMA BeginEditStep ==
  ASSUME EditInv, PatternInv, NEW e \in Editors, NEW f \in Files, NEW n \in Names \cup {NoPatterns},
         NEW body \in Body, Begin(e, f, n, body),
         n \in Names => \A k \in Names \ {n} : body[k] = disk[f][k]
  PROVE  EditInv' /\ PatternInv'
<1> DEFINE c == [at |-> "truncate", file |-> f, name |-> n, loaded |-> disk[f], body |-> body]
<1>1. /\ c \in Edits /\ c.file = f /\ c.name = n /\ c.loaded = disk[f] /\ c.body = body
      /\ editor' = [editor EXCEPT ![e] = c]
  BY Zenon DEF Edits, Begin, PatternInv, PatternShape
<1>2. EditInv'
  <2> HIDE DEF c
  <2> QED  BY <1>1, OneEdit, Zenon
<1>3. UNCHANGED <<disk, mtime, changed, now, scan, cache>>
  BY Zenon DEF Begin
<1>4. PatternInv'
  BY <1>3 DEF PatternInv, PatternShape, ScanShape, Building, CacheCovers, Covers, Present, PatternsFresh
<1> QED  BY <1>2, <1>4, Zenon

(* The edits of one pattern leave the others as they were loaded           *)
(* (AddPatternToFile, UpdatePatternInFile, DeletePatternFromFile,          *)
(* EnableDisablePattern).                                                  *)
LEMMA EditedBody ==
  ASSUME NEW body \in Body, NEW n \in Names, NEW to \in {"on", "off"},
         NEW r \in {AddPatternToFile(body, n, to), UpdatePatternInFile(body, n, to),
                    DeletePatternFromFile(body, n), EnableDisablePattern(body, n, to)},
         r # NoPatterns
  PROVE  r \in Body /\ \A k \in Names \ {n} : r[k] = body[k]
BY Zenon DEF Body, AddPatternToFile, UpdatePatternInFile, DeletePatternFromFile, EnableDisablePattern

(* Every step of the handlers that edit patterns keeps both invariants.    *)
LEMMA EditPatternStep ==
  ASSUME EditInv, PatternInv, NEW e \in Editors, PatternEdit(e)
  PROVE  EditInv' /\ PatternInv'
<1>1. ASSUME NEW f \in Files, NEW n \in Names, NEW to \in {"on", "off"},
             PutPattern(e, f, n, to) \/ PatchPattern(e, f, n, to)
             \/ DeletePattern(e, f, n) \/ EnablePattern(e, f, n, to)
      PROVE  EditInv' /\ PatternInv'
  <2>0. PICK body \in Load(f) :
          \E r \in {AddPatternToFile(body, n, to), UpdatePatternInFile(body, n, to),
                    DeletePatternFromFile(body, n), EnableDisablePattern(body, n, to)} :
            Begin(e, f, n, r)
    BY <1>1, Zenon DEF PutPattern, PatchPattern, DeletePattern, EnablePattern
  <2>1. PICK r \in {AddPatternToFile(body, n, to), UpdatePatternInFile(body, n, to),
                    DeletePatternFromFile(body, n), EnableDisablePattern(body, n, to)} :
          Begin(e, f, n, r)
    BY <2>0, Zenon
  <2>2. body = disk[f] /\ body \in Body
    BY DEF Load, PatternInv, PatternShape
  <2>3. r # NoPatterns
    BY <2>1, Zenon DEF Begin
  <2>4. r \in Body /\ \A k \in Names \ {n} : r[k] = body[k]
    BY <2>1, <2>2, <2>3, EditedBody
  <2> QED  BY <2>1, <2>2, <2>4, BeginEditStep, Zenon
<1>2. ASSUME NEW f \in Files, NEW n \in Names,
             \/ CreatePatternFile(e, f, [Blank EXCEPT ![n] = "on"])
             \/ UpdatePatternFile(e, f, [Blank EXCEPT ![n] = "on"])
      PROVE  EditInv' /\ PatternInv'
  <2>1. [Blank EXCEPT ![n] = "on"] \in Body
    BY Zenon DEF Blank, Body
  <2>2. Begin(e, f, NoPatterns, [Blank EXCEPT ![n] = "on"])
    BY <1>2, Zenon DEF CreatePatternFile, UpdatePatternFile
  <2> QED  BY <2>1, <2>2, BeginEditStep, PatternAssumption, Zenon
<1>3. CASE SavePatternsToFile(e)
  <2>1. editor[e] \in Edits /\ EditOK(e) /\ UNCHANGED <<scan, cache>>
    BY <1>3, Zenon DEF EditInv, SavePatternsToFile
  <2>2. CASE editor[e].at = "truncate" /\ Touch(editor[e].file, Blank)
             /\ editor' = [editor EXCEPT ![e].at = "write"]
    <3> DEFINE c == [editor[e] EXCEPT !.at = "write"]
    <3>1. /\ c \in Edits /\ c.file = editor[e].file /\ c.name = editor[e].name
          /\ c.body = editor[e].body /\ c.loaded = editor[e].loaded
          /\ editor' = [editor EXCEPT ![e] = c]
      BY <2>1, <2>2, Zenon DEF Edits
    <3>2. PatternInv'
      BY <2>1, <2>2, BlankBody, WriteStep, Zenon DEF EditOK
    <3>3. EditInv'
      <4> HIDE DEF c
      <4> QED  BY <2>1, <2>2, <3>1, OneEdit, Zenon DEF EditOK
    <3> QED  BY <3>2, <3>3, Zenon
  <2>3. CASE editor[e].at = "write" /\ Touch(editor[e].file, editor[e].body)
             /\ editor' = [editor EXCEPT ![e] = NoEdit]
    <3>1. editor[e].file \in Files /\ editor[e].body \in Body
      BY <2>1, <2>3, Zenon DEF EditOK, Edits
    <3>2. PatternInv'
      BY <2>1, <2>3, <3>1, WriteStep, Zenon
    <3> QED  BY <2>3, <3>2, BlankBody, OneEdit, Zenon
  <2>4. CASE editor' = [editor EXCEPT ![e] = NoEdit] /\ UNCHANGED <<disk, mtime, changed, now>>
    <3>1. PatternInv'
      BY <2>1, <2>4 DEF PatternInv, PatternShape, ScanShape, Building, CacheCovers, Covers, Present, PatternsFresh
    <3> QED  BY <2>4, <3>1, BlankBody, OneEdit, Zenon
  <2> QED  BY <1>3, <2>2, <2>3, <2>4, Zenon DEF SavePatternsToFile
<1> QED  BY <1>1, <1>2, <1>3, Zenon DEF PatternEdit

(* No scan, no edit and an empty cache.                                    *)
LEMMA PatternStart == PatternInit => EditInv /\ PatternInv
<1> SUFFICES ASSUME PatternInit PROVE EditInv /\ PatternInv
  BY Zenon
<1>1. EditInv
  BY BlankBody, Zenon DEF PatternInit, EditInv, EditOK
<1>2. \A s \in Scans : scan[s] = NoScan
  BY Zenon DEF PatternInit
<1>3. PatternShape
  <2>1. [n \in Names |-> "on"] \in Body
    BY Zenon DEF Body
  <2>2. cache \in [built : Int, read : [Files -> Nat]] /\ cache.built = -1
    BY DEF PatternInit, NoCache
  <2> QED  BY <2>1, <2>2, NoScanState, PatternAssumption DEF PatternInit, PatternShape
<1>4. cache.built < 0
  BY DEF PatternInit, NoCache
<1>5. \A s \in Scans : ScanShape(s) /\ Building(s)
  BY <1>2 DEF PatternInit, NoScan, ScanShape, Building, Listing
<1>6. CacheCovers /\ PatternsFresh
  BY <1>2, <1>3, <1>4 DEF CacheCovers, PatternsFresh, NoScan, PatternShape
<1> QED  BY <1>1, <1>3, <1>5, <1>6, Zenon DEF PatternInv

(* Every step of a scan, of a handler or of another program that removes a *)
(* file keeps both invariants.                                             *)
LEMMA PatternStep == EditInv /\ PatternInv /\ [PatternNext]_patternVars => EditInv' /\ PatternInv'
<1> SUFFICES ASSUME EditInv, PatternInv, [PatternNext]_patternVars PROVE EditInv' /\ PatternInv'
  BY Zenon
<1>1. ASSUME NEW e \in Editors, PatternEdit(e) PROVE EditInv' /\ PatternInv'
  BY <1>1, EditPatternStep, Zenon
<1>2. ASSUME UNCHANGED editor PROVE EditInv'
  BY <1>2, Zenon DEF EditInv, EditOK
<1>3. ASSUME NEW s \in Scans, GetPatternCache(s) PROVE EditInv' /\ PatternInv'
  <2>1. UNCHANGED editor
    BY <1>3, Zenon DEF GetPatternCache, ListPatterns, LookUp, LockCache, ReadPatternFile, PublishCache, EndScan
  <2> QED
    BY <1>2, <1>3, <2>1, ListPatternsStep, LookStep, ReadFileStep, PublishStep, EndScanStep, Zenon DEF GetPatternCache
<1>4. ASSUME NEW f \in Files, DeletePatternFile(f) PROVE EditInv' /\ PatternInv'
  BY <1>2, <1>4, RemoveStep, Zenon DEF DeletePatternFile
<1>5. CASE UNCHANGED patternVars
  <2>1. PatternInv'
    BY <1>5 DEF patternVars, PatternInv, PatternShape, ScanShape, Building, CacheCovers, Covers, Present, PatternsFresh
  <2> QED  BY <1>2, <1>5, <2>1, Zenon DEF patternVars
<1> QED  BY <1>1, <1>3, <1>4, <1>5, Zenon DEF PatternNext

(* A save writes the loaded patterns back, the edited one excepted.        *)
LEMMA SaveKeeps ==
  ASSUME EditInv, PatternInv, [PatternNext]_patternVars, NEW e \in Editors,
         editor[e].at = "write", editor'[e].at = "idle", disk' # disk,
         editor[e].name \in Names, NEW n \in Names \ {editor[e].name}
  PROVE  disk'[editor[e].file][n] = editor[e].loaded[n]
<1>1. editor[e] \in Edits /\ EditOK(e) /\ disk \in [Files -> Body \cup {NoPatterns}]
      /\ editor \in [Editors -> Edits]
  BY Zenon DEF EditInv, PatternInv, PatternShape
<1>2. editor' # editor
  BY Zenon
<1>3. PICK d \in Editors : PatternEdit(d)
  BY <1>2, Zenon DEF PatternNext, patternVars, DeletePatternFile, GetPatternCache, ListPatterns, LookUp,
              LockCache, ReadPatternFile, PublishCache, EndScan
<1>4. SavePatternsToFile(d)
  <2>1. (\E f, m, body : Begin(d, f, m, body)) \/ SavePatternsToFile(d)
    BY <1>3, Zenon DEF PatternEdit, PutPattern, PatchPattern, DeletePattern, EnablePattern,
                CreatePatternFile, UpdatePatternFile
  <2>2. ~\E f, m, body : Begin(d, f, m, body)
    BY Zenon DEF Begin
  <2> QED  BY <2>1, <2>2, Zenon
<1>5. d = e
  BY <1>1, <1>4, Zenon DEF SavePatternsToFile, Edits
<1>6. Touch(editor[e].file, editor[e].body)
  BY <1>4, <1>5, Zenon DEF SavePatternsToFile
<1> QED  BY <1>1, <1>6, Zenon DEF Touch, EditOK

(* The invariants of the scans and of the editors hold, for any files,     *)
(* patterns, scans and editors.                                            *)
LEMMA PatternInvariant == PatternSpec => [](EditInv /\ PatternInv)
BY PatternStart, PatternStep, PTL DEF PatternSpec

(* A scan matches with every file it listed as the file was then or later, *)
(* unless somebody removed it meanwhile: neither the shared cache nor a    *)
(* build that races an edit serves an older pattern (GetPatternCache,      *)
(* buildPatternCache).                                                     *)
THEOREM PatternsAreCurrent == PatternSpec => []PatternsFresh
<1>1. PatternInv => PatternsFresh
  BY DEF PatternInv
<1> QED  BY <1>1, PatternInvariant, PTL

(* A handler that edits one pattern writes every other one back as it      *)
(* loaded it (AddPatternToFile, UpdatePatternInFile,                       *)
(* DeletePatternFromFile, EnableDisablePattern, SavePatternsToFile).       *)
THEOREM EditsKeepOthers == PatternSpec => PatternsKept
<1>1. EditInv /\ PatternInv /\ [PatternNext]_patternVars =>
        [\A e \in Editors :
           editor[e].at = "write" /\ editor'[e].at = "idle" /\ disk' # disk =>
             \A n \in Names \ {editor[e].name} :
               /\ editor[e].name \in Names /\ editor[e].loaded # NoPatterns
               /\ editor[e].loaded[n] # "none"
               => disk'[editor[e].file][n] = editor[e].loaded[n]]_patternVars
  BY SaveKeeps, Zenon
<1> QED  BY <1>1, PatternInvariant, PTL DEF PatternSpec, PatternsKept
=============================================================================
