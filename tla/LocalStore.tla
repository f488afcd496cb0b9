----------------------------- MODULE LocalStore -----------------------------
(***************************************************************************)
(* The local artifact store (morf/storage/local.go).  Put writes the body  *)
(* chunk by chunk to a temporary file, syncs and closes it, and renames it *)
(* over the key; a member of Calls is one Put call, and its process may    *)
(* die between any two of its system calls.  Keys are the ones sanitizeKey *)
(* accepts.                                                                *)
(***************************************************************************)
EXTENDS Integers

CONSTANTS Calls,          \* Put calls
          Keys, Bodies,
          Chunks,         \* writes it takes to copy size bytes
          Absent, Torn    \* no object; an object that is not a whole body

ASSUME LocalAssumption == /\ Chunks \in Nat \ {0}
                          /\ Absent \notin Bodies /\ Torn \notin Bodies

VARIABLES file,    \* what the key's path holds: nothing, or a body and its length
          temp,    \* how many chunks are in the call's temporary file, or -1
          put      \* the call: where it is, its key and body

localVars == <<file, temp, put>>

NoFile == [body |-> Absent, chunks |-> 0]
Idle   == [at |-> "idle", key |-> Absent, body |-> Absent]

Steps == {"idle", "copy", "sync", "close", "rename", "done", "failed", "dead"}

LocalTypeOK ==
  /\ file \in [Keys -> [body: Bodies \cup {Absent}, chunks: 0..Chunks]]
  /\ temp \in [Calls -> -1..Chunks]
  /\ put \in [Calls -> [at: Steps, key: Keys \cup {Absent}, body: Bodies \cup {Absent}]]
  /\ \A c \in Calls : put[c].at \notin {"idle", "done", "failed", "dead"} =>
                        put[c].key \in Keys /\ put[c].body \in Bodies

LocalInit ==
  /\ file = [k \in Keys |-> NoFile]
  /\ temp = [c \in Calls |-> -1]
  /\ put = [c \in Calls |-> Idle]

PutAt(c, step) == put[c].at = step
GoPut(c, step) == put' = [put EXCEPT ![c].at = step]

-----------------------------------------------------------------------------
(* The call returns an error; the deferred clean-up removes the temporary  *)
(* file.                                                                   *)
PutFails(c) == /\ GoPut(c, "failed")
               /\ temp' = [temp EXCEPT ![c] = -1]
               /\ UNCHANGED file

(* ctx.Err, resolve and MkdirAll fail before anything is written. *)
PutStart(c, k, b) ==
  /\ PutAt(c, "idle")
  /\ \/ /\ put' = [put EXCEPT ![c] = [at |-> "copy", key |-> k, body |-> b]]
        /\ temp' = [temp EXCEPT ![c] = 0]
        /\ UNCHANGED file
     \/ PutFails(c)

(* Mutant: io.Copy instead of io.CopyN takes a short body for a whole one. *)
PutCopyShort(c) ==
  /\ PutAt(c, "copy")
  /\ \/ /\ temp[c] < Chunks
        /\ temp' = [temp EXCEPT ![c] = @ + 1]
        /\ UNCHANGED <<file, put>>
     \/ GoPut(c, "sync") /\ UNCHANGED <<file, temp>>

(* io.CopyN: a reader that ends early is an error.  The upload handlers,   *)
(* the only callers, always give a size.                                   *)
PutCopy(c) ==
  /\ PutAt(c, "copy")
  /\ \/ /\ temp[c] < Chunks
        /\ temp' = [temp EXCEPT ![c] = @ + 1]
        /\ UNCHANGED <<file, put>>
     \/ temp[c] = Chunks /\ GoPut(c, "sync") /\ UNCHANGED <<file, temp>>
     \/ temp[c] < Chunks /\ PutFails(c)

PutSync(c) ==
  /\ PutAt(c, "sync")
  /\ PutFails(c) \/ (GoPut(c, "close") /\ UNCHANGED <<file, temp>>)

PutClose(c) ==
  /\ PutAt(c, "close")
  /\ PutFails(c) \/ (GoPut(c, "rename") /\ UNCHANGED <<file, temp>>)

(* The rename moves the temporary file over the key. *)
PutRename(c) ==
  /\ PutAt(c, "rename")
  /\ \/ /\ file' = [file EXCEPT ![put[c].key] = [body |-> put[c].body, chunks |-> temp[c]]]
        /\ temp' = [temp EXCEPT ![c] = -1]
        /\ GoPut(c, "done")
     \/ PutFails(c)

(* The process dies: what it wrote stays. *)
PutDies(c) ==
  /\ put[c].at \notin {"idle", "done", "failed", "dead"}
  /\ GoPut(c, "dead") /\ UNCHANGED <<file, temp>>

(* os.Remove; a missing file is no error. *)
LocalDelete(k) == /\ file' = [file EXCEPT ![k] = NoFile]
                  /\ UNCHANGED <<temp, put>>

LocalPut(c) == \/ \E k \in Keys, b \in Bodies : PutStart(c, k, b)
               \/ PutCopy(c) \/ PutSync(c) \/ PutClose(c) \/ PutRename(c)
               \/ PutDies(c)

LocalNext == (\E c \in Calls : LocalPut(c)) \/ (\E k \in Keys : LocalDelete(k))

LocalSpec == LocalInit /\ [][LocalNext]_localVars

-----------------------------------------------------------------------------
(* What Open returns for a key. *)
Contents(k) == IF file[k].body = Absent THEN Absent
               ELSE IF file[k].chunks = Chunks THEN file[k].body ELSE Torn

Store == INSTANCE Storage WITH stored <- [k \in Keys |-> Contents(k)]

(* The local store is a Storage: whichever system call fails and wherever  *)
(* the process dies, a key holds a whole body or nothing (Put).            *)
LocalIsStorage == Store!StorageSpec
=============================================================================
