------------------------------ MODULE Patterns ------------------------------
(***************************************************************************)
(* The secret patterns: the files the API edits (morf/utils/pattern.go and *)
(* the /patterns handlers of morf/router/routers.go) and the compiled      *)
(* cache every scan takes from them (GetPatternCache of                    *)
(* morf/detect/detect.go).  Nothing locks the files: an edit loads, then   *)
(* truncates, then writes, and scans read in between.  One platform's      *)
(* cache; a file is the set of its patterns, each on or off.  The version  *)
(* bump that ends every save is IncrVersion of ResultCache.                *)
(***************************************************************************)
EXTENDS Integers, FiniteSetsExt

CONSTANTS Files, Names,
          Editors,       \* edit requests in flight at a time
          Scans,         \* GetPatternCache calls in flight at a time
          MaxChanges,    \* changes of the directory, at most
          NoPatterns     \* a file that does not exist

ASSUME PatternAssumption ==
  /\ Files # {} /\ MaxChanges \in Nat
  /\ NoPatterns \notin Names \cup [Names -> {"none", "on", "off"}]

VARIABLES disk,      \* what each file holds
          mtime,     \* its modification time; every write has its own
          changed,   \* when it last changed, removal included
          now,       \* the latest modification time
          editor, scan,
          cache      \* caches[platform]: BuiltFrom, and each file as it was read

patternVars == <<disk, mtime, changed, now, editor, scan, cache>>

Body    == [Names -> {"none", "on", "off"}]
Blank   == [n \in Names |-> "none"]
NoEdit  == [at |-> "idle", file |-> NoPatterns, name |-> NoPatterns,
            loaded |-> Blank, body |-> Blank]
NoScan  == [at |-> "idle", from |-> [f \in Files |-> 0], max |-> 0, todo |-> {}, listed |-> {},
            read |-> [f \in Files |-> 0], any |-> FALSE]
NoCache == [built |-> -1, read |-> [f \in Files |-> 0]]

PatternTypeOK ==
  /\ disk \in [Files -> Body \cup {NoPatterns}]
  /\ mtime \in [Files -> 0..MaxChanges] /\ changed \in [Files -> 0..MaxChanges]
  /\ now \in 0..MaxChanges
  /\ \A e \in Editors : editor[e].at \in {"idle", "truncate", "write"}
  /\ \A s \in Scans : scan[s].at \in {"idle", "look", "lock", "build", "done", "failed"}
  /\ cache.built \in -1..MaxChanges

PatternInit ==
  /\ disk = [f \in Files |-> [n \in Names |-> "on"]]
  /\ mtime = [f \in Files |-> 0] /\ changed = [f \in Files |-> 0] /\ now = 0
  /\ editor = [e \in Editors |-> NoEdit]
  /\ scan = [s \in Scans |-> NoScan]
  /\ cache = NoCache

-----------------------------------------------------------------------------
(* What an edit of one pattern makes of the loaded patterns; NoPatterns is *)
(* a refusal.  A replaced pattern brings its own Enabled.                  *)
AddPatternToFile(body, n, to) ==
  IF body[n] # "none" THEN NoPatterns ELSE [body EXCEPT ![n] = to]

UpdatePatternInFile(body, n, to) ==
  IF body[n] = "none" THEN NoPatterns ELSE [body EXCEPT ![n] = to]

DeletePatternFromFile(body, n) ==
  IF body[n] = "none" THEN NoPatterns ELSE [body EXCEPT ![n] = "none"]

EnableDisablePattern(body, n, to) ==
  IF body[n] = "none" THEN NoPatterns ELSE [body EXCEPT ![n] = to]

(* Mutant: a file that cannot be read counts as an empty one. *)
LoadLenient(f) == {disk[f], Blank} \ {NoPatterns}

(* LoadPatternsFromFile: what a load may return.  A read that fails        *)
(* returns nothing, and the request is refused.                            *)
Load(f) == {disk[f]} \ {NoPatterns}

(* An edit up to the save: refused, or about to write the whole file. *)
Begin(e, f, n, body) ==
  /\ editor[e].at = "idle" /\ body # NoPatterns
  /\ editor' = [editor EXCEPT ![e] = [at |-> "truncate", file |-> f, name |-> n,
                                      loaded |-> disk[f], body |-> body]]
  /\ UNCHANGED <<disk, mtime, changed, now, scan, cache>>

(* The handlers of /patterns/:filename/patterns. *)
PutPattern(e, f, n, to) == \E body \in Load(f) : Begin(e, f, n, AddPatternToFile(body, n, to))
PatchPattern(e, f, n, to) ==
  \E body \in Load(f) : Begin(e, f, n, UpdatePatternInFile(body, n, to))
DeletePattern(e, f, n) == \E body \in Load(f) : Begin(e, f, n, DeletePatternFromFile(body, n))
EnablePattern(e, f, n, to) ==
  \E body \in Load(f) : Begin(e, f, n, EnableDisablePattern(body, n, to))

(* POST /patterns refuses a file that exists, POST /patterns/:filename     *)
(* does not care; both bring the whole content.                            *)
CreatePatternFile(e, f, body) == disk[f] = NoPatterns /\ Begin(e, f, NoPatterns, body)
UpdatePatternFile(e, f, body) == Begin(e, f, NoPatterns, body)

Touch(f, body) ==
  /\ now < MaxChanges /\ now' = now + 1
  /\ disk' = [disk EXCEPT ![f] = body]
  /\ mtime' = [mtime EXCEPT ![f] = now + 1]
  /\ changed' = [changed EXCEPT ![f] = now + 1]

(* WriteFile opens with O_TRUNC, then writes: two changes of the file.     *)
(* The process may die between them, and the write may fail.               *)
SavePatternsToFile(e) ==
  /\ \/ /\ editor[e].at = "truncate" /\ Touch(editor[e].file, Blank)
        /\ editor' = [editor EXCEPT ![e].at = "write"]
     \/ /\ editor[e].at = "write" /\ Touch(editor[e].file, editor[e].body)
        /\ editor' = [editor EXCEPT ![e] = NoEdit]
     \/ /\ editor[e].at \in {"truncate", "write"}
        /\ editor' = [editor EXCEPT ![e] = NoEdit]
        /\ UNCHANGED <<disk, mtime, changed, now>>
  /\ UNCHANGED <<scan, cache>>

(* DeletePatternFile: the modification times of the others say nothing.    *)
(* What a scan listed and still expects no longer includes the file; what  *)
(* it is going to read does.                                               *)
DeletePatternFile(f) ==
  /\ disk[f] # NoPatterns /\ now < MaxChanges
  /\ disk' = [disk EXCEPT ![f] = NoPatterns]
  /\ mtime' = [mtime EXCEPT ![f] = 0]
  /\ changed' = [changed EXCEPT ![f] = now + 1]
  /\ now' = now + 1
  /\ scan' = [s \in Scans |-> [scan[s] EXCEPT !.listed = @ \ {f}]]
  /\ UNCHANGED <<editor, cache>>

-----------------------------------------------------------------------------
(* GetPatternCache: the listing, before any lock. *)
ListPatterns(s) ==
  /\ scan[s].at = "idle"
  /\ scan' = [scan EXCEPT ![s] =
       [NoScan EXCEPT !.at = "look", !.from = changed,
                      !.todo = {f \in Files : disk[f] # NoPatterns},
                      !.listed = {f \in Files : disk[f] # NoPatterns},
                      !.max = Max({mtime[f] : f \in Files})]]
  /\ UNCHANGED <<disk, mtime, changed, now, editor, cache>>

(* An entry at least as new as the listing. *)
FreshFor(s) == cache.built >= 0 /\ ~(scan[s].max > cache.built)

(* The call returns with a snapshot, or with none. *)
Returns(s, how, read) ==
  scan' = [scan EXCEPT ![s] = [NoScan EXCEPT !.at = how, !.from = scan[s].from,
                                             !.listed = scan[s].listed, !.read = read]]
Take(s) == Returns(s, "done", cache.read)

(* The fast path, under the read lock. *)
LookUp(s) ==
  /\ scan[s].at = "look" /\ \A t \in Scans : scan[t].at # "build"
  /\ IF FreshFor(s) THEN Take(s) ELSE scan' = [scan EXCEPT ![s].at = "lock"]
  /\ UNCHANGED <<disk, mtime, changed, now, editor, cache>>

(* The write lock, and the second look. *)
LockCache(s) ==
  /\ scan[s].at = "lock" /\ \A t \in Scans : scan[t].at # "build"
  /\ IF FreshFor(s) THEN Take(s) ELSE scan' = [scan EXCEPT ![s].at = "build"]
  /\ UNCHANGED <<disk, mtime, changed, now, editor, cache>>

Enabled(f) == disk[f] # NoPatterns /\ \E n \in Names : disk[f][n] = "on"

(* buildPatternCache reads the files it was given one by one; a file that  *)
(* is gone by now reads as an empty one.                                   *)
ReadPatternFile(s, f) ==
  /\ scan[s].at = "build" /\ f \in scan[s].todo
  /\ scan' = [scan EXCEPT ![s].todo = @ \ {f}, ![s].read[f] = changed[f],
                          ![s].any = @ \/ Enabled(f)]
  /\ UNCHANGED <<disk, mtime, changed, now, editor, cache>>

(* Mutant: the snapshot is stamped with the time it was finished. *)
StampLate(s) == now

(* BuiltFrom is the newest time of the listing, taken before the reads. *)
Stamp(s) == scan[s].max

(* No enabled pattern at all is an error, and nothing is cached. *)
PublishCache(s) ==
  /\ scan[s].at = "build" /\ scan[s].todo = {}
  /\ IF scan[s].any
     THEN /\ cache' = [built |-> Stamp(s), read |-> scan[s].read]
          /\ Returns(s, "done", scan[s].read)
     ELSE Returns(s, "failed", NoScan.read) /\ UNCHANGED cache
  /\ UNCHANGED <<disk, mtime, changed, now, editor>>

EndScan(s) == /\ scan[s].at \in {"done", "failed"}
              /\ scan' = [scan EXCEPT ![s] = NoScan]
              /\ UNCHANGED <<disk, mtime, changed, now, editor, cache>>

PatternEdit(e) ==
  \/ \E f \in Files, n \in Names, to \in {"on", "off"} :
       \/ PutPattern(e, f, n, to) \/ PatchPattern(e, f, n, to)
       \/ DeletePattern(e, f, n) \/ EnablePattern(e, f, n, to)
  \/ \E f \in Files, n \in Names : \/ CreatePatternFile(e, f, [Blank EXCEPT ![n] = "on"])
                                  \/ UpdatePatternFile(e, f, [Blank EXCEPT ![n] = "on"])
  \/ SavePatternsToFile(e)

GetPatternCache(s) ==
  \/ ListPatterns(s) \/ LookUp(s) \/ LockCache(s)
  \/ (\E f \in Files : ReadPatternFile(s, f))
  \/ PublishCache(s) \/ EndScan(s)

PatternNext ==
  \/ \E e \in Editors : PatternEdit(e)
  \/ \E s \in Scans : GetPatternCache(s)
  \/ \E f \in Files : DeletePatternFile(f)

PatternSpec == PatternInit /\ [][PatternNext]_patternVars

-----------------------------------------------------------------------------
(* A scan works with every save that was finished when it began: the       *)
(* snapshot it gets read each file the scan listed, and nobody removed     *)
(* meanwhile, no earlier than the file's last change at the listing,       *)
(* whoever built it (GetPatternCache).  A file that was removed may still  *)
(* be in it: removal raises no time.                                       *)
PatternsFresh ==
  \A s \in Scans : scan[s].at = "done" =>
    \A f \in scan[s].listed : scan[s].read[f] >= scan[s].from[f]

(* A save keeps every pattern the file held when its edit began, the one   *)
(* it is about excepted; a file that could not be read is never written    *)
(* back empty (the comment of LoadPatternsFromFile).                       *)
PatternsKept ==
  [][\A e \in Editors :
       editor[e].at = "write" /\ editor'[e].at = "idle" /\ disk' # disk =>
         \A n \in Names \ {editor[e].name} :
           /\ editor[e].name \in Names /\ editor[e].loaded # NoPatterns
           /\ editor[e].loaded[n] # "none"
           => disk'[editor[e].file][n] = editor[e].loaded[n]]_patternVars
=============================================================================
