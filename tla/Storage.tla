------------------------------ MODULE Storage -------------------------------
(***************************************************************************)
(* What an artifact store promises its callers (the Storage interface of   *)
(* morf/storage/storage.go): a key holds nothing or one whole body, a Put  *)
(* changes it in one step to the body it was given, a Delete to nothing.   *)
(* LocalStore implements it.                                               *)
(***************************************************************************)
CONSTANTS Keys, Bodies, Absent

VARIABLE stored

StorageInit == stored = [k \in Keys |-> Absent]

PutBody(k, b) == stored' = [stored EXCEPT ![k] = b]
DeleteKey(k)  == stored' = [stored EXCEPT ![k] = Absent]

StorageNext == \E k \in Keys : DeleteKey(k) \/ \E b \in Bodies : PutBody(k, b)

StorageSpec == StorageInit /\ [][StorageNext]_stored
=============================================================================
