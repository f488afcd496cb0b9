----------------------------- MODULE RedisList ------------------------------
(***************************************************************************)
(* A Redis list, as the queue package uses it beyond its two ends.         *)
(***************************************************************************)
EXTENDS Integers, Sequences

OnList(list, v) == \E i \in 1..Len(list) : list[i] = v

(* LREM key 1 v: the first v goes and what follows moves up; without a v,  *)
(* nothing changes.                                                        *)
LRem(list, v) ==
  IF OnList(list, v)
  THEN [i \in 1..(Len(list) - 1) |->
          IF \A h \in 1..i : list[h] # v THEN list[i] ELSE list[i + 1]]
  ELSE list

=============================================================================
