------------------------------- MODULE JobLists -------------------------------
(***************************************************************************)
(* The lists of job ids that JobQueue, QueueAdmin and Observers keep: the  *)
(* LISTs of Redis, head first, and the ZSETs of finished jobs, oldest     *)
(* first.                                                                  *)
(***************************************************************************)
EXTENDS Integers, Sequences, FiniteSets, Functions

CONSTANT Job   \* job ids

ASSUME JobsFinite == IsFiniteSet(Job)

\* The ways to push the jobs of S one after the other.
Orders(S) == Bijection(1..Cardinality(S), S)

\* LREM and ZREM of one id: no list has an id twice.
Without(list, j) ==
  LET i == CHOOSE i \in DOMAIN list : list[i] = j
  IN  IF j \in Range(list) THEN SubSeq(list, 1, i - 1) \o SubSeq(list, i + 1, Len(list))
      ELSE list

=============================================================================
