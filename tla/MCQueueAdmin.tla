----------------------------- MODULE MCQueueAdmin -----------------------------
(* Instances of QueueAdmin.                                                    *)
EXTENDS QueueAdmin, TLC

CONSTANTS u1, u2, p1, s1, w1, w2

\* The priority job is not kept, the others push out their elders.
KeepFew == [j \in Job |-> IF j = u1 THEN 0 ELSE 1]

\* Only u2 is added again after it was removed.
SecondTwice == [j \in Job |-> IF j = u2 THEN 2 ELSE 1]

TwoParked == <<p1, u2>>
NoneParked == <<>>

WorkerSymmetry == Permutations({w1, w2})

=============================================================================
