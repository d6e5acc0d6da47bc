------------------------------ MODULE MCJobQueue ------------------------------
(***************************************************************************)
(* Small instances of JobQueue for TLC.                                    *)
(***************************************************************************)
EXTENDS JobQueue, TLC

CONSTANTS j1, j2, d1, d2, t1, t2, t3, t4

\* One attempt for j1 (as when opts.attempts is not set), two for the others.
MixedAttempts == [j \in Job |-> IF j = j1 THEN 0 ELSE 2]

TokenDispatcherSymmetry == Permutations(Token) \cup Permutations(Dispatcher)

=============================================================================
