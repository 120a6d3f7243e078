-------------------------- MODULE MCTestSuiteRuns --------------------------
(* Values for TestSuiteRuns: two jobs that captured different amounts. *)
EXTENDS TestSuiteRuns, TLC

CONSTANTS s1, s2, s3, j1, j2, j3

MCCaptured == [j \in Jobs |-> IF j = j1 THEN 2 ELSE 1]

HandlersAlike == Permutations(Handlers)
=============================================================================
