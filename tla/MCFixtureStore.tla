------------------------------ MODULE MCFixtureStore ------------------------------
(***************************************************************************)
(* Model checking of FixtureStore.  Request ids are compared only for      *)
(* equality, so runs that check no liveness may treat them as symmetric.   *)
(***************************************************************************)
EXTENDS FixtureStore, TLC

Symmetry == Permutations(Requests)
=============================================================================
