---------------------------- MODULE MCSnapshotReader ----------------------------
(***************************************************************************)
(* Model checking of SnapshotReader: a reader beside the writer and the    *)
(* editor of FixtureStore.  Request ids are compared only for equality.    *)
(***************************************************************************)
EXTENDS SnapshotReader, TLC

Symmetry == Permutations(Requests)

\* Bound: the last transaction that fits is checked without the editor only.
EditsAreEarly == edits > 0 => ~Present(MaxSeq)
MCNext == SystemNext /\ EditsAreEarly'
MCSystem == SystemInit /\ [][MCNext]_systemVars
=============================================================================
