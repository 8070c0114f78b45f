---------------------------- MODULE MCArchiveExport ----------------------------
(***************************************************************************)
(* Model checking of ArchiveExport: one export, of a store that was made,  *)
(* beside its writer and its editor; nothing is followed after it ends.    *)
(***************************************************************************)
EXTENDS ArchiveExport, TLC

Symmetry == Permutations(Requests)

\* Bounds: the export begins on the store that genesis left; the commit beside
\* it is one with a blob or a private post, the edit one of the queue, made while
\* no command holds the lock; nothing is followed after the outcome.
MCNext ==
  /\ outcome = "none"
  /\ head = 0 \/ phase = "finish" => ExportStoreStep
  /\ ExportNext
  /\ tries = 0 => edits' = 0 /\ head' <= 1 /\ Cardinality(Linked') <= 1
  /\ cmd' # NoCommand => cmd'.op \in {"INIT", "CREATE", "PAUSE"}
  /\ file'["policy"] \notin EditBytes \cup {NoFile} /\ \A t \in Tickets : file'[t] \notin EditBytes
  /\ edits' # edits => cmd = NoCommand
MCSpec == ExportInit /\ [][MCNext]_exportVars
=============================================================================
