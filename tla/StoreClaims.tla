-------------------------------- MODULE StoreClaims --------------------------------
(***************************************************************************)
(* What the specification and the comments of the repository say of the    *)
(* store, where the code does something else.  Each property quotes its    *)
(* statement; the run that checks it finds a behaviour of FixtureStore in  *)
(* which it does not hold.                                                 *)
(***************************************************************************)
EXTENDS FixtureStore

\* A slot some transaction occupied is cleared before its call returns,
\* including on a failure part-way through (docs/SPEC.md 5.7.1, and the
\* comment on occupied in applyWithFaults); the holder is not killed here.
SlotsClearedOnReturn == phase = "idle" => slots = 0

\* "a crash can leave a committed receipt with unwritten projections (which
\* redo completes)" (comment on apply; crash matrix C2, C3 and C4): once a
\* holder died, the next mutating command may still redo the pending receipt.
CrashIsRedoable == IdleIsRedoable

\* "or the path is absent and pre is null -> write the post bytes. Any third
\* value [...] skip that file" (docs/SPEC.md 5.2, crash matrix C3): a
\* projection a human deleted is not brought back by the holder.
DeletionNotUndone ==
  [][\A p \in IntentPath : edits' = edits /\ file[p] = NoFile /\ file'[p] # NoFile =>
        plan.pre[p] = NoFile]_vars

\* Operators also keep answering divergences with `reconcile intent`.
ReconcilingSpec ==
  /\ FairSpec
  /\ SF_vars(\E c \in Invocations : Reconcile(c) /\ Begin(c))

\* "the receipt stays committed and the projection waits for `reconcile
\* intent`" (comment on settled, docs/SPEC.md 5.2): a pending receipt whose
\* projection a human changed is settled after a reconciliation.
DivergedReceiptSettles == (Pending /\ ~NeverRedone) ~> ~Pending
=============================================================================
