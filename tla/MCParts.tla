--------------------------------- MODULE MCParts ---------------------------------
(***************************************************************************)
(* Model checking of three parts that share no state: release control, the *)
(* repository lock and the capacity rules.  The first state chooses the    *)
(* part that moves in a behaviour; the others stay where they begin, so    *)
(* each is explored on its own instance.                                   *)
(***************************************************************************)
EXTENDS ReleaseControl, RepoLock, StoreCapacity, FiniteSetsExt, TLC

CONSTANTS
  MaxEdits,      \* bound: what others do to the release session's tree, tickets and policy
  MaxReceipts    \* bound: release receipts of a behaviour

VARIABLES part, edits

partVars == <<releaseVars, lockVars, capacityVars, edits, part>>

\* "race" is one release without predecessors beside a busy source tree; "chain"
\* is two releases, gates and attestations beside ticket verbs and policy updates.
ReleaseParts == {"race", "chain"}
Parts == ReleaseParts \cup {"lock", "capacity"}

Gate(kind, required) == [kind |-> kind, required |-> required]
MCPolicies ==
  {[gates |-> ("g" :> Gate("MANUAL", TRUE)) @@ ("k" :> Gate("COMMAND", FALSE)), removed |-> {}],
   [gates |-> ("g" :> Gate("COMMAND", FALSE)), removed |-> {}]}

MCDefinition(id, preds, criteria, gates) ==
  [id |-> id, preds |-> preds, tickets |-> {"t"}, criteria |-> criteria, gates |-> gates]
Alone == MCDefinition("r1", {}, 1, {})
MCDefinitions == {Alone, MCDefinition("r1", {"r2"}, 1, {}), MCDefinition("r2", {"r1"}, 0, {"g"})}

\* Receipts of one or two bytes, a blob or none, an intent tree that grows or
\* shrinks; a PAUSE has nothing but its barrier.
MCShapes ==
  {s \in [receipt : {1, 2}, blob : Blobs \cup {NoBlob}, grow : {0, 2}, shrink : {0, 1}, entries : {1, 2},
          barrier : {"keep", "place"}] :
     /\ s.barrier = "place" => s.grow = 0 /\ s.shrink = 0 /\ s.blob = NoBlob
     /\ s.shrink > 0 => s.grow > 0}

MCInit ==
  /\ ReleaseInit /\ LockInit /\ CapacityInit
  /\ part \in Parts /\ edits = 0
  /\ head.tree[1] = 1
  /\ part \in ReleaseParts \/ (policy \in {p \in Policies : "k" \in DOMAIN p.gates} /\ scoped["t"].status = "OPEN")
  /\ part = "capacity" \/ kept.intent = 0

ReleaseReceipts == MapThenSumSet(LAMBDA r : release[r].rev, Defined)

\* A fixed attestation id, one attestation at a time, of the current candidate.
MCAttest ==
  \E r \in Defined, op \in {"EXTERNAL_ATTEST", "MANUAL_ATTEST"}, result \in {"PASS", "FAIL"}, g \in GateIds :
    /\ release[r].attestations = {}
    /\ Attest("OWNER", r, op, [id |-> "x", gate |-> g, result |-> result, candidate |-> release[r].candidate,
                               criteria |-> 0..(release[r].def.criteria - 1)])

ReleaseCommand ==
  \/ \E d \in MCDefinitions : (part = "race" => d = Alone) /\ Define("OWNER", d)
  \/ part = "chain" /\ MCAttest
  \/ \E r \in Defined, op \in {"CANDIDATE", "PROMOTE"} : Observe("OWNER", r, op)
  \/ Capture \/ Promote

Others ==
  \/ part = "chain" /\ ((\E t \in ScopedTickets : TicketVerb(t)) \/ PolicyUpdate)
  \/ part = "race" /\ ((\E f \in 1..FileCount : Edit(f)) \/ GitCommit)

MCRelease ==
  /\ part \in ReleaseParts
  /\ \/ /\ ReleaseReceipts < (IF part = "chain" THEN MaxReceipts ELSE 3)
        /\ ReleaseCommand /\ UNCHANGED edits
     \/ (ObserveHead \/ ObserveFile \/ EndSession) /\ UNCHANGED edits
     \/ edits < MaxEdits /\ Others /\ edits' = edits + 1

MCNext ==
  /\ UNCHANGED part
  /\ \/ MCRelease /\ UNCHANGED <<lockVars, capacityVars>>
     \/ part = "lock" /\ LockNext /\ UNCHANGED <<releaseVars, capacityVars, edits>>
     \/ part = "capacity" /\ CapacityNext /\ UNCHANGED <<releaseVars, lockVars, edits>>

MCFairness ==
  /\ \A p \in Procs : WF_lockVars(part = "lock" /\ Proceed(p))
  /\ WF_lockVars(part = "lock" /\ Tick)

MCSpec == MCInit /\ [][MCNext]_partVars /\ MCFairness

\* The state of every part is what its variables are said to hold.
PartsTypeOK == ReleaseTypeOK /\ LockTypeOK /\ CapacityTypeOK
=============================================================================
