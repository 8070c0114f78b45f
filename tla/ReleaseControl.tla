---------------------------- MODULE ReleaseControl ----------------------------
(***************************************************************************)
(* Fixture release control: release.Apply and Assess, the graph check of   *)
(* transaction.Model, and the session of store.Release, which holds the    *)
(* repository lock from its first read to its receipt.  Ticket verbs and   *)
(* policy updates take the same lock, so they never fall inside a session; *)
(* the source tree is outside .taskman, and its owner edits and commits    *)
(* while ObserveSource reads it one git command and one file at a time.    *)
(*                                                                         *)
(* A digest is the value it digests.  Versions, titles, actors, evidence   *)
(* and times of the records, which no rule compares, are left out.         *)
(***************************************************************************)
EXTENDS Naturals, FiniteSets, Sequences

CONSTANTS
  Releases, ScopedTickets, GateIds, AttestationIds,
  FileCount,       \* files of the source, in name order
  Texts,           \* contents of a source file
  MaxRevision,     \* bound: revisions of one release record
  MaxVersion,      \* bound: revisions of one ticket record
  MaxCommits,      \* bound: commits of the source
  CriteriaCounts,  \* numbers of acceptance criteria a definition may have
  Policies,        \* contents intent/policy.json may hold
  NoRecord, NoCandidate, NoPromotion, NoSession

ReleaseOps == {"CREATE", "UPDATE", "CANDIDATE", "EXTERNAL_ATTEST", "MANUAL_ATTEST", "PROMOTE"}
ReleaseRoles == {"OWNER", "OPERATOR", "REVIEWER"}
Provenances == {"MANUAL", "EXTERNAL"}
GateKinds == {"MANUAL", "COMMAND"}

ASSUME ReleaseAssumption ==
  /\ \A p \in Policies : /\ DOMAIN p.gates \subseteq GateIds /\ p.removed \subseteq ReleaseRoles \X ReleaseOps
                         /\ \A g \in DOMAIN p.gates : p.gates[g] \in [kind : GateKinds, required : BOOLEAN]
  /\ CriteriaCounts \subseteq Nat
  /\ {MaxRevision, MaxVersion, MaxCommits, FileCount} \subseteq Nat \ {0}

VARIABLES
  release,   \* the canonical release records
  scoped,    \* the canonical ticket records, as far as a release reads them
  policy,    \* intent/policy.json
  head,      \* the commit HEAD names: its number and its tree
  worktree,  \* the files of the primary worktree
  session    \* the observation of the running CANDIDATE or PROMOTE session

releaseVars == <<release, scoped, policy, head, worktree, session>>

Definition == [id : Releases, preds : SUBSET Releases, tickets : SUBSET ScopedTickets,
               criteria : CriteriaCounts, gates : SUBSET GateIds]
TicketState == [status : {"OPEN", "COMPLETED"}, version : 1..MaxVersion, acc : 1..MaxVersion]
Tree == [1..FileCount -> Texts]
CommitOf == [number : 1..MaxCommits, tree : Tree]

ReleaseInit ==
  /\ release = [r \in Releases |-> NoRecord]
  /\ scoped \in [ScopedTickets -> [status : {"OPEN", "COMPLETED"}, version : {1}, acc : {1}]]
  /\ policy \in Policies
  /\ \E text \in Texts : head = [number |-> 1, tree |-> [f \in 1..FileCount |-> text]]
  /\ worktree = head.tree
  /\ session = NoSession

-----------------------------------------------------------------------------
(* Records. *)

Defined == {r \in Releases : release[r] # NoRecord}
Promotion(r) == IF r \in Defined THEN release[r].promotion ELSE NoPromotion
Promoted == {r \in Releases : Promotion(r) # NoPromotion}

GraphValidUnlessSelf(defs) == \A d \in defs : d.preds \subseteq {e.id : e \in defs} \ {d.id}

\* ValidateGraph: every predecessor exists and no walk over them returns.
GraphValid(defs) ==
  /\ \A d \in defs : d.preds \subseteq {e.id : e \in defs}
  /\ \A cycle \in (SUBSET defs) \ {{}} : \E d \in cycle : d.preds \cap {e.id : e \in cycle} = {}

Compatible(a, p) ==
  /\ a.gate \in DOMAIN p.gates
  /\ (a.provenance = "MANUAL") = (p.gates[a.gate].kind = "MANUAL")

PassingAny(record, p) == {a \in record.attestations : a.candidate = record.candidate /\ Compatible(a, p)}

Passing(record, p) ==
  {a \in record.attestations : a.candidate = record.candidate /\ a.result = "PASS" /\ Compatible(a, p)}

RequiredGatesOfRelease(definition, p) == definition.gates

RequiredGates(definition, p) == definition.gates \cup {g \in DOMAIN p.gates : p.gates[g].required}

\* The scope the sorted id lists of a candidate repeat is the definition's.
CandidateScope(record) ==
  /\ DOMAIN record.candidate.tickets = record.def.tickets
  /\ DOMAIN record.candidate.preds = record.def.preds

\* Decode(Encode(out)): the closed validator of what Apply built.
RecordValid(record) ==
  /\ record.candidate = NoCandidate => record.promotion = NoPromotion
  /\ record.candidate # NoCandidate => CandidateScope(record)
  /\ \A a, b \in record.attestations : a.id = b.id => a = b
  /\ \A a \in record.attestations : \A i \in a.criteria : i < record.def.criteria
  /\ record.promotion # NoPromotion =>
       /\ record.promotion.candidate = record.candidate
       /\ record.promotion.preds = record.candidate.preds
       /\ record.promotion.evidence # {}
       /\ record.promotion.evidence \subseteq
            {a \in record.attestations : a.candidate = record.candidate /\ a.result = "PASS"}

-----------------------------------------------------------------------------
(* Readiness. *)

\* What one session saw: the commit and the source as ObserveSource read them.
Ready(record, seen) ==
  /\ record.candidate # NoCandidate
  /\ CandidateScope(record)
  /\ record.candidate.def = record.def
  /\ record.candidate.policy = policy
  /\ record.candidate.commit = seen.commit /\ record.candidate.source = seen.source
  /\ \A t \in DOMAIN record.candidate.tickets :
       scoped[t].status = "COMPLETED" /\ record.candidate.tickets[t] = scoped[t]
  /\ \A r \in DOMAIN record.candidate.preds : Promotion(r) = record.candidate.preds[r]
  /\ \A g \in RequiredGates(record.def, policy) : \E a \in Passing(record, policy) : a.gate = g
  /\ \A i \in 0..(record.def.criteria - 1) : \E a \in Passing(record, policy) : i \in a.criteria

-----------------------------------------------------------------------------
(* Apply, and the writer around it. *)

Authorized(who, op) ==
  /\ \/ who = "OWNER"
     \/ who = "OPERATOR" /\ op \in {"CREATE", "UPDATE", "CANDIDATE", "EXTERNAL_ATTEST"}
  /\ <<who, op>> \notin policy.removed

MutableAlways(r) == TRUE

\* A promoted record admits no operation; a stale expectedRevision is refused.
Mutable(r) == r \notin Promoted
Publish(r, record) ==
  /\ RecordValid(record)
  /\ GraphValid({release[x].def : x \in Defined \ {r}} \cup {record.def})
  /\ record.rev <= MaxRevision
  /\ release' = [release EXCEPT ![r] = record]

\* RELEASE_CREATE and RELEASE_UPDATE: a fresh record, whatever was there.
Define(who, definition) ==
  LET r == definition.id IN
  /\ session = NoSession
  /\ Authorized(who, IF r \in Defined THEN "UPDATE" ELSE "CREATE")
  /\ Mutable(r)
  /\ definition.tickets \subseteq DOMAIN scoped
  /\ definition.gates \subseteq DOMAIN policy.gates
  /\ Publish(r, [rev |-> IF r \in Defined THEN release[r].rev + 1 ELSE 1, def |-> definition,
                 candidate |-> NoCandidate, attestations |-> {}, promotion |-> NoPromotion])
  /\ UNCHANGED <<scoped, policy, head, worktree, session>>

\* RELEASE_EXTERNAL_ATTEST and RELEASE_MANUAL_ATTEST: the operation decides the provenance.
\* The payload names the candidate it is about; Apply compares, so any other is refused.
AttestedCandidate(r, candidate) == candidate # NoCandidate /\ candidate = release[r].candidate

Attest(who, r, op, claim) ==
  /\ session = NoSession
  /\ op \in {"EXTERNAL_ATTEST", "MANUAL_ATTEST"} /\ Authorized(who, op)
  /\ r \in Defined /\ Mutable(r)
  /\ AttestedCandidate(r, claim.candidate)
  /\ LET a == [id |-> claim.id, candidate |-> claim.candidate, gate |-> claim.gate, result |-> claim.result,
               criteria |-> claim.criteria, provenance |-> IF op = "MANUAL_ATTEST" THEN "MANUAL" ELSE "EXTERNAL"]
     IN /\ a.id \notin {b.id : b \in release[r].attestations}
        /\ Publish(r, [release[r] EXCEPT !.rev = @ + 1, !.attestations = @ \cup {a}])
  /\ UNCHANGED <<scoped, policy, head, worktree, session>>

CleanEnoughFor(op) == op = "PROMOTE" => worktree = head.tree

\* The session takes the lock, replays nothing, and `git status` answers: only
\* a CANDIDATE refuses a dirty tree.
CleanEnough(op) == op = "CANDIDATE" => worktree = head.tree
Observe(who, r, op) ==
  /\ session = NoSession
  /\ op \in {"CANDIDATE", "PROMOTE"}
  /\ CleanEnough(op)
  /\ session' = [by |-> who, target |-> r, op |-> op, commit |-> 0, source |-> << >>, raced |-> FALSE]
  /\ UNCHANGED <<release, scoped, policy, head, worktree>>

\* rev-parse HEAD, then HEAD^{tree} and ls-files, which no rule reads back.
ObserveHead ==
  /\ session # NoSession /\ session.commit = 0
  /\ session' = [session EXCEPT !.commit = head.number]
  /\ UNCHANGED <<release, scoped, policy, head, worktree>>

\* The files in name order, one Lstat and one ReadFile after the other.
ObserveFile ==
  /\ session # NoSession /\ session.commit # 0
  /\ Len(session.source) < FileCount
  /\ session' = [session EXCEPT !.source = Append(@, worktree[Len(@) + 1])]
  /\ UNCHANGED <<release, scoped, policy, head, worktree>>

Observed == session # NoSession /\ session.commit # 0 /\ Len(session.source) = FileCount

\* The captured candidate: every predecessor is promoted, every attestation forgotten.
Captured(r) ==
  [commit |-> session.commit, source |-> session.source, def |-> release[r].def, policy |-> policy,
   tickets |-> [t \in release[r].def.tickets |-> scoped[t]],
   preds |-> [q \in release[r].def.preds |-> Promotion(q)]]

Recaptured(record, candidate) == [record EXCEPT !.rev = @ + 1, !.candidate = candidate, !.attestations = {}]

Capture ==
  LET r == session.target IN
  /\ Observed /\ session.op = "CANDIDATE"
  /\ Authorized(session.by, "CANDIDATE") /\ r \in Defined /\ Mutable(r)
  /\ release[r].def.preds \subseteq Promoted
  /\ Publish(r, Recaptured(release[r], Captured(r)))
  /\ session' = NoSession
  /\ UNCHANGED <<scoped, policy, head, worktree>>

PromotedRecord(record) ==
  [record EXCEPT !.rev = @ + 1,
                 !.promotion = [candidate |-> record.candidate, preds |-> record.candidate.preds,
                                evidence |-> Passing(record, policy)]]

Promote ==
  LET r == session.target IN
  /\ Observed /\ session.op = "PROMOTE"
  /\ Authorized(session.by, "PROMOTE") /\ r \in Defined /\ Mutable(r)
  /\ Ready(release[r], session)
  /\ Publish(r, PromotedRecord(release[r]))
  /\ session' = NoSession
  /\ UNCHANGED <<scoped, policy, head, worktree>>

\* Every refusal of the session, and a git command that fails: no receipt.
EndSession ==
  /\ session # NoSession
  /\ session' = NoSession
  /\ UNCHANGED <<release, scoped, policy, head, worktree>>

-----------------------------------------------------------------------------
(* Everybody else. *)

\* A ticket verb rewrites the record; some bump acceptanceRevision (TicketLifecycle).
TicketVerb(t) ==
  /\ session = NoSession /\ scoped[t].version < MaxVersion
  /\ \E status \in {"OPEN", "COMPLETED"}, bump \in {0, 1} :
       scoped' = [scoped EXCEPT ![t] = [status |-> status, version |-> @.version + 1, acc |-> @.acc + bump]]
  /\ UNCHANGED <<release, policy, head, worktree, session>>

PolicyUpdate ==
  /\ session = NoSession
  /\ policy' \in Policies \ {policy}
  /\ UNCHANGED <<release, scoped, head, worktree, session>>

Raced == IF session = NoSession THEN session ELSE [session EXCEPT !.raced = TRUE]

Edit(f) ==
  /\ \E text \in Texts \ {worktree[f]} : worktree' = [worktree EXCEPT ![f] = text]
  /\ session' = Raced
  /\ UNCHANGED <<release, scoped, policy, head>>

GitCommit ==
  /\ worktree # head.tree /\ head.number < MaxCommits
  /\ head' = [number |-> head.number + 1, tree |-> worktree]
  /\ session' = Raced
  /\ UNCHANGED <<release, scoped, policy, worktree>>

Claims == [id : AttestationIds, gate : GateIds, result : {"PASS", "FAIL"},
           criteria : SUBSET (0..(MaxRevision - 1)), candidate : {release[r].candidate : r \in Defined}]

ReleaseNext ==
  \/ \E who \in ReleaseRoles, d \in Definition : Define(who, d)
  \/ \E who \in ReleaseRoles, r \in Releases, op \in ReleaseOps, claim \in Claims : Attest(who, r, op, claim)
  \/ \E who \in ReleaseRoles, r \in Releases, op \in ReleaseOps : Observe(who, r, op)
  \/ ObserveHead \/ ObserveFile
  \/ Capture \/ Promote \/ EndSession
  \/ \E t \in ScopedTickets : TicketVerb(t)
  \/ PolicyUpdate
  \/ \E f \in 1..FileCount : Edit(f)
  \/ GitCommit

ReleaseSpec == ReleaseInit /\ [][ReleaseNext]_releaseVars

-----------------------------------------------------------------------------
(* Properties. *)

\* What a record is made of; a session's source is what it read so far.
ReleaseTypeOK ==
  /\ \A r \in Defined : release[r].rev \in 1..MaxRevision /\ release[r].def \in Definition /\ release[r].def.id = r
  /\ \A r \in Defined : release[r].candidate # NoCandidate => release[r].candidate.def = release[r].def
  /\ scoped \in [ScopedTickets -> TicketState] /\ policy \in Policies
  /\ head \in CommitOf /\ worktree \in Tree
  /\ session # NoSession => session.op \in {"CANDIDATE", "PROMOTE"} /\ session.source \in Seq(Texts)

\* A promoted release stays what was promoted, and the promotions its candidate
\* bound are still those of its predecessors, however long ago they were made
\* (Apply's immutability of promoted records, across all six operations).
PromotionChain ==
  \A r \in Promoted :
    /\ Promotion(r).candidate = release[r].candidate /\ Promotion(r).candidate.def = release[r].def
    /\ Promotion(r).evidence \subseteq release[r].attestations
    /\ \A q \in release[r].def.preds : q \in Promoted /\ Promotion(r).preds[q] = Promotion(q)

\* Any sequence of CREATE and UPDATE leaves a release order with a first release:
\* no set of releases is closed under having a predecessor in the set (ValidateGraph).
ReleaseOrderSound ==
  /\ \A r \in Defined : release[r].def.preds \subseteq Defined
  /\ \A together \in (SUBSET Defined) \ {{}} : \E r \in together : release[r].def.preds \cap together = {}

\* The promotion's evidence answers the policy in force when it is recorded, not
\* the one it was gathered under; every ticket is completed and untouched since
\* the capture, and the predecessors were promoted before (Assess at PROMOTE).
PromotedOnCurrentEvidence ==
  [][\A r \in Promoted' \ Promoted :
       LET p == release'[r].promotion  def == release'[r].def IN
       /\ \A g \in def.gates \cup {x \in DOMAIN policy.gates : policy.gates[x].required} :
            \E a \in p.evidence : /\ a.gate = g /\ a.result = "PASS" /\ a.candidate = p.candidate
                                 /\ g \in DOMAIN policy.gates
                                 /\ a.provenance = "MANUAL" <=> policy.gates[g].kind = "MANUAL"
       /\ \A i \in 0..(def.criteria - 1) : \E a \in p.evidence : i \in a.criteria
       /\ \A t \in def.tickets : scoped[t].status = "COMPLETED" /\ p.candidate.tickets[t] = scoped[t]
       /\ def.preds \subseteq Promoted]_releaseVars

\* `release readiness` and PROMOTE agree: what Assess calls READY_ATTESTED on the
\* source as it stands, the record's validator lets PROMOTE write.  A release that
\* requires nothing at all is the exception: it is ready with no evidence to bind.
ReadyIsPromotable ==
  \A r \in Defined \ Promoted :
    Ready(release[r], [commit |-> head.number, source |-> worktree])
      => \/ release[r].def.criteria = 0 /\ RequiredGates(release[r].def, policy) = {}
         \/ RecordValid(PromotedRecord(release[r]))

\* A capture nobody raced binds the committed tree of the commit it names: the
\* status of ObserveSource covers what its later reads digest.
QuietCaptureIsClean ==
  [][\A r \in Defined : Capture /\ session.target = r /\ ~session.raced
       => release'[r].candidate.source = head.tree /\ release'[r].candidate.commit = head.number]_releaseVars
=============================================================================
