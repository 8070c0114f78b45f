------------------------ MODULE ReleaseControlProofs ------------------------
(***************************************************************************)
(* The promises of a promoted release, for any releases, tickets, gates,   *)
(* policies and source files: the inductive invariant of ReleaseControl.   *)
(***************************************************************************)
EXTENDS ReleaseControl, TLAPS

\* What every operation writes: a record its validator admits, whose candidate
\* bound promoted predecessors only.
WellFormed(record) ==
  /\ record = [rev |-> record.rev, def |-> record.def, candidate |-> record.candidate,
               attestations |-> record.attestations, promotion |-> record.promotion]
  /\ RecordValid(record)
  /\ record.def.criteria \in Nat
  /\ record.candidate # NoCandidate => \A q \in record.def.preds : record.candidate.preds[q] # NoPromotion

\* A promoted record rests on promotions that stand.
Rests(record) ==
  record.promotion # NoPromotion =>
    /\ record.candidate.def = record.def
    /\ \A q \in record.def.preds : q \in Promoted /\ record.promotion.preds[q] = Promotion(q)

ReleaseInv ==
  /\ release = [r \in Releases |-> release[r]]
  /\ \A r \in Defined : WellFormed(release[r]) /\ Rests(release[r])

\* A session nobody raced has read the committed files, in order.
Faithful ==
  /\ worktree = head.tree
  /\ session.commit \in {0, head.number}
  /\ \A i \in 1..Len(session.source) : session.source[i] = worktree[i]

SessionInv ==
  /\ worktree \in Tree
  /\ session # NoSession =>
       /\ session = [by |-> session.by, target |-> session.target, op |-> session.op, commit |-> session.commit,
                     source |-> session.source, raced |-> session.raced]
       /\ session.source \in Seq(Texts)
       /\ session.op = "CANDIDATE" /\ ~session.raced => Faithful

-----------------------------------------------------------------------------
\* Every operation writes one record, and no promoted one (Apply's immutability).
LEMMA PublishKeeps ==
  ASSUME ReleaseInv, NEW r \in Releases, Mutable(r), NEW record,
         release' = [release EXCEPT ![r] = record], WellFormed(record), Rests(record)
  PROVE  ReleaseInv' /\ Promoted \subseteq Promoted'
<1>1. release'[r] = record /\ \A x \in Releases \ {r} : release'[x] = release[x]
  BY DEF ReleaseInv
<1>2. \A q \in Promoted : q \in Promoted' /\ Promotion(q)' = Promotion(q)
  <2> SUFFICES ASSUME NEW q \in Promoted PROVE q \in Promoted' /\ Promotion(q)' = Promotion(q)
    OBVIOUS
  <2>1. q # r /\ q \in Releases /\ q \in Defined
    BY DEF Mutable, Promoted, Promotion, Defined
  <2>2. release'[q] = release[q]
    BY <1>1, <2>1
  <2> QED
    BY <2>1, <2>2 DEF Promoted, Promotion, Defined
<1>3. \A x \in Defined' : WellFormed(release[x])' /\ Rests(release[x])'
  <2> SUFFICES ASSUME NEW x \in Defined' PROVE WellFormed(release'[x]) /\ Rests(release[x])'
    BY DEF WellFormed, RecordValid, CandidateScope
  <2>1. WellFormed(release'[x]) /\ Rests(release'[x])
    <3>1. CASE x = r
      BY <1>1, <3>1
    <3>2. CASE x # r
      BY <1>1, <3>2 DEF ReleaseInv, Defined
    <3> QED
      BY <3>1, <3>2
  <2> QED
    BY <1>2, <2>1 DEF Rests
<1>4. release' = [x \in Releases |-> release'[x]]
  BY DEF ReleaseInv
<1> QED
  BY <1>2, <1>3, <1>4 DEF ReleaseInv

LEMMA DefineKeeps ==
  ASSUME ReleaseInv, NEW who, NEW d \in Definition, Define(who, d)
  PROVE  ReleaseInv' /\ Promoted' \subseteq Promoted
<1> DEFINE fresh == [rev |-> IF d.id \in Defined THEN release[d.id].rev + 1 ELSE 1, def |-> d,
                     candidate |-> NoCandidate, attestations |-> {}, promotion |-> NoPromotion]
<1>1. d.id \in Releases /\ d.criteria \in Nat
  BY ReleaseAssumption DEF Definition
<1>2. Mutable(d.id) /\ RecordValid(fresh) /\ release' = [release EXCEPT ![d.id] = fresh]
  BY DEF Define, Publish
<1>3. WellFormed(fresh) /\ Rests(fresh)
  BY <1>1, <1>2 DEF WellFormed, Rests
<1>4. ReleaseInv'
  BY <1>1, <1>2, <1>3, PublishKeeps
<1>5. \A x \in Promoted' : x \in Promoted
  BY <1>1, <1>2 DEF ReleaseInv, Promoted, Promotion, Defined
<1> QED
  BY <1>4, <1>5

LEMMA AttestKeeps ==
  ASSUME ReleaseInv, NEW who, NEW r \in Releases, NEW op, NEW claim, Attest(who, r, op, claim)
  PROVE  ReleaseInv' /\ Promoted' \subseteq Promoted
<1>1. r \in Defined /\ Mutable(r) /\ release[r].promotion = NoPromotion
  BY DEF Attest, Mutable, Promoted, Promotion, Defined
<1>2. PICK a, record : /\ record = [release[r] EXCEPT !.rev = @ + 1, !.attestations = @ \cup {a}]
                       /\ RecordValid(record) /\ release' = [release EXCEPT ![r] = record]
  BY DEF Attest, Publish
<1>3. WellFormed(release[r])
  BY <1>1 DEF ReleaseInv
<1>4. record = [rev |-> release[r].rev + 1, def |-> release[r].def, candidate |-> release[r].candidate,
                attestations |-> release[r].attestations \cup {a}, promotion |-> release[r].promotion]
  BY <1>2, <1>3 DEF WellFormed
<1>5. WellFormed(record) /\ Rests(record)
  BY <1>1, <1>2, <1>3, <1>4 DEF WellFormed, Rests
<1>6. ReleaseInv'
  BY <1>1, <1>2, <1>5, PublishKeeps
<1>7. \A x \in Promoted' : x \in Promoted
  BY <1>1, <1>2, <1>4 DEF ReleaseInv, Promoted, Promotion, Defined
<1> QED
  BY <1>6, <1>7

\* What RELEASE_CANDIDATE writes: the observed source, and promoted predecessors.
LEMMA CaptureWrites ==
  ASSUME ReleaseInv, Capture
  PROVE  LET r == session.target  record == Recaptured(release[r], Captured(r)) IN
         /\ r \in Defined /\ Mutable(r) /\ r \in Releases
         /\ release' = [release EXCEPT ![r] = record]
         /\ record = [rev |-> release[r].rev + 1, def |-> release[r].def, candidate |-> Captured(r),
                      attestations |-> {}, promotion |-> NoPromotion]
         /\ WellFormed(record) /\ Rests(record)
<1> DEFINE r == session.target
<1>0. PICK record : record = Recaptured(release[r], Captured(r))
  OBVIOUS
<1>1. r \in Defined /\ r \in Releases /\ Mutable(r) /\ release[r].def.preds \subseteq Promoted
  BY DEF Capture, Defined
<1>2. RecordValid(record) /\ release' = [release EXCEPT ![r] = record]
  BY <1>0 DEF Capture, Publish
<1>3. WellFormed(release[r])
  BY <1>1 DEF ReleaseInv
<1>4. release[r].promotion = NoPromotion
  BY <1>1 DEF Mutable, Promoted, Promotion
<1>5. record = [rev |-> release[r].rev + 1, def |-> release[r].def, candidate |-> Captured(r),
                attestations |-> {}, promotion |-> NoPromotion]
  BY <1>0, <1>3, <1>4 DEF WellFormed, Recaptured
<1>6. \A q \in release[r].def.preds : Captured(r).preds[q] # NoPromotion
  BY <1>1 DEF Captured, Promoted
<1>7. WellFormed(record) /\ Rests(record)
  BY <1>2, <1>3, <1>5, <1>6 DEF WellFormed, Rests
<1> QED
  BY <1>0, <1>1, <1>2, <1>5, <1>7

LEMMA CaptureKeeps ==
  ASSUME ReleaseInv, Capture
  PROVE  ReleaseInv' /\ Promoted' \subseteq Promoted
<1>1. ReleaseInv'
  BY CaptureWrites, PublishKeeps
<1>2. \A x \in Promoted' : x \in Promoted
  BY CaptureWrites DEF ReleaseInv, Promoted, Promotion, Defined
<1> QED
  BY <1>1, <1>2

\* What RELEASE_PROMOTE writes into a record Assess found ready.
LEMMA PromoteWrites ==
  ASSUME ReleaseInv, Promote
  PROVE  LET r == session.target  old == release[r]  record == PromotedRecord(old) IN
         /\ r \in Defined /\ Mutable(r) /\ r \in Releases /\ Ready(old, session)
         /\ release' = [release EXCEPT ![r] = record]
         /\ record = [rev |-> old.rev + 1, def |-> old.def, candidate |-> old.candidate,
                      attestations |-> old.attestations,
                      promotion |-> [candidate |-> old.candidate, preds |-> old.candidate.preds,
                                     evidence |-> Passing(old, policy)]]
         /\ old.def.preds \subseteq Promoted
         /\ WellFormed(record) /\ Rests(record)
<1> DEFINE r == session.target
           old == release[r]
<1>0. PICK record : record = PromotedRecord(old)
  OBVIOUS
<1>1. r \in Defined /\ r \in Releases /\ Mutable(r) /\ Ready(old, session)
  BY DEF Promote, Defined
<1>2. RecordValid(record) /\ release' = [release EXCEPT ![r] = record]
  BY <1>0 DEF Promote, Publish
<1>3. WellFormed(old)
  BY <1>1 DEF ReleaseInv
<1>4. record = [rev |-> old.rev + 1, def |-> old.def, candidate |-> old.candidate,
                attestations |-> old.attestations,
                promotion |-> [candidate |-> old.candidate, preds |-> old.candidate.preds,
                               evidence |-> Passing(old, policy)]]
  BY <1>0, <1>3 DEF WellFormed, PromotedRecord
<1>5. /\ old.candidate # NoCandidate /\ old.candidate.def = old.def
      /\ DOMAIN old.candidate.preds = old.def.preds
      /\ \A q \in DOMAIN old.candidate.preds : Promotion(q) = old.candidate.preds[q]
  BY <1>1 DEF Ready, CandidateScope
<1>6. \A q \in old.def.preds : q \in Promoted
  <2> SUFFICES ASSUME NEW q \in old.def.preds PROVE q \in Promoted
    OBVIOUS
  <2>1. Promotion(q) # NoPromotion
    BY <1>3, <1>5 DEF WellFormed
  <2> QED
    BY <2>1 DEF Promoted, Promotion, Defined
<1>7. WellFormed(record)
  BY <1>2, <1>3, <1>4 DEF WellFormed
<1>8. Rests(record)
  BY <1>4, <1>5, <1>6 DEF Rests
<1> QED
  BY <1>0, <1>1, <1>2, <1>4, <1>6, <1>7, <1>8

\* A step that promotes nothing, or the one promotion of a session.
LEMMA ReleaseStepKeeps ==
  ASSUME ReleaseInv, [ReleaseNext]_releaseVars
  PROVE  ReleaseInv' /\ (Promoted' \subseteq Promoted \/ Promote)
<1>1. CASE UNCHANGED release
  <2>1. Defined' = Defined /\ Promoted' = Promoted /\ \A r : Promotion(r)' = Promotion(r)
    BY <1>1 DEF Defined, Promoted, Promotion
  <2>2. ASSUME NEW r \in Defined PROVE WellFormed(release[r])' /\ Rests(release[r])'
    <3>1. release'[r] = release[r] /\ WellFormed(release[r]) /\ Rests(release[r])
      BY <1>1, <2>2 DEF ReleaseInv
    <3>2. WellFormed(release[r])'
      BY ONLY <3>1 DEF WellFormed, RecordValid, CandidateScope
    <3>3. Rests(release[r])'
      BY ONLY <3>1, <2>1 DEF Rests
    <3> QED
      BY <3>2, <3>3
  <2>3. ReleaseInv'
    BY <1>1, <2>1, <2>2 DEF ReleaseInv
  <2> QED
    BY <2>1, <2>3
<1>2. CASE \E who \in ReleaseRoles, d \in Definition : Define(who, d)
  BY <1>2, DefineKeeps
<1>3. CASE \E who \in ReleaseRoles, r \in Releases, op \in ReleaseOps, claim \in Claims : Attest(who, r, op, claim)
  BY <1>3, AttestKeeps
<1>4. CASE Capture
  BY <1>4, CaptureKeeps
<1>5. CASE Promote
  BY <1>5, PromoteWrites, PublishKeeps
<1>6. CASE \/ \E who \in ReleaseRoles, r \in Releases, op \in ReleaseOps : Observe(who, r, op)
           \/ ObserveHead \/ ObserveFile \/ EndSession \/ (\E t \in ScopedTickets : TicketVerb(t))
           \/ PolicyUpdate \/ (\E f \in 1..FileCount : Edit(f)) \/ GitCommit \/ UNCHANGED releaseVars
  <2>1. UNCHANGED release
    BY <1>6 DEF Observe, ObserveHead, ObserveFile, EndSession, TicketVerb, PolicyUpdate, Edit, GitCommit, releaseVars
  <2> QED
    BY <1>1, <2>1
<1> QED
  BY <1>2, <1>3, <1>4, <1>5, <1>6 DEF ReleaseNext

LEMMA ReleaseInvHolds == ReleaseSpec => []ReleaseInv
<1>1. ReleaseInit => ReleaseInv
  BY DEF ReleaseInit, ReleaseInv, Defined
<1>2. ReleaseInv /\ [ReleaseNext]_releaseVars => ReleaseInv'
  BY ReleaseStepKeeps
<1> QED
  BY <1>1, <1>2, PTL DEF ReleaseSpec

-----------------------------------------------------------------------------
\* A promoted release keeps what was promoted and rests on promotions that stand
\* (Apply's immutability of promoted records, across all six operations).
THEOREM PromotionsStand == ReleaseSpec => []PromotionChain
<1>1. ReleaseInv => PromotionChain
  <2> SUFFICES ASSUME ReleaseInv, NEW r \in Promoted
               PROVE  /\ Promotion(r).candidate = release[r].candidate /\ Promotion(r).candidate.def = release[r].def
                      /\ Promotion(r).evidence \subseteq release[r].attestations
                      /\ \A q \in release[r].def.preds : q \in Promoted /\ Promotion(r).preds[q] = Promotion(q)
    BY DEF PromotionChain
  <2>1. r \in Defined /\ Promotion(r) = release[r].promotion /\ release[r].promotion # NoPromotion
    BY DEF Promoted, Promotion, Defined
  <2>2. RecordValid(release[r]) /\ Rests(release[r])
    BY <2>1 DEF ReleaseInv, WellFormed
  <2> QED
    BY <2>1, <2>2 DEF RecordValid, Rests
<1> QED
  BY <1>1, ReleaseInvHolds, PTL

\* What is promoted passed on the policy, tickets and predecessors of that moment
\* (Assess at RELEASE_PROMOTE).
THEOREM PromotionsAreCurrent == ReleaseSpec => PromotedOnCurrentEvidence
<1> DEFINE Current(r) ==
       LET p == release'[r].promotion  def == release'[r].def IN
       /\ \A g \in def.gates \cup {x \in DOMAIN policy.gates : policy.gates[x].required} :
            \E a \in p.evidence : /\ a.gate = g /\ a.result = "PASS" /\ a.candidate = p.candidate
                                 /\ g \in DOMAIN policy.gates
                                 /\ a.provenance = "MANUAL" <=> policy.gates[g].kind = "MANUAL"
       /\ \A i \in 0..(def.criteria - 1) : \E a \in p.evidence : i \in a.criteria
       /\ \A t \in def.tickets : scoped[t].status = "COMPLETED" /\ p.candidate.tickets[t] = scoped[t]
       /\ def.preds \subseteq Promoted
<1>1. ASSUME ReleaseInv, [ReleaseNext]_releaseVars PROVE [\A r \in Promoted' \ Promoted : Current(r)]_releaseVars
  <2> SUFFICES ASSUME NEW r \in Promoted' \ Promoted PROVE Current(r)
    OBVIOUS
  <2>1. Promote
    BY <1>1, ReleaseStepKeeps
  <2>2. r = session.target
    BY <1>1, <2>1, PromoteWrites DEF ReleaseInv, Promoted, Promotion, Defined
  <2> DEFINE old == release[r]
  <2>3. /\ Ready(old, session) /\ release'[r].def = old.def
        /\ release'[r].promotion = [candidate |-> old.candidate, preds |-> old.candidate.preds,
                                    evidence |-> Passing(old, policy)]
        /\ old.def.preds \subseteq Promoted
    BY <1>1, <2>1, <2>2, PromoteWrites DEF ReleaseInv
  <2>4. \A a \in Passing(old, policy) :
          /\ a.result = "PASS" /\ a.candidate = old.candidate
          /\ a.gate \in DOMAIN policy.gates
          /\ a.provenance = "MANUAL" <=> policy.gates[a.gate].kind = "MANUAL"
    BY DEF Passing, Compatible
  <2>5. \A g \in RequiredGates(old.def, policy) : \E a \in Passing(old, policy) : a.gate = g
    BY <2>3 DEF Ready
  <2>6. \A i \in 0..(old.def.criteria - 1) : \E a \in Passing(old, policy) : i \in a.criteria
    BY <2>3 DEF Ready
  <2>7. \A t \in old.def.tickets : scoped[t].status = "COMPLETED" /\ old.candidate.tickets[t] = scoped[t]
    BY <2>3 DEF Ready, CandidateScope
  <2> QED
    BY <2>3, <2>4, <2>5, <2>6, <2>7 DEF RequiredGates
<1>2. ReleaseInv /\ [ReleaseNext]_releaseVars => [\A r \in Promoted' \ Promoted : Current(r)]_releaseVars
  BY <1>1
<1> QED
  BY <1>2, ReleaseInvHolds, PTL DEF ReleaseSpec, PromotedOnCurrentEvidence

\* Readiness and promotion agree: the record's validator admits what Assess calls
\* ready, unless nothing at all is required (RecordValid of PromotedRecord).
THEOREM ReadinessIsEnough == ReleaseSpec => []ReadyIsPromotable
<1>1. ReleaseInv => ReadyIsPromotable
  <2> SUFFICES ASSUME ReleaseInv, NEW r \in Defined \ Promoted, NEW seen, Ready(release[r], seen),
                      ~(release[r].def.criteria = 0 /\ RequiredGates(release[r].def, policy) = {})
               PROVE  RecordValid(PromotedRecord(release[r]))
    BY DEF ReadyIsPromotable
  <2> DEFINE old == release[r]
  <2>1. PICK record : record = PromotedRecord(old)
    OBVIOUS
  <2>2. WellFormed(old)
    BY DEF ReleaseInv
  <2>3. record = [rev |-> old.rev + 1, def |-> old.def, candidate |-> old.candidate,
                  attestations |-> old.attestations,
                  promotion |-> [candidate |-> old.candidate, preds |-> old.candidate.preds,
                                 evidence |-> Passing(old, policy)]]
    BY <2>1, <2>2 DEF WellFormed, PromotedRecord
  <2>4. Passing(old, policy) # {}
    <3>1. CASE old.def.criteria # 0
      <4>1. 0 \in 0..(old.def.criteria - 1)
        BY <2>2, <3>1 DEF WellFormed
      <4> QED
        BY <4>1 DEF Ready
    <3>2. CASE RequiredGates(old.def, policy) # {}
      BY <3>2 DEF Ready
    <3> QED
      BY <3>1, <3>2
  <2>5. Passing(old, policy) \subseteq {a \in old.attestations : a.candidate = old.candidate /\ a.result = "PASS"}
    BY DEF Passing
  <2>6. RecordValid(record)
    BY <2>2, <2>3, <2>4, <2>5 DEF WellFormed, RecordValid, CandidateScope, Ready
  <2> QED
    BY <2>1, <2>6
<1> QED
  BY <1>1, ReleaseInvHolds, PTL

-----------------------------------------------------------------------------
\* Edits and commits mark a session they race (ObserveSource beside its owner).
LEMMA RaceKeeps ==
  ASSUME SessionInv, session' = Raced, worktree' \in Tree
  PROVE  SessionInv'
<1>1. CASE session = NoSession
  BY <1>1 DEF SessionInv, Raced
<1>2. CASE session # NoSession
  <2>1. session' = [by |-> session.by, target |-> session.target, op |-> session.op, commit |-> session.commit,
                    source |-> session.source, raced |-> TRUE]
    BY <1>2 DEF SessionInv, Raced
  <2> QED
    BY <1>2, <2>1 DEF SessionInv
<1> QED
  BY <1>1, <1>2

LEMMA ObservationKeeps ==
  ASSUME SessionInv, ObserveHead \/ ObserveFile
  PROVE  SessionInv'
<1>0. FileCount \in Nat /\ worktree' = worktree /\ head' = head /\ session # NoSession
  BY ReleaseAssumption DEF ObserveHead, ObserveFile
<1>1. CASE ObserveHead
  <2>1. session' = [by |-> session.by, target |-> session.target, op |-> session.op, commit |-> head.number,
                    source |-> session.source, raced |-> session.raced]
    BY <1>0, <1>1 DEF SessionInv, ObserveHead
  <2> QED
    BY <1>0, <2>1 DEF SessionInv, Faithful
<1>2. CASE ObserveFile
  <2> DEFINE next == Len(session.source) + 1
  <2>1. session' = [by |-> session.by, target |-> session.target, op |-> session.op, commit |-> session.commit,
                    source |-> Append(session.source, worktree[next]), raced |-> session.raced]
    BY <1>0, <1>2 DEF SessionInv, ObserveFile
  <2>2. session.source \in Seq(Texts) /\ next \in 1..FileCount
    BY <1>0, <1>2 DEF SessionInv, ObserveFile
  <2>3. worktree[next] \in Texts
    BY <1>0, <2>2 DEF SessionInv, Tree
  <2>4. session'.source \in Seq(Texts) /\ Len(session'.source) = next
    BY <2>1, <2>2, <2>3
  <2>5. ASSUME \A i \in 1..Len(session.source) : session.source[i] = worktree[i]
        PROVE  \A i \in 1..Len(session'.source) : session'.source[i] = worktree[i]
    BY <2>1, <2>2, <2>3, <2>4, <2>5
  <2> QED
    BY <1>0, <2>1, <2>4, <2>5 DEF SessionInv, Faithful
<1> QED
  BY <1>1, <1>2

LEMMA SessionStepKeeps ==
  ASSUME SessionInv, [ReleaseNext]_releaseVars
  PROVE  SessionInv'
<1>1. CASE \E who \in ReleaseRoles, r \in Releases, op \in ReleaseOps : Observe(who, r, op)
  <2>1. PICK who, r, op : Observe(who, r, op)
    BY <1>1
  <2>2. /\ session' = [by |-> who, target |-> r, op |-> op, commit |-> 0, source |-> << >>, raced |-> FALSE]
        /\ worktree' = worktree /\ head' = head /\ (op = "CANDIDATE" => worktree = head.tree)
    BY <2>1 DEF Observe, CleanEnough
  <2> QED
    BY <2>2 DEF SessionInv, Faithful
<1>2. CASE \E f \in 1..FileCount : Edit(f)
  <2>1. PICK f \in 1..FileCount : Edit(f)
    BY <1>2
  <2>2. worktree' \in Tree /\ session' = Raced
    BY <2>1 DEF Edit, SessionInv, Tree
  <2> QED
    BY <2>2, RaceKeeps
<1>3. CASE GitCommit
  BY <1>3, RaceKeeps DEF GitCommit, SessionInv
<1>4. CASE Capture \/ Promote \/ EndSession
  BY <1>4 DEF Capture, Promote, EndSession, SessionInv
<1>5. CASE \/ \E who \in ReleaseRoles, d \in Definition : Define(who, d)
           \/ \E who \in ReleaseRoles, r \in Releases, op \in ReleaseOps, claim \in Claims : Attest(who, r, op, claim)
           \/ (\E t \in ScopedTickets : TicketVerb(t)) \/ PolicyUpdate \/ UNCHANGED releaseVars
  <2>1. UNCHANGED <<head, worktree, session>>
    BY <1>5 DEF Define, Attest, TicketVerb, PolicyUpdate, releaseVars
  <2> QED
    BY <2>1 DEF SessionInv, Faithful
<1> QED
  BY <1>1, <1>2, <1>3, <1>4, <1>5, ObservationKeeps DEF ReleaseNext

\* A capture nobody raced binds the committed tree of the commit it names
\* (ObserveSource: the status first, HEAD and the files later).
THEOREM QuietCapturesAreClean == ReleaseSpec => QuietCaptureIsClean
<1> DEFINE Clean == \A r \in Defined : Capture /\ session.target = r /\ ~session.raced
                     => release'[r].candidate.source = head.tree /\ release'[r].candidate.commit = head.number
<1>1. ReleaseInit => SessionInv
  BY DEF ReleaseInit, SessionInv, Tree
<1>2. SessionInv /\ [ReleaseNext]_releaseVars => SessionInv'
  BY SessionStepKeeps
<1>3. ASSUME ReleaseInv, SessionInv PROVE Clean
  <2> SUFFICES ASSUME NEW r \in Defined, Capture, session.target = r, ~session.raced
               PROVE  release'[r].candidate.source = head.tree /\ release'[r].candidate.commit = head.number
    OBVIOUS
  <2>1. release'[r].candidate.source = session.source /\ release'[r].candidate.commit = session.commit
    BY <1>3, CaptureWrites DEF ReleaseInv, Captured
  <2>2. session # NoSession /\ session.commit # 0 /\ Len(session.source) = FileCount /\ session.op = "CANDIDATE"
    BY DEF Capture, Observed
  <2>3. Faithful /\ worktree \in [1..FileCount -> Texts] /\ session.source \in Seq(Texts)
    BY <1>3, <2>2 DEF SessionInv, Tree
  <2>4. session.source = worktree
    <3>1. session.source \in [1..FileCount -> Texts]
      <4>1. PICK source : source = session.source
        OBVIOUS
      <4>2. source \in Seq(Texts) /\ Len(source) = FileCount
        BY <2>2, <2>3, <4>1
      <4>3. source \in [1..FileCount -> Texts]
        BY <4>2
      <4> QED
        BY <4>1, <4>3
    <3>2. \A i \in 1..FileCount : session.source[i] = worktree[i]
      BY <2>2, <2>3 DEF Faithful
    <3>3. session.source = [i \in 1..FileCount |-> session.source[i]]
      BY <3>1
    <3>4. worktree = [i \in 1..FileCount |-> worktree[i]]
      BY <2>3
    <3> QED
      BY <3>2, <3>3, <3>4
  <2> QED
    BY <2>1, <2>2, <2>3, <2>4 DEF Faithful
<1>4. ReleaseInv /\ SessionInv => [Clean]_releaseVars
  BY <1>3
<1> QED
  BY <1>1, <1>2, <1>4, ReleaseInvHolds, PTL DEF ReleaseSpec, QuietCaptureIsClean

-----------------------------------------------------------------------------
\* The absent record is not one an operation could write.
AbsentIsNoRecord ==
  \A rev, def, candidate, attestations, promotion :
    NoRecord # [rev |-> rev, def |-> def, candidate |-> candidate,
                attestations |-> attestations, promotion |-> promotion]

OrderInv == (\A r \in Defined : release[r].def.id = r) /\ ReleaseOrderSound

\* ValidateGraph ran over exactly the definitions that are there afterwards.
LEMMA PublishOrders ==
  ASSUME ReleaseInv, OrderInv, NEW r \in Releases, NEW record, Publish(r, record),
         record.def.id = r, record # NoRecord
  PROVE  OrderInv'
<1> DEFINE defs == {release[x].def : x \in Defined \ {r}} \cup {record.def}
<1>1. /\ release'[r] = record /\ \A x \in Releases \ {r} : release'[x] = release[x]
      /\ GraphValid(defs)
  BY DEF Publish, ReleaseInv
<1>2. Defined' = Defined \cup {r}
  BY <1>1 DEF Defined
<1>3. \A x \in Defined' : release'[x].def.id = x /\ release'[x].def \in defs
  BY <1>1, <1>2 DEF OrderInv, Defined
<1>4. {e.id : e \in defs} = Defined'
  BY <1>2, <1>3 DEF OrderInv
<1>5. \A x \in Defined' : release'[x].def.preds \subseteq Defined'
  BY <1>1, <1>3, <1>4 DEF GraphValid
<1>6. ASSUME NEW together \in (SUBSET Defined') \ {{}}
      PROVE  \E x \in together : release'[x].def.preds \cap together = {}
  <2> DEFINE cycle == {release'[x].def : x \in together}
  <2>1. cycle \in (SUBSET defs) \ {{}}
    <3>1. \A d \in cycle : d \in defs
      BY <1>3
    <3>2. PICK x : x \in together
      BY <1>6
    <3>3. release'[x].def \in cycle
      BY <3>2
    <3> HIDE DEF cycle, defs
    <3> QED
      BY <3>1, <3>3
  <2>2. {e.id : e \in cycle} = together
    BY <1>3
  <2>3. PICK d \in cycle : d.preds \cap {e.id : e \in cycle} = {}
    BY <1>1, <2>1 DEF GraphValid
  <2> QED
    BY <2>2, <2>3
<1> QED
  BY <1>3, <1>5, <1>6 DEF OrderInv, ReleaseOrderSound

LEMMA OrderStepKeeps ==
  ASSUME AbsentIsNoRecord, ReleaseInv, OrderInv, [ReleaseNext]_releaseVars
  PROVE  OrderInv'
<1>1. CASE \E who \in ReleaseRoles, d \in Definition : Define(who, d)
  <2>1. PICK who \in ReleaseRoles, d \in Definition : Define(who, d)
    BY <1>1
  <2>2. PICK record : /\ record = [rev |-> IF d.id \in Defined THEN release[d.id].rev + 1 ELSE 1, def |-> d,
                                   candidate |-> NoCandidate, attestations |-> {}, promotion |-> NoPromotion]
                      /\ Publish(d.id, record)
    BY <2>1 DEF Define
  <2>3. record # NoRecord /\ record.def.id = d.id /\ d.id \in Releases
    BY <2>2 DEF AbsentIsNoRecord, Definition
  <2> QED
    BY <2>2, <2>3, PublishOrders
<1>2. CASE \E who \in ReleaseRoles, r \in Releases, op \in ReleaseOps, claim \in Claims : Attest(who, r, op, claim)
  <2>1. PICK who \in ReleaseRoles, r \in Releases, op \in ReleaseOps, claim \in Claims : Attest(who, r, op, claim)
    BY <1>2
  <2>2. PICK a, record : /\ record = [release[r] EXCEPT !.rev = @ + 1, !.attestations = @ \cup {a}]
                         /\ Publish(r, record)
    BY <2>1 DEF Attest
  <2>3. r \in Defined /\ WellFormed(release[r]) /\ release[r].def.id = r
    BY <2>1 DEF Attest, ReleaseInv, OrderInv
  <2>4. record = [rev |-> release[r].rev + 1, def |-> release[r].def, candidate |-> release[r].candidate,
                  attestations |-> release[r].attestations \cup {a}, promotion |-> release[r].promotion]
    BY <2>2, <2>3 DEF WellFormed
  <2>5. record # NoRecord /\ record.def.id = r
    BY <2>3, <2>4 DEF AbsentIsNoRecord
  <2> QED
    BY <2>2, <2>5, PublishOrders
<1>3. CASE Capture
  <2> DEFINE r == session.target
  <2>1. PICK record : record = Recaptured(release[r], Captured(r)) /\ Publish(r, record)
    BY <1>3 DEF Capture
  <2>2. record # NoRecord /\ record.def = release[r].def /\ r \in Defined /\ r \in Releases
    BY <1>3, <2>1, CaptureWrites DEF AbsentIsNoRecord
  <2> QED
    BY <2>1, <2>2, PublishOrders DEF OrderInv
<1>4. CASE Promote
  <2> DEFINE r == session.target
  <2>1. PICK record : record = PromotedRecord(release[r]) /\ Publish(r, record)
    BY <1>4 DEF Promote
  <2>2. record # NoRecord /\ record.def = release[r].def /\ r \in Defined /\ r \in Releases
    BY <1>4, <2>1, PromoteWrites DEF AbsentIsNoRecord
  <2> QED
    BY <2>1, <2>2, PublishOrders DEF OrderInv
<1>5. CASE \/ \E who \in ReleaseRoles, r \in Releases, op \in ReleaseOps : Observe(who, r, op)
           \/ ObserveHead \/ ObserveFile \/ EndSession \/ (\E t \in ScopedTickets : TicketVerb(t))
           \/ PolicyUpdate \/ (\E f \in 1..FileCount : Edit(f)) \/ GitCommit \/ UNCHANGED releaseVars
  <2>1. UNCHANGED release
    BY <1>5 DEF Observe, ObserveHead, ObserveFile, EndSession, TicketVerb, PolicyUpdate, Edit, GitCommit, releaseVars
  <2> QED
    BY <2>1 DEF OrderInv, ReleaseOrderSound, Defined
<1> QED
  BY <1>1, <1>2, <1>3, <1>4, <1>5 DEF ReleaseNext

\* Whatever was created and updated, and in whatever order, every predecessor
\* exists and some release can be the next to promote (ValidateGraph).
THEOREM OrderIsSound ==
  ASSUME AbsentIsNoRecord
  PROVE  ReleaseSpec => []ReleaseOrderSound
<1>1. ReleaseInit => OrderInv
  <2>1. ReleaseInit => Defined = {}
    BY DEF ReleaseInit, Defined
  <2>2. \A together \in SUBSET {} : together = {}
    OBVIOUS
  <2> QED
    BY <2>1, <2>2 DEF OrderInv, ReleaseOrderSound
<1>2. ReleaseInv /\ OrderInv /\ [ReleaseNext]_releaseVars => OrderInv'
  BY AbsentIsNoRecord, OrderStepKeeps
<1>3. OrderInv => ReleaseOrderSound
  BY DEF OrderInv
<1> QED
  BY <1>1, <1>2, <1>3, ReleaseInvHolds, PTL DEF ReleaseSpec

-----------------------------------------------------------------------------
\* What ReleaseTypeOK says of one record, and of what the records are about; a
\* ticket's acceptanceRevision is never ahead of its version.
TypedRecord(r, record) ==
  /\ record.rev \in 1..MaxRevision /\ record.def \in Definition /\ record.def.id = r
  /\ record.candidate # NoCandidate => record.candidate.def = record.def
TypedWorld ==
  /\ scoped \in [ScopedTickets -> TicketState] /\ policy \in Policies
  /\ head \in CommitOf /\ worktree \in Tree
  /\ session # NoSession => session.op \in {"CANDIDATE", "PROMOTE"}
  /\ \A t \in ScopedTickets : scoped[t].acc <= scoped[t].version
TypeInv == (\A r \in Defined : TypedRecord(r, release[r])) /\ TypedWorld

\* A published record is within its revisions, and nothing else is written.
LEMMA PublishTypes ==
  ASSUME ReleaseInv, \A x \in Defined : TypedRecord(x, release[x]), NEW r \in Releases, NEW record, Publish(r, record),
         record.rev \in Nat \ {0}, record.def \in Definition, record.def.id = r,
         record.candidate # NoCandidate => record.candidate.def = record.def
  PROVE  \A x \in Defined' : TypedRecord(x, release'[x])
<1>1. TypedRecord(r, record)
  <2>1. record.rev <= MaxRevision /\ MaxRevision \in Nat
    BY ReleaseAssumption DEF Publish
  <2>2. record.rev \in 1..MaxRevision
    BY <2>1
  <2> QED BY <2>2 DEF TypedRecord
<1>2. \A x \in Releases : release'[x] = IF x = r THEN record ELSE release[x]
  BY DEF Publish, ReleaseInv
<1>3. ASSUME NEW x \in Defined'
      PROVE  TypedRecord(x, release'[x])
  <2>1. CASE x = r
    BY <1>1, <1>2, <2>1
  <2>2. CASE x # r
    BY <1>2, <2>2 DEF Defined
  <2> QED BY <2>1, <2>2
<1> QED BY <1>3

\* The six operations write typed records (Apply and the codec of a release).
LEMMA RecordsStayTyped ==
  ASSUME ReleaseInv, TypeInv, [ReleaseNext]_releaseVars
  PROVE  \A x \in Defined' : TypedRecord(x, release'[x])
<1>1. \A x \in Defined : TypedRecord(x, release[x]) /\ release[x].rev \in Nat /\ x \in Releases
  BY ReleaseAssumption DEF TypeInv, TypedRecord, Defined
<1>2. CASE \E who \in ReleaseRoles, d \in Definition : Define(who, d)
  <2>1. PICK who \in ReleaseRoles, d \in Definition : Define(who, d)
    BY <1>2
  <2> PICK rev : rev = IF d.id \in Defined THEN release[d.id].rev + 1 ELSE 1
    OBVIOUS
  <2>2. PICK record : /\ record = [rev |-> rev, def |-> d, candidate |-> NoCandidate, attestations |-> {},
                                   promotion |-> NoPromotion]
                      /\ Publish(d.id, record)
    BY <2>1 DEF Define
  <2>3. rev \in Nat \ {0} /\ d.id \in Releases
    BY <1>1 DEF Definition
  <2> QED BY <1>1, <2>2, <2>3, PublishTypes
<1>3. CASE \E who \in ReleaseRoles, r \in Releases, op \in ReleaseOps, claim \in Claims : Attest(who, r, op, claim)
  <2>1. PICK who \in ReleaseRoles, r \in Releases, op \in ReleaseOps, claim \in Claims : Attest(who, r, op, claim)
    BY <1>3
  <2>2. PICK a, record : /\ record = [release[r] EXCEPT !.rev = @ + 1, !.attestations = @ \cup {a}]
                         /\ Publish(r, record)
    BY <2>1 DEF Attest
  <2>3. r \in Defined /\ WellFormed(release[r])
    BY <2>1 DEF Attest, ReleaseInv
  <2> PICK rev : rev = release[r].rev + 1
    OBVIOUS
  <2>4. record = [rev |-> rev, def |-> release[r].def, candidate |-> release[r].candidate,
                  attestations |-> release[r].attestations \cup {a}, promotion |-> release[r].promotion]
    BY <2>2, <2>3 DEF WellFormed
  <2>5. rev \in Nat \ {0} /\ TypedRecord(r, release[r])
    BY <1>1, <2>3
  <2>6. record.rev = rev /\ record.def = release[r].def /\ record.candidate = release[r].candidate
    BY <2>4
  <2>7. /\ record.rev \in Nat \ {0} /\ record.def \in Definition /\ record.def.id = r
        /\ record.candidate # NoCandidate => record.candidate.def = record.def
    BY ONLY <2>5, <2>6 DEF TypedRecord
  <2>8. Publish(r, record)
    BY <2>2
  <2> QED
    BY ONLY <1>1, <2>1, <2>7, <2>8, ReleaseInv, PublishTypes
<1>4. CASE Capture
  <2> PICK r : r = session.target
    OBVIOUS
  <2>1. PICK record : record = Recaptured(release[r], Captured(r)) /\ Publish(r, record)
    BY <1>4 DEF Capture
  <2>2. r \in Defined /\ r \in Releases /\ WellFormed(release[r])
    BY <1>4, CaptureWrites DEF ReleaseInv
  <2> PICK rev : rev = release[r].rev + 1
    OBVIOUS
  <2> PICK candidate : candidate = Captured(r)
    OBVIOUS
  <2>3. record = [rev |-> rev, def |-> release[r].def, candidate |-> candidate,
                  attestations |-> {}, promotion |-> release[r].promotion]
    BY <2>1, <2>2 DEF WellFormed, Recaptured
  <2>4. candidate.def = release[r].def
    BY DEF Captured
  <2>5. rev \in Nat \ {0} /\ TypedRecord(r, release[r])
    BY <1>1, <2>2
  <2> QED BY <1>1, <2>1, <2>2, <2>3, <2>4, <2>5, PublishTypes DEF TypedRecord
<1>5. CASE Promote
  <2> PICK r : r = session.target
    OBVIOUS
  <2>1. PICK record : record = PromotedRecord(release[r]) /\ Publish(r, record)
    BY <1>5 DEF Promote
  <2>2. r \in Defined /\ r \in Releases /\ WellFormed(release[r])
    BY <1>5, PromoteWrites DEF ReleaseInv
  <2> PICK rev : rev = release[r].rev + 1
    OBVIOUS
  <2>3. PICK promotion : record = [rev |-> rev, def |-> release[r].def, candidate |-> release[r].candidate,
                                   attestations |-> release[r].attestations, promotion |-> promotion]
    BY <2>1, <2>2 DEF WellFormed, PromotedRecord
  <2>4. rev \in Nat \ {0} /\ TypedRecord(r, release[r])
    BY <1>1, <2>2
  <2> QED BY <1>1, <2>1, <2>2, <2>3, <2>4, PublishTypes DEF TypedRecord
<1>6. CASE \/ \E who \in ReleaseRoles, r \in Releases, op \in ReleaseOps : Observe(who, r, op)
           \/ ObserveHead \/ ObserveFile \/ EndSession \/ (\E t \in ScopedTickets : TicketVerb(t))
           \/ PolicyUpdate \/ (\E f \in 1..FileCount : Edit(f)) \/ GitCommit \/ UNCHANGED releaseVars
  <2>1. UNCHANGED release
    BY <1>6 DEF Observe, ObserveHead, ObserveFile, EndSession, TicketVerb, PolicyUpdate, Edit, GitCommit, releaseVars
  <2> QED BY <1>1, <2>1 DEF Defined
<1> QED BY <1>2, <1>3, <1>4, <1>5, <1>6 DEF ReleaseNext

\* So do everybody else's steps what the records are about.
LEMMA WorldStaysTyped ==
  ASSUME SessionInv, TypeInv, [ReleaseNext]_releaseVars
  PROVE  TypedWorld'
<1>0. TypedWorld
  BY DEF TypeInv
<1>1. CASE \E t \in ScopedTickets : TicketVerb(t)
  <2>1. PICK t \in ScopedTickets : TicketVerb(t)
    BY <1>1
  <2>2. PICK status \in {"OPEN", "COMPLETED"}, bump \in {0, 1} :
          scoped' = [scoped EXCEPT ![t] = [status |-> status, version |-> scoped[t].version + 1,
                                           acc |-> scoped[t].acc + bump]]
    BY <2>1 DEF TicketVerb
  <2> PICK version : version = scoped[t].version + 1
    OBVIOUS
  <2> PICK acc : acc = scoped[t].acc + bump
    OBVIOUS
  <2> PICK state : state = [status |-> status, version |-> version, acc |-> acc]
    OBVIOUS
  <2>3. /\ scoped[t].version \in 1..MaxVersion /\ scoped[t].acc \in 1..MaxVersion /\ MaxVersion \in Nat
        /\ scoped[t].acc <= scoped[t].version /\ scoped[t].version < MaxVersion
    BY <1>0, <2>1, ReleaseAssumption DEF TypedWorld, TicketState, TicketVerb
  <2>4. version \in 1..MaxVersion /\ acc \in 1..MaxVersion /\ acc <= version
    BY <2>3
  <2>5. state \in TicketState /\ state.acc <= state.version
    BY <2>4 DEF TicketState
  <2>6. scoped' = [scoped EXCEPT ![t] = state]
    BY <2>2
  <2>7. /\ scoped' \in [ScopedTickets -> TicketState]
        /\ \A u \in ScopedTickets : scoped'[u].acc <= scoped'[u].version
    BY <1>0, <2>5, <2>6 DEF TypedWorld
  <2> QED BY <1>0, <2>1, <2>7 DEF TypedWorld, TicketVerb
<1>2. CASE PolicyUpdate
  BY <1>0, <1>2 DEF TypedWorld, PolicyUpdate
<1>3. CASE \E f \in 1..FileCount : Edit(f)
  <2>1. PICK f \in 1..FileCount : Edit(f)
    BY <1>3
  <2>2. worktree' \in Tree
    BY <1>0, <2>1 DEF Edit, TypedWorld, Tree
  <2>3. session' # NoSession => session'.op \in {"CANDIDATE", "PROMOTE"}
    BY <1>0, <2>1 DEF Edit, Raced, TypedWorld, SessionInv
  <2> QED BY <1>0, <2>1, <2>2, <2>3 DEF TypedWorld, Edit
<1>4. CASE GitCommit
  <2> PICK number : number = head.number + 1
    OBVIOUS
  <2>1. head' = [number |-> number, tree |-> worktree] /\ UNCHANGED <<scoped, policy, worktree>> /\ session' = Raced
    BY <1>4 DEF GitCommit
  <2>2. head.number \in 1..MaxCommits /\ MaxCommits \in Nat /\ head.number < MaxCommits
    BY <1>0, <1>4, ReleaseAssumption DEF GitCommit, TypedWorld, CommitOf
  <2>3. number \in 1..MaxCommits
    BY <2>2
  <2>4. head' \in CommitOf
    BY <1>0, <2>1, <2>3 DEF TypedWorld, CommitOf
  <2>5. session' # NoSession => session'.op \in {"CANDIDATE", "PROMOTE"}
    BY <1>0, <2>1 DEF Raced, TypedWorld, SessionInv
  <2> QED BY <1>0, <2>1, <2>4, <2>5 DEF TypedWorld
<1>5. CASE (\E who \in ReleaseRoles, r \in Releases, op \in ReleaseOps : Observe(who, r, op))
           \/ ObserveHead \/ ObserveFile \/ EndSession \/ Capture \/ Promote
  <2>1. UNCHANGED <<scoped, policy, head, worktree>>
    BY <1>5 DEF Observe, ObserveHead, ObserveFile, EndSession, Capture, Promote
  <2>2. session' # NoSession => session'.op \in {"CANDIDATE", "PROMOTE"}
    <3>1. CASE \E who \in ReleaseRoles, r \in Releases, op \in ReleaseOps : Observe(who, r, op)
      BY <3>1 DEF Observe
    <3>2. CASE ObserveHead \/ ObserveFile
      BY <1>0, <3>2 DEF ObserveHead, ObserveFile, TypedWorld, SessionInv
    <3>3. CASE EndSession \/ Capture \/ Promote
      BY <3>3 DEF EndSession, Capture, Promote
    <3> QED BY <1>5, <3>1, <3>2, <3>3
  <2> QED BY <1>0, <2>1, <2>2 DEF TypedWorld
<1>6. CASE \/ \E who \in ReleaseRoles, d \in Definition : Define(who, d)
           \/ \E who \in ReleaseRoles, r \in Releases, op \in ReleaseOps, claim \in Claims : Attest(who, r, op, claim)
           \/ UNCHANGED releaseVars
  <2>1. UNCHANGED <<scoped, policy, head, worktree, session>>
    BY <1>6 DEF Define, Attest, releaseVars
  <2> QED BY <1>0, <2>1 DEF TypedWorld
<1> QED BY <1>1, <1>2, <1>3, <1>4, <1>5, <1>6 DEF ReleaseNext

\* Every record, ticket, commit and session is of its type: a revision that would
\* pass the maximum is refused, and a candidate is of the definition it was
\* captured for, which only a fresh record replaces.
THEOREM ReleaseTypeCorrect == ReleaseSpec => []ReleaseTypeOK
<1>1. ReleaseInit => TypeInv /\ SessionInv
  <2> SUFFICES ASSUME ReleaseInit PROVE TypeInv /\ SessionInv
    OBVIOUS
  <2>1. Defined = {}
    BY DEF ReleaseInit, Defined
  <2>2. 1 \in 1..MaxVersion /\ 1 \in 1..MaxCommits
    BY ReleaseAssumption
  <2>3. scoped \in [ScopedTickets -> TicketState] /\ \A t \in ScopedTickets : scoped[t].acc <= scoped[t].version
    BY <2>2 DEF ReleaseInit, TicketState
  <2>4. head \in CommitOf /\ worktree \in Tree
    <3>1. PICK text \in Texts : head = [number |-> 1, tree |-> [f \in 1..FileCount |-> text]]
      BY DEF ReleaseInit
    <3> PICK tree : tree = [f \in 1..FileCount |-> text]
      OBVIOUS
    <3>2. tree \in Tree
      BY DEF Tree
    <3>3. head = [number |-> 1, tree |-> tree]
      BY <3>1
    <3> QED BY <2>2, <3>2, <3>3 DEF ReleaseInit, CommitOf
  <2> QED BY <2>1, <2>3, <2>4 DEF ReleaseInit, TypeInv, TypedWorld, SessionInv
<1>2. ReleaseInv /\ SessionInv /\ TypeInv /\ [ReleaseNext]_releaseVars => TypeInv' /\ SessionInv'
  <2> SUFFICES ASSUME ReleaseInv, SessionInv, TypeInv, [ReleaseNext]_releaseVars
               PROVE  TypeInv' /\ SessionInv'
    OBVIOUS
  <2>1. (\A r \in Defined : TypedRecord(r, release[r]))'
    BY RecordsStayTyped DEF TypedRecord
  <2> QED BY <2>1, WorldStaysTyped, SessionStepKeeps DEF TypeInv
<1>3. SessionInv /\ TypeInv => ReleaseTypeOK
  BY DEF SessionInv, TypeInv, TypedWorld, TypedRecord, ReleaseTypeOK
<1> QED
  BY <1>1, <1>2, <1>3, ReleaseInvHolds, PTL DEF ReleaseSpec

=============================================================================
