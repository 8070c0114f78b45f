---------------------------- MODULE TicketLifecycle ----------------------------
(***************************************************************************)
(* What one ticket verb may do to the canonical records of a queue: Apply  *)
(* and Adopt of package mutation over the inventory of package ticket, and *)
(* the derived view.  One action per verb; FixtureStore says how the post  *)
(* record reaches the disk, and asks the replay question before either is  *)
(* called.  A refused verb changes nothing, so it is no step.              *)
(*                                                                         *)
(* Of a record's fields the model keeps those some rule reads.  `body`     *)
(* stands for every prose field, `priority` for priority and order,        *)
(* `criteria` for acceptanceCriteria and requirementRefs, `effects` for    *)
(* the effect set and the capabilities; digests stand for the records.     *)
(***************************************************************************)
EXTENDS Naturals, FiniteSets, Sequences, SequencesExt

CONSTANTS
  Actors,          \* roles whose bindings issue verbs; an actor is its role
  MaxCount,        \* wire.MaxCountValue as it bounds a record's revision
  MaxSerial,       \* wire.MaxCountValue as it bounds the queue's nextSerial
  MaxTickets,      \* wire.MaxTicketsPerQueue
  MaxHolds,        \* wire.MaxHolds
  MaxApprovals,    \* wire.MaxApprovals
  MaxDependencies, \* wire.MaxDependencies
  HoldIds, GrantIds, Bodies, Priorities, Kinds, Criteria, Gates, Classes, EffectSets,
  KnownGates,      \* the gate ids the policy defines
  RemovedOps,      \* operations the policy's roles rows take away
  Templates,       \* the fields CREATE payloads carry, without token and dependencies
  DependencyLists, \* the dependency lists payloads carry
  FitsFile(_),     \* the record's canonical bytes are within wire.MaxTicketFileBytes
  NoTicket, NoGate, NoToken, Refused

Roles == {"OWNER", "OPERATOR", "IMPORTER", "WORKER", "SYSTEM", "REVIEWER"}
Statuses == {"DRAFT", "OPEN", "HELD", "COMPLETED", "ARCHIVED"}

\* A local token up to ASCII case folding is the serial it spells; `auto` is
\* the spelling allocateSerial produces.
Token == [serial : 1..MaxSerial, auto : BOOLEAN]
\* An edge as it is decoded: nothing relates its gate to its obligation yet.
Edge == [on : Token, obligation : {"COMPLETED", "GATE_PASSED"}, gate : Gates \cup {NoGate}]
Hold == [id : HoldIds, by : Actors]
ApprovalOps == {"RUN", "ADJUDICATE"}
Approval == [id : GrantIds, by : Actors, grants : ApprovalOps, target : 1..MaxCount, revoked : BOOLEAN]

Record ==
  [rev : 1..MaxCount, acc : 1..MaxCount, status : Statuses, from : (Statuses \ {"ARCHIVED"}) \cup {"null"},
   body : Bodies, priority : Priorities, kind : Kinds, criteria : SUBSET Criteria,
   deps : Seq(Edge), gates : SUBSET Gates, class : Classes, effects : EffectSets,
   supersedes : Token \cup {NoTicket}, source : {"NATIVE", "IMPORT"},
   holds : Seq(Hold), approvals : Seq(Approval), completion : Actors \cup {"null"}]

Template ==
  [body : Bodies, priority : Priorities, kind : Kinds, criteria : SUBSET Criteria, gates : SUBSET Gates,
   class : Classes, effects : EffectSets, supersedes : Token \cup {NoTicket}, source : {"NATIVE", "IMPORT"}]

ASSUME TicketAssumption ==
  /\ {MaxCount, MaxSerial, MaxTickets, MaxHolds, MaxApprovals, MaxDependencies} \subseteq Nat \ {0}
  /\ Actors \subseteq Roles /\ KnownGates \subseteq Gates
  /\ Templates \subseteq Template
  /\ \A deps \in DependencyLists : deps \in Seq(Edge) /\ Len(deps) <= MaxDependencies
  /\ NoToken \notin Token

VARIABLES
  ticket,     \* the canonical record of each ticket of the inventory
  nextSerial  \* of the queue manifest

tickets == <<ticket, nextSerial>>

TicketTypeOK ==
  /\ DOMAIN ticket \subseteq Token
  /\ \A t \in DOMAIN ticket : ticket[t] \in Record /\ ticket[t].acc <= ticket[t].rev
  /\ nextSerial \in 1..MaxSerial

TicketInit == ticket = << >> /\ nextSerial = 1

-----------------------------------------------------------------------------
(* The record and its closed validator. *)

Effective(r) == IF r.from = "null" THEN r.status ELSE r.from
Live(status) == status \in {"DRAFT", "OPEN", "HELD"}
Ids(entries) == {entries[i].id : i \in DOMAIN entries}
Distinct(entries) == \A i, j \in DOMAIN entries : entries[i].id = entries[j].id => i = j

\* The entries with one of these ids, in their order: a loop that appends.
Chosen(entries, ids) ==
  LET upTo[i \in 0..Len(entries)] ==
        IF i = 0 THEN << >>
        ELSE IF entries[i].id \in ids THEN Append(upTo[i - 1], entries[i]) ELSE upTo[i - 1]
  IN upTo[Len(entries)]

\* The fields whose change bumps acceptanceRevision.
Acceptance(r) ==
  <<r.kind, r.criteria, r.deps, r.gates, r.class, r.effects, r.supersedes, r.source>>

\* The edges of a list of dependencies.
Edges(deps) == {deps[i] : i \in DOMAIN deps}

\* A gate is named by the edges that wait for one, and no edge comes twice.
EdgesProper(deps) ==
  /\ \A e \in Edges(deps) : e.obligation = "GATE_PASSED" <=> e.gate # NoGate
  /\ \A i, j \in DOMAIN deps : deps[i] = deps[j] => i = j

\* Record.validate: what a closed type check of the fields cannot express.
Valid(t, r) ==
  /\ r.acc <= r.rev
  /\ (r.status = "ARCHIVED") <=> (r.from # "null")
  /\ (Effective(r) = "HELD") <=> (r.holds # << >>)
  /\ (Effective(r) = "COMPLETED") <=> (r.completion # "null")
  /\ EdgesProper(r.deps) /\ Len(r.deps) <= MaxDependencies
  /\ \A e \in Edges(r.deps) : e.on # t
  /\ Distinct(r.holds) /\ Len(r.holds) <= MaxHolds
  /\ Distinct(r.approvals) /\ Len(r.approvals) <= MaxApprovals
  /\ r.supersedes # t

-----------------------------------------------------------------------------
(* The dependency graph of the inventory. *)

\* Mutant: only the dependencies' own edges are looked at.
DependenciesSoundNear(t, edges) ==
  \A e \in edges : e.on # t /\ e.on \in DOMAIN ticket /\ \A d \in Edges(ticket[e.on].deps) : d.on # t

\* CheckDependencies: every edge leads to a record, and the search from all of
\* them ends with t not among what it visited: the visited records are closed
\* under their own edges, but for those to records that do not exist.
DependenciesSound(t, edges) ==
  \E visited \in SUBSET (DOMAIN ticket \ {t}) :
    /\ \A e \in edges : e.on \in visited
    /\ \A v \in visited : \A e \in Edges(ticket[v].deps) : e.on \in DOMAIN ticket \cup {t} => e.on \in visited

\* findCycles: one of t's dependencies leads back to t.
InCycle(t, r) == ~DependenciesSound(t, {e \in Edges(r.deps) : e.on \in DOMAIN ticket})

GatesKnown(r) ==
  /\ r.gates \subseteq KnownGates
  /\ \A e \in Edges(r.deps) : e.gate \in KnownGates \cup {NoGate}

-----------------------------------------------------------------------------
(* One verb on one working record: step. *)

Operations ==
  {"CREATE", "REFINE", "PRIORITIZE", "SET_DEPENDENCIES", "SET_GATES", "SET_EFFECTS", "HOLD",
   "RELEASE_HOLD", "REOPEN", "ARCHIVE", "RESTORE", "COMPLETE_MANUAL", "GRANT_APPROVAL",
   "REVOKE_APPROVAL"}

\* The default role matrix after the policy's removals.
Permitted(who) ==
  (CASE who \in {"OWNER", "OPERATOR"} -> Operations
     [] who = "IMPORTER" -> {"CREATE", "REFINE"}
     [] who = "WORKER"   -> {"REFINE"}
     [] who = "SYSTEM"   -> {"HOLD"}
     [] OTHER            -> {}) \ RemovedOps

\* Restrictions inside a permitted row.
RoleAllows(who, r, m) ==
  /\ m.op \in Permitted(who)
  /\ who = "WORKER" => m.op = "REFINE" /\ DOMAIN m.set = {"body"}
  /\ who = "IMPORTER" => r.source = "IMPORT"
  /\ who = "SYSTEM" => m.op = "HOLD" /\ m.id = "ESCALATED"
  /\ who = "OPERATOR" /\ m.op = "GRANT_APPROVAL" => m.grants # "ADJUDICATE"

Forcing == {"REOPEN", "RESTORE", "COMPLETE_MANUAL"}

Unrevoked(r, id) == \E i \in DOMAIN r.approvals : r.approvals[i].id = id /\ ~r.approvals[i].revoked

StatusAllows(r, m) ==
  /\ r.status = "ARCHIVED" => m.op = "RESTORE"
  /\ CASE m.op \in {"REFINE", "PRIORITIZE", "ARCHIVE"} -> TRUE
       [] m.op \in {"SET_DEPENDENCIES", "SET_GATES", "SET_EFFECTS"} -> Live(r.status)
       [] m.op = "HOLD" ->
            r.status \in {"OPEN", "HELD"} /\ m.id \notin Ids(r.holds) /\ Len(r.holds) < MaxHolds
       [] m.op = "RELEASE_HOLD" -> r.status = "HELD" /\ m.id \in Ids(r.holds)
       [] m.op = "REOPEN" -> r.status = "COMPLETED"
       [] m.op = "RESTORE" -> r.status = "ARCHIVED"
       [] m.op = "COMPLETE_MANUAL" -> r.status = "OPEN"
       [] m.op = "GRANT_APPROVAL" ->
            m.target = r.acc /\ m.id \notin Ids(r.approvals) /\ Len(r.approvals) < MaxApprovals
       [] m.op = "REVOKE_APPROVAL" -> Unrevoked(r, m.id)

\* A record may leave DRAFT.
Opens(r) == r.criteria # {} \/ r.kind \in {"MANUAL", "EXTERNAL"}
Opened(r) == IF r.status = "DRAFT" /\ Opens(r) THEN [r EXCEPT !.status = "OPEN"] ELSE r

\* The record with the fields of a payload in place of its own.
Overlay(set, r) == [k \in DOMAIN set \cup DOMAIN r |-> IF k \in DOMAIN set THEN set[k] ELSE r[k]]

\* Mutant: the last hold goes and HELD stays.
ReleasedStillHeld(r, id) == [r EXCEPT !.holds = Chosen(@, Ids(@) \ {id})]

Released(r, id) ==
  LET rest == Chosen(r.holds, Ids(r.holds) \ {id})
  IN [r EXCEPT !.holds = rest, !.status = IF rest = << >> THEN "OPEN" ELSE "HELD"]

\* What a permitted verb makes of the record, but for the chain fields.
Effect(who, r, m) ==
  CASE m.op \in {"PRIORITIZE", "SET_DEPENDENCIES", "SET_GATES", "SET_EFFECTS"} -> Overlay(m.set, r)
    [] m.op = "REFINE" -> Opened(Overlay(m.set, r))
    [] m.op = "HOLD" ->
         [r EXCEPT !.holds = Append(@, [id |-> m.id, by |-> who]), !.status = "HELD"]
    [] m.op = "RELEASE_HOLD" -> Released(r, m.id)
    [] m.op = "REOPEN" -> [r EXCEPT !.completion = "null", !.status = "OPEN"]
    [] m.op = "ARCHIVE" -> [r EXCEPT !.from = r.status, !.status = "ARCHIVED"]
    [] m.op = "RESTORE" -> [r EXCEPT !.status = r.from, !.from = "null"]
    [] m.op = "COMPLETE_MANUAL" -> [r EXCEPT !.completion = who, !.status = "COMPLETED"]
    [] m.op = "GRANT_APPROVAL" ->
         [r EXCEPT !.approvals = Append(@, [id |-> m.id, by |-> who, grants |-> m.grants,
                                            target |-> m.target, revoked |-> FALSE])]
    [] m.op = "REVOKE_APPROVAL" ->
         [r EXCEPT !.approvals = [i \in DOMAIN @ |->
            IF @[i].id = m.id THEN [@[i] EXCEPT !.revoked = TRUE] ELSE @[i]]]

Step(who, r, m) ==
  IF r # Refused /\ RoleAllows(who, r, m) /\ StatusAllows(r, m) THEN Effect(who, r, m) ELSE Refused

-----------------------------------------------------------------------------
(* finalize: the checks on the whole change, then the chain fields once. *)

\* zeroAttempts: no ticket has a live attempt.
LiveAttempt(t) == "UNSATISFIED"

\* Mutant: only the listed operations bump acceptanceRevision.
BumpsForced(pre, work, forced) == forced

Bumps(pre, work, forced) == forced \/ Acceptance(pre) # Acceptance(work)

\* checkRecord over a change of an existing record.
CheckRecord(t, pre, work) ==
  /\ pre.deps # work.deps => DependenciesSound(t, Edges(work.deps))
  /\ pre.deps # work.deps \/ pre.gates # work.gates => GatesKnown(work)
  /\ pre.supersedes # work.supersedes => work.supersedes \in DOMAIN ticket \cup {NoTicket}

\* Mutant: the Count maximum is not looked at.
FinalizeAllowsUnbounded(t, pre, work, forced) ==
  /\ pre.status = "COMPLETED" => Acceptance(pre) = Acceptance(work)
  /\ CheckRecord(t, pre, work)

FinalizeAllows(t, pre, work, forced) ==
  /\ pre.status = "COMPLETED" => Acceptance(pre) = Acceptance(work)
  /\ CheckRecord(t, pre, work)
  /\ Bumps(pre, work, forced) => LiveAttempt(t) = "UNSATISFIED"
  /\ pre.rev < MaxCount

\* The working record began as a copy of pre and has its fields.
Post(pre, work, forced) ==
  [[k \in DOMAIN pre |-> work[k]] EXCEPT
     !.rev = pre.rev + 1,
     !.acc = IF Bumps(pre, work, forced) THEN pre.acc + 1 ELSE pre.acc]

\* revalidate: the closed validator and the file bound, on what is to be written.
Revalidate(t, r) == Valid(t, r) /\ FitsFile(r)

\* The post record of a working record, or Refused; revalidate comes last.
Finalize(t, pre, work, forced) ==
  IF work # Refused /\ FinalizeAllows(t, pre, work, forced) /\ Revalidate(t, Post(pre, work, forced))
  THEN Post(pre, work, forced) ELSE Refused

\* Apply for every verb but CREATE.
Applied(who, t, m) == Finalize(t, ticket[t], Step(who, ticket[t], m), m.op \in Forcing)

\* A verb names the revision its caller read; a plan is what apply commits.
Mutate(who, t, expected, m) ==
  /\ expected = ticket[t].rev
  /\ Applied(who, t, m) # Refused
  /\ ticket' = [ticket EXCEPT ![t] = Applied(who, t, m)]
  /\ UNCHANGED nextSerial


-----------------------------------------------------------------------------
(* The payloads.  A REFINE names one field: more are several verbs in one.  *)

Refinements ==
  [{"body"} -> Bodies] \cup [{"kind"} -> Kinds] \cup [{"criteria"} -> SUBSET Criteria]
    \cup [{"supersedes"} -> Token \cup {NoTicket}]

Assign(op, sets) == {[op |-> op, set |-> s] : s \in sets}
Refines == Assign("REFINE", Refinements)
Prioritizes == Assign("PRIORITIZE", [{"priority"} -> Priorities])
DependencyChanges == Assign("SET_DEPENDENCIES", [{"deps"} -> DependencyLists])
GateChanges == Assign("SET_GATES", [{"gates"} -> SUBSET Gates])
EffectChanges == Assign("SET_EFFECTS", [class : Classes, effects : EffectSets])
Grants == [op : {"GRANT_APPROVAL"}, id : GrantIds, grants : ApprovalOps, target : 1..MaxCount]
Named(op, ids) == {[op |-> op, id |-> id] : id \in ids}

\* Some caller commits one of these payloads on some ticket.
Issue(payloads) ==
  \E t \in DOMAIN ticket, who \in Actors, m \in payloads : Mutate(who, t, ticket[t].rev, m)

Refine == Issue(Refines)
Prioritize == Issue(Prioritizes)
SetDependencies == Issue(DependencyChanges)
SetGates == Issue(GateChanges)
SetEffects == Issue(EffectChanges)
PlaceHold == Issue(Named("HOLD", HoldIds))
ReleaseHold == Issue(Named("RELEASE_HOLD", HoldIds))
Reopen == Issue({[op |-> "REOPEN"]})
Archive == Issue({[op |-> "ARCHIVE"]})
Restore == Issue({[op |-> "RESTORE"]})
CompleteManual == Issue({[op |-> "COMPLETE_MANUAL"]})
GrantApproval == Issue(Grants)
RevokeApproval == Issue(Named("REVOKE_APPROVAL", GrantIds))

-----------------------------------------------------------------------------
(* CREATE. *)

Occupied == {t.serial : t \in DOMAIN ticket}
NoneIssued == [local |-> NoToken, next |-> nextSerial]

\* Mutant: nextSerial is the only candidate.
AllocateSerialWedged ==
  IF nextSerial < MaxSerial /\ nextSerial \notin Occupied
  THEN [local |-> [serial |-> nextSerial, auto |-> TRUE], next |-> nextSerial + 1] ELSE NoneIssued

\* allocateSerial: the first free serial at or after nextSerial, within as
\* many tries as records could occupy, and one more.
AllocateSerial ==
  LET free == {n \in nextSerial..(nextSerial + Cardinality(DOMAIN ticket)) :
                 n < MaxSerial /\ n \notin Occupied}
      n == CHOOSE n \in free : \A m \in free : n <= m
  IN IF free = {} THEN NoneIssued ELSE [local |-> [serial |-> n, auto |-> TRUE], next |-> n + 1]

\* The token a CREATE gets, and the nextSerial of the manifest after it.
Issued(local) ==
  IF local = NoToken THEN AllocateSerial
  ELSE IF local.serial \in Occupied THEN NoneIssued
  ELSE [local |-> local, next |-> nextSerial]

CreatedRecord(p, deps) ==
  Opened(Overlay(p, [rev |-> 1, acc |-> 1, status |-> "DRAFT", from |-> "null", deps |-> deps,
                     holds |-> << >>, approvals |-> << >>, completion |-> "null"]))

Create(who, local, p, deps) ==
  LET issued == Issued(local)
      t == issued.local
      r == CreatedRecord(p, deps)
  IN /\ "CREATE" \in Permitted(who)
     /\ who = "IMPORTER" => p.source = "IMPORT"
     /\ Cardinality(DOMAIN ticket) < MaxTickets
     /\ t # NoToken
     /\ DependenciesSound(t, Edges(deps)) /\ GatesKnown(r)
     /\ p.supersedes \in DOMAIN ticket \cup {NoTicket}
     /\ Revalidate(t, r)
     /\ ticket' = [u \in DOMAIN ticket \cup {t} |-> IF u = t THEN r ELSE ticket[u]]
     /\ nextSerial' = issued.next

CreateTicket ==
  \E who \in Actors, local \in Token \cup {NoToken}, p \in Templates, deps \in DependencyLists :
    Create(who, local, p, deps)

-----------------------------------------------------------------------------
(* ADOPT_FILE: the differences of a diverged file as composed verbs. *)

\* Fields no adoption changes; those the adoption itself sets are left to it.
Protected(r) == <<r.from, r.completion, r.approvals, r.rev, r.acc, r.source>>

\* The fields that differ among these, as one payload, or none.
Changed(r, file, op, keys) ==
  LET diff == {k \in keys : r[k] # file[k]}
  IN IF diff = {} THEN << >> ELSE <<[op |-> op, set |-> [k \in diff |-> file[k]]]>>

\* A payload that carries all of its fields when one of them differs.
ChangedTogether(r, file, op, keys) ==
  IF \A k \in keys : r[k] = file[k] THEN << >>
  ELSE <<[op |-> op, set |-> [k \in keys |-> file[k]]]>>

Common(holds, others) == Chosen(holds, Ids(others))
Only(holds, others) == Chosen(holds, Ids(holds) \ Ids(others))
HoldVerbs(op, holds) == [i \in DOMAIN holds |-> [op |-> op, id |-> holds[i].id]]

\* composeAdopt: the verbs in the order of the contract.
Composition(r, file) ==
  Changed(r, file, "REFINE", {"body", "kind", "criteria", "supersedes"})
    \o ChangedTogether(r, file, "PRIORITIZE", {"priority"})
    \o ChangedTogether(r, file, "SET_DEPENDENCIES", {"deps"})
    \o ChangedTogether(r, file, "SET_GATES", {"gates"})
    \o ChangedTogether(r, file, "SET_EFFECTS", {"class", "effects"})
    \o HoldVerbs("HOLD", Only(file.holds, r.holds))
    \o HoldVerbs("RELEASE_HOLD", Only(r.holds, file.holds))

\* One step after the other on one working record; a refusal is final.
Composed(who, r, file) ==
  LET verbs == Composition(r, file)
      work[i \in 0..Len(verbs)] == IF i = 0 THEN r ELSE Step(who, work[i - 1], verbs[i])
  IN work[Len(verbs)]

\* adoptCovered: the composition reproduces the file, but for who placed a
\* hold; a file left at DRAFT is taken for the OPEN its criteria derive.
Covered(r, work, file) ==
  /\ \A k \in DOMAIN r \ {"rev", "acc", "holds", "status"} : work[k] = file[k]
  /\ \/ work.status = file.status
     \/ r.status = "DRAFT" /\ file.status = "DRAFT" /\ work.status = "OPEN"
  /\ Len(work.holds) = Len(file.holds)
  /\ \A i \in DOMAIN work.holds : work.holds[i].id = file.holds[i].id

\* Mutant: status is protected like the rest.
AdoptableSameStatus(r, file) ==
  /\ r.status # "ARCHIVED" /\ r.status = file.status
  /\ Protected(r) = Protected(file)
  /\ Common(r.holds, file.holds) = Common(file.holds, r.holds)

\* What is refused before anything is composed.
Adoptable(r, file) ==
  /\ r.status # "ARCHIVED"
  /\ Protected(r) = Protected(file)
  /\ r.status = file.status \/ (Live(r.status) /\ Live(file.status))
  /\ Common(r.holds, file.holds) = Common(file.holds, r.holds)

\* The post record of an adoption, or Refused.
Adopted(who, t, file) ==
  LET r == ticket[t]
      work == Composed(who, r, file)
  IN IF /\ who \in {"OWNER", "OPERATOR"} /\ Revalidate(t, file) /\ Adoptable(r, file)
        /\ work # Refused /\ Covered(r, work, file)
     THEN Finalize(t, r, work, FALSE) ELSE Refused

\* The ways a hand edit rearranges holds: one dropped, one added at either
\* end, one replaced by another.
HoldEdits(holds) ==
  LET dropped == {Chosen(holds, Ids(holds) \ {id}) : id \in HoldIds}
      fresh(hs) == {[id |-> id, by |-> "OWNER"] : id \in HoldIds \ Ids(hs)}
  IN dropped \cup UNION {UNION {{Append(hs, h), <<h>> \o hs} : h \in fresh(hs)} : hs \in dropped}

\* A human saved these bytes as the ticket's file.
FileEdits(r) ==
  {Overlay(edit, r) :
     edit \in [body : Bodies, criteria : SUBSET Criteria, class : Classes,
               holds : HoldEdits(r.holds), status : {r.status, "OPEN", "HELD"}]}

AdoptFile ==
  \E t \in DOMAIN ticket, who \in Actors : \E file \in FileEdits(ticket[t]) :
    /\ Adopted(who, t, file) # Refused
    /\ ticket' = [ticket EXCEPT ![t] = Adopted(who, t, file)]
    /\ UNCHANGED nextSerial

-----------------------------------------------------------------------------
TicketNext ==
  \/ CreateTicket
  \/ Refine \/ Prioritize \/ SetDependencies \/ SetGates \/ SetEffects
  \/ PlaceHold \/ ReleaseHold \/ Reopen \/ Archive \/ Restore \/ CompleteManual
  \/ GrantApproval \/ RevokeApproval
  \/ AdoptFile

TicketSpec == TicketInit /\ [][TicketNext]_tickets

-----------------------------------------------------------------------------
(* The derived view. *)

CompletedDependency(t) == Effective(ticket[t]) = "COMPLETED"

\* The certain blockers of record r of t in the order View finds them; gates
\* and attempts are NOT_OBSERVED, which blocks nothing and satisfies nothing.
Blockers(t, r, writer, fallback) ==
  LET problem(code, holds) == IF holds THEN <<code>> ELSE << >>
      run == {i \in DOMAIN r.approvals : r.approvals[i].grants = "RUN" /\ r.approvals[i].target = r.acc}
  IN problem("TICKET_HELD", r.status = "HELD")
     \o problem("TICKET_STATE", r.status \notin {"OPEN", "HELD"})
     \o problem("DEPENDENCY_MISSING", \E e \in Edges(r.deps) : e.on \notin DOMAIN ticket)
     \o problem("CYCLE", InCycle(t, r))
     \o problem("DEPENDENCY_UNSATISFIED",
                \E e \in Edges(r.deps) :
                  e.obligation = "COMPLETED" /\ e.on \in DOMAIN ticket /\ ~CompletedDependency(e.on))
     \o problem("APPROVAL_MISSING",
                r.class = "APPROVAL_REQUIRED" /\ \A i \in run : r.approvals[i].revoked)
     \o problem("TICKET_STATE", r.class \notin {"AUTONOMOUS", "APPROVAL_REQUIRED"})
     \o problem("EXTERNAL_UNBOUNDED", r.effects = "UNBOUNDED")
     \o problem("COVERAGE_UNKNOWN", r.effects # "QUALIFIED" /\ fallback # "WHOLE_REPOSITORY")
     \o problem("CUTOVER_MISSING", r.source = "IMPORT" /\ writer # "NATIVE")

\* Mutant: the blockers are asked before the status.
NextActionOfBlocker(r, blockers) ==
  IF blockers = << >> THEN "admit"
  ELSE IF Head(blockers) = "TICKET_HELD" THEN "RELEASE_HOLD" ELSE "REFINE"

\* The verb the view tells its reader to issue next.
NextAction(r, blockers) ==
  CASE r.status = "DRAFT"     -> "REFINE"
    [] r.status = "HELD"      -> "RELEASE_HOLD"
    [] r.status = "COMPLETED" -> "REOPEN"
    [] r.status = "ARCHIVED"  -> "RESTORE"
    [] r.status = "OPEN" /\ blockers = << >> -> "admit"
    [] OTHER ->
       CASE Head(blockers) \in {"DEPENDENCY_MISSING", "CYCLE"} -> "SET_DEPENDENCIES"
         [] Head(blockers) = "DEPENDENCY_UNSATISFIED" -> "wait-dependency"
         [] Head(blockers) = "APPROVAL_MISSING" -> "GRANT_APPROVAL"
         [] Head(blockers) \in {"EXTERNAL_UNBOUNDED", "COVERAGE_UNKNOWN"} -> "SET_EFFECTS"
         [] Head(blockers) = "CUTOVER_MISSING" -> "cutover"
         [] OTHER -> "REFINE"

-----------------------------------------------------------------------------
(* What the verbs are for. *)

EditVerbs ==
  Refines \cup Prioritizes \cup DependencyChanges \cup GateChanges \cup EffectChanges
    \cup Named("HOLD", HoldIds) \cup Named("RELEASE_HOLD", HoldIds)
Verbs ==
  EditVerbs \cup {[op |-> op] : op \in {"REOPEN", "ARCHIVE", "RESTORE", "COMPLETE_MANUAL"}}
    \cup Grants \cup Named("REVOKE_APPROVAL", GrantIds)

\* An approval names an acceptanceRevision, a completion the ticket as it was
\* completed, a caller's expectedRevision a record: no verb and no adoption
\* leaves one of these numbers standing while what it names changes.
PinnedStep(old, new) ==
  /\ new.rev = old.rev => new = old
  /\ new.acc = old.acc \/ (Effective(old) = "COMPLETED" /\ Effective(new) = "COMPLETED")
       => Acceptance(new) = Acceptance(old)
AcceptanceIsPinned == [][\A t \in DOMAIN ticket : PinnedStep(ticket[t], ticket'[t])]_tickets

\* However the inventory was built up, every dependency leads to a record and
\* no group of tickets waits for itself: one of them depends on none of the others.
DependenciesResolve ==
  /\ \A t \in DOMAIN ticket : \A e \in Edges(ticket[t].deps) : e.on \in DOMAIN ticket
  /\ \A group \in (SUBSET DOMAIN ticket) \ {{}} :
       \E t \in group : \A e \in Edges(ticket[t].deps) : e.on \notin group

\* No two records fold to one token, and explicit tokens that took the next
\* serials never keep CREATE from a serial that is free.
SerialsSound ==
  /\ \A t, u \in DOMAIN ticket : t.serial = u.serial => t = u
  /\ (\E n \in nextSerial..(MaxSerial - 1) : n \notin Occupied) => AllocateSerial.local # NoToken

\* What the step rules and the checks on the change let through and only the
\* proof of the post record refuses, its size aside: a REFINE that makes the
\* ticket supersede itself, and a SET_DEPENDENCIES whose list repeats an edge or
\* names a gate where no gate is waited for, which the decoding of a payload
\* does not look at.  Every other rule of the closed validator they keep.
StepsStayValid ==
  \A t \in DOMAIN ticket, m \in Verbs :
    LET r == ticket[t]
        work == Step("OWNER", r, m)
    IN work # Refused /\ FinalizeAllows(t, r, work, m.op \in Forcing) =>
         \/ Valid(t, Post(r, work, m.op \in Forcing))
         \/ m.op = "REFINE" /\ work.supersedes = t
         \/ m.op = "SET_DEPENDENCIES" /\ ~EdgesProper(work.deps)

\* A file edited as a verb would have changed the record is adopted, and to
\* the record that verb would have left; a file over the bound is not read.
HandEditIsTheVerb ==
  \A t \in DOMAIN ticket, m \in EditVerbs :
    LET r == ticket[t]
        post == Applied("OWNER", t, m)
        file == [post EXCEPT !.rev = r.rev, !.acc = r.acc]
    IN post # Refused => (FitsFile(file) => Adopted("OWNER", t, file) = post)

\* A verb the size of its post record alone refuses.
OutgrowsFile(t, m) ==
  LET r == ticket[t]
      work == Step("OWNER", r, m)
  IN /\ work # Refused /\ FinalizeAllows(t, r, work, m.op \in Forcing)
     /\ Valid(t, Post(r, work, m.op \in Forcing))
     /\ ~FitsFile(Post(r, work, m.op \in Forcing))

\* The verb a view names as the next one can be issued, unless the record is at
\* a bound: its revision, its approvals, its file.  Named for a blocker of an
\* OPEN ticket, some use of that verb removes the blocker, with one exception:
\* of the execution classes that are never eligible, TICKET_STATE, the view
\* says refine, and no refinement changes the class.
NextActionHelps ==
  \A t \in DOMAIN ticket, writer \in {"NATIVE", "IMPORT"}, fallback \in {"WHOLE_REPOSITORY", "NONE"} :
    LET r == ticket[t]
        why == Blockers(t, r, writer, fallback)
        op == NextAction(r, why)
        issued == {m \in Verbs : m.op = op /\ Applied("OWNER", t, m) # Refused}
    IN /\ op \in Operations /\ r.rev < MaxCount /\ (op = "GRANT_APPROVAL" => Len(r.approvals) < MaxApprovals)
       /\ \A m \in Verbs : m.op = op => ~OutgrowsFile(t, m)
       => /\ issued # {}
          /\ r.status = "OPEN" =>
               (Head(why) = "TICKET_STATE" <=>
                  \A m \in issued : Contains(Blockers(t, Applied("OWNER", t, m), writer, fallback), Head(why)))
=============================================================================
