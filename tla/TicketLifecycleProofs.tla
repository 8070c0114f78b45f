------------------------- MODULE TicketLifecycleProofs -------------------------
(***************************************************************************)
(* What no verb, no CREATE and no adoption breaks, for every role matrix,  *)
(* every limit and every payload.  A verb and an adoption end in the same  *)
(* way, in finalize; Committed says what that is, and the proofs are about *)
(* it and about CREATE.  The invariant: every record has its shape, passes *)
(* the closed validator and is a DRAFT only while nothing opens it, and    *)
(* the dependencies resolve.  The loops of the model (Chosen, Composed)    *)
(* are reasoned about at the first round that would break what they keep.  *)
(***************************************************************************)
EXTENDS TicketLifecycle, FiniteSetTheorems, SequenceTheorems, WellFoundedInduction, TLAPS

-----------------------------------------------------------------------------
(* The loops of the model, and what they return. *)

\* Some naturals have a least.
LEMMA LeastOfSome ==
  ASSUME NEW S \in SUBSET Nat, S # {}
  PROVE  \E n \in S : \A m \in S : n <= m
<1>1. PICK n \in S : \A m \in S : ~(<<m, n>> \in OpToRel(<, Nat))
  BY NatLessThanWellFounded, WFMin
<1>2. ASSUME NEW m \in S, ~(n <= m)
      PROVE  <<m, n>> \in OpToRel(<, Nat)
  <2>1. m \in Nat /\ n \in Nat /\ m < n
    BY <1>2
  <2>2. <<m, n>> \in Nat \X Nat /\ <<m, n>>[1] < <<m, n>>[2]
    BY <2>1
  <2> QED BY <2>2 DEF OpToRel
<1> QED BY <1>1, <1>2

\* The loop of Chosen up to n entries.
Choosing(entries, ids, n, upTo) ==
  upTo = [i \in 0..n |->
            IF i = 0 THEN << >>
            ELSE IF entries[i].id \in ids THEN Append(upTo[i - 1], entries[i]) ELSE upTo[i - 1]]

\* The loop ends, however many entries there are: the least number at which it
\* did not would be one more than one at which it does.
LEMMA LoopsChoose ==
  ASSUME NEW entries, NEW ids, NEW n \in Nat
  PROVE  \E upTo : Choosing(entries, ids, n, upTo)
<1> DEFINE bad == {k \in Nat : ~ \E upTo : Choosing(entries, ids, k, upTo)}
<1>1. SUFFICES ASSUME bad # {} PROVE FALSE
  OBVIOUS
<1>2. PICK k \in bad : \A m \in bad : k <= m
  BY <1>1, LeastOfSome
<1>3. k # 0
  <2> PICK upTo : upTo = [i \in 0..0 |-> << >>]
    OBVIOUS
  <2>1. Choosing(entries, ids, 0, upTo)
    BY DEF Choosing
  <2> QED BY <2>1, <1>2
<1>4. PICK upTo : Choosing(entries, ids, k - 1, upTo)
  BY <1>2, <1>3
<1> PICK last : last = IF entries[k].id \in ids THEN Append(upTo[k - 1], entries[k]) ELSE upTo[k - 1]
  OBVIOUS
<1> PICK more : more = [i \in 0..k |-> IF i = k THEN last ELSE upTo[i]]
  OBVIOUS
<1>5. \A i \in 0..k : more[i] = IF i = 0 THEN << >>
        ELSE IF entries[i].id \in ids THEN Append(more[i - 1], entries[i]) ELSE more[i - 1]
  <2> TAKE i \in 0..k
  <2>0. k \in Nat \ {0}
    BY <1>2, <1>3
  <2>1. CASE i = k
    BY <2>0, <2>1
  <2>2. CASE i # k
    <3>1. i \in 0..(k - 1) /\ (i # 0 => i - 1 \in 0..(k - 1))
      BY <2>0, <2>2
    <3>2. upTo[i] = IF i = 0 THEN << >>
            ELSE IF entries[i].id \in ids THEN Append(upTo[i - 1], entries[i]) ELSE upTo[i - 1]
      BY <3>1, <1>4 DEF Choosing
    <3> QED BY <3>1, <3>2, <2>0, <2>2
  <2> QED BY <2>1, <2>2
<1>6. Choosing(entries, ids, k, more)
  BY <1>5 DEF Choosing
<1> QED BY <1>6, <1>2

\* What the loop has found among the first n entries.
Found(T, entries, ids, n, chosen) ==
  /\ chosen \in Seq(T) /\ Len(chosen) <= n
  /\ \A j \in 1..Len(chosen) : \E i \in 1..n : chosen[j] = entries[i] /\ entries[i].id \in ids
  /\ \A i \in 1..n : entries[i].id \in ids => \E j \in 1..Len(chosen) : chosen[j] = entries[i]
  /\ Distinct(entries) => Distinct(chosen)
  /\ (\A i \in 1..n : entries[i].id \in ids) => Len(chosen) = n /\ \A j \in 1..n : chosen[j] = entries[j]

\* Each round of the loop looks at one entry more.
LEMMA ChoosingFinds ==
  ASSUME NEW T, NEW entries \in Seq(T), NEW ids, NEW n \in 0..Len(entries),
         NEW upTo, Choosing(entries, ids, Len(entries), upTo)
  PROVE  Found(T, entries, ids, n, upTo[n])
<1>0. Len(entries) \in Nat /\ \A i \in 1..Len(entries) : entries[i] \in T
  BY LenProperties, ElementOfSeq
<1> DEFINE bad == {k \in 0..Len(entries) : ~Found(T, entries, ids, k, upTo[k])}
<1>1. SUFFICES ASSUME bad # {} PROVE FALSE
  OBVIOUS
<1>2. PICK k \in bad : \A m \in bad : k <= m
  <2>1. bad \in SUBSET Nat
    BY <1>0
  <2> QED BY <1>1, <2>1, LeastOfSome
<1>3. k # 0
  <2>1. upTo[0] = << >>
    BY <1>0 DEF Choosing
  <2>2. << >> \in Seq(T) /\ Len(<< >>) = 0 /\ DOMAIN << >> = {}
    BY EmptySeq
  <2>3. Found(T, entries, ids, 0, << >>)
    BY <2>2 DEF Found, Distinct
  <2> QED BY <2>1, <2>3, <1>2
<1> PICK c : c = upTo[k - 1]
  OBVIOUS
<1>4. k \in 1..Len(entries) /\ k - 1 \in 0..Len(entries)
  BY <1>0, <1>2, <1>3
<1>5. Found(T, entries, ids, k - 1, c)
  BY <1>2, <1>4
<1>6. upTo[k] = IF entries[k].id \in ids THEN Append(c, entries[k]) ELSE c
  <2>1. k \in 0..Len(entries) /\ k # 0
    BY <1>0, <1>4
  <2> QED BY <2>1 DEF Choosing
<1>7. DOMAIN entries = 1..Len(entries) /\ DOMAIN c = 1..Len(c) /\ Len(c) \in Nat
  BY <1>5, LenProperties DEF Found
<1>8. CASE entries[k].id \notin ids
  <2>1. /\ c \in Seq(T) /\ Len(c) <= k - 1
        /\ \A j \in 1..Len(c) : \E i \in 1..(k - 1) : c[j] = entries[i] /\ entries[i].id \in ids
        /\ \A i \in 1..(k - 1) : entries[i].id \in ids => \E j \in 1..Len(c) : c[j] = entries[i]
        /\ Distinct(entries) => Distinct(c)
    BY <1>5 DEF Found
  <2>2. Len(c) <= k
    BY <2>1, <1>4, <1>7
  <2>3. \A j \in 1..Len(c) : \E i \in 1..k : c[j] = entries[i] /\ entries[i].id \in ids
    BY <2>1, <1>4
  <2>4. \A i \in 1..k : entries[i].id \in ids => \E j \in 1..Len(c) : c[j] = entries[i]
    <3> TAKE i \in 1..k
    <3>1. i = k \/ i \in 1..(k - 1)
      BY <1>4
    <3> QED BY <3>1, <2>1, <1>8
  <2>5. k \in 1..k
    BY <1>4
  <2>6. Found(T, entries, ids, k, c)
    BY <2>1, <2>2, <2>3, <2>4, <2>5, <1>8 DEF Found
  <2> QED BY <2>6, <1>6, <1>8, <1>2
<1>9. CASE entries[k].id \in ids
  <2> PICK d : d = Append(c, entries[k])
    OBVIOUS
  <2>1. /\ d \in Seq(T) /\ Len(d) = Len(c) + 1 /\ d[Len(c) + 1] = entries[k]
        /\ \A i \in 1..Len(c) : d[i] = c[i]
    BY <1>0, <1>4, <1>5, AppendProperties DEF Found
  <2>2. DOMAIN d = 1..(Len(c) + 1)
    BY <2>1, LenProperties
  <2>3. \A j \in 1..Len(d) : \E i \in 1..k : d[j] = entries[i] /\ entries[i].id \in ids
    <3> TAKE j \in 1..Len(d)
    <3>1. CASE j = Len(c) + 1
      BY <3>1, <2>1, <1>4, <1>9
    <3>2. CASE j \in 1..Len(c)
      BY <3>2, <2>1, <1>4, <1>5 DEF Found
    <3> QED BY <3>1, <3>2, <2>1, <1>7
  <2>4. ASSUME NEW i \in 1..k, entries[i].id \in ids
        PROVE  \E j \in 1..Len(d) : d[j] = entries[i]
    <3>1. CASE i = k
      <4>1. Len(c) + 1 \in 1..Len(d)
        BY <2>1, <1>7
      <4> QED BY <4>1, <3>1, <2>1
    <3>2. CASE i \in 1..(k - 1)
      <4>1. PICK j \in 1..Len(c) : c[j] = entries[i]
        BY <3>2, <2>4, <1>5 DEF Found
      <4>2. j \in 1..Len(d)
        BY <4>1, <2>1, <1>7
      <4>3. d[j] = entries[i]
        BY ONLY <4>1, <2>1
      <4> QED BY ONLY <4>2, <4>3
    <3> QED BY <3>1, <3>2, <1>4
  <2>5. ASSUME Distinct(entries)
        PROVE  Distinct(d)
    <3>1. Distinct(c)
      BY <2>5, <1>5 DEF Found
    <3>2. \A j \in 1..Len(c) : c[j].id # entries[k].id
      <4> TAKE j \in 1..Len(c)
      <4>1. PICK i \in 1..(k - 1) : c[j] = entries[i]
        BY <1>5 DEF Found
      <4>2. i # k /\ i \in DOMAIN entries /\ k \in DOMAIN entries
        BY <1>4, <1>7, <1>0
      <4> QED BY <4>1, <4>2, <2>5 DEF Distinct
    <3>3. ASSUME NEW i \in DOMAIN d, NEW j \in DOMAIN d, d[i].id = d[j].id
          PROVE  i = j
      <4>1. CASE i \in 1..Len(c) /\ j \in 1..Len(c)
        BY <4>1, <3>1, <3>3, <2>1, <1>7 DEF Distinct
      <4>2. CASE i = Len(c) + 1 /\ j \in 1..Len(c)
        BY <4>2, <3>2, <3>3, <2>1
      <4>3. CASE j = Len(c) + 1 /\ i \in 1..Len(c)
        BY <4>3, <3>2, <3>3, <2>1
      <4> QED BY <4>1, <4>2, <4>3, <2>2, <1>7
    <3> QED BY <3>3 DEF Distinct
  <2>6. ASSUME \A i \in 1..k : entries[i].id \in ids
        PROVE  Len(d) = k /\ \A j \in 1..k : d[j] = entries[j]
    <3>1. Len(c) = k - 1 /\ \A j \in 1..(k - 1) : c[j] = entries[j]
      BY <2>6, <1>4, <1>5 DEF Found
    <3> QED BY <3>1, <2>1, <1>4, <1>7
  <2>7. Len(d) <= k
    BY <2>1, <1>4, <1>5, <1>7 DEF Found
  <2>8. Found(T, entries, ids, k, d)
    BY <2>1, <2>3, <2>4, <2>5, <2>6, <2>7 DEF Found
  <2> QED BY <2>8, <1>6, <1>9, <1>2
<1> QED BY <1>2, <1>6, <1>8, <1>9

\* The loop is over all the entries.
LEMMA ChosenFromLoop ==
  ASSUME NEW T, NEW entries \in Seq(T), NEW ids
  PROVE  \E upTo : Choosing(entries, ids, Len(entries), upTo) /\ Chosen(entries, ids) = upTo[Len(entries)]
<1>1. \E upTo : Choosing(entries, ids, Len(entries), upTo)
  BY LoopsChoose, LenProperties
<1>2. Chosen(entries, ids) = (CHOOSE upTo : Choosing(entries, ids, Len(entries), upTo))[Len(entries)]
  BY DEF Chosen, Choosing
<1> QED BY <1>1, <1>2

\* The chosen entries are the entries with one of the ids, each of them once.
LEMMA ChosenEntries ==
  ASSUME NEW T, NEW entries \in Seq(T), NEW ids
  PROVE  LET chosen == Chosen(entries, ids) IN
         /\ chosen \in Seq(T) /\ Len(chosen) <= Len(entries)
         /\ Ids(chosen) = Ids(entries) \cap ids
         /\ Distinct(entries) => Distinct(chosen)
         /\ Ids(entries) \subseteq ids => chosen = entries
<1>1. PICK upTo : Choosing(entries, ids, Len(entries), upTo) /\ Chosen(entries, ids) = upTo[Len(entries)]
  BY ChosenFromLoop
<1> PICK c : c = upTo[Len(entries)]
  OBVIOUS
<1>2. Len(entries) \in Nat /\ DOMAIN entries = 1..Len(entries)
  BY LenProperties
<1>3. Found(T, entries, ids, Len(entries), c)
  BY <1>1, <1>2, ChoosingFinds
<1>4. DOMAIN c = 1..Len(c)
  BY <1>3, LenProperties DEF Found
<1>5. Ids(c) = Ids(entries) \cap ids
  <2>1. Ids(c) \subseteq Ids(entries) \cap ids
    <3>1. ASSUME NEW j \in 1..Len(c)
          PROVE  c[j].id \in {entries[i].id : i \in DOMAIN entries} \cap ids
      BY <3>1, <1>2, <1>3 DEF Found
    <3> QED BY <3>1, <1>4 DEF Ids
  <2>2. ASSUME NEW i \in DOMAIN entries, entries[i].id \in ids
        PROVE  entries[i].id \in Ids(c)
    BY <2>2, <1>2, <1>3, <1>4 DEF Ids, Found
  <2> QED BY <2>1, <2>2 DEF Ids
<1>6. ASSUME Ids(entries) \subseteq ids
      PROVE  c = entries
  <2>1. \A i \in 1..Len(entries) : entries[i].id \in ids
    BY <1>2, <1>6 DEF Ids
  <2> QED BY <2>1, <1>3, SeqEqual DEF Found
<1>7. /\ c \in Seq(T) /\ Len(c) <= Len(entries)
      /\ Distinct(entries) => Distinct(c)
  BY <1>3 DEF Found
<1> QED BY <1>1, <1>5, <1>6, <1>7

-----------------------------------------------------------------------------
(* A record, and what a verb makes of it. *)

\* The fields of every record.
Fields ==
  {"rev", "acc", "status", "from", "body", "priority", "kind", "criteria", "deps", "gates", "class",
   "effects", "supersedes", "source", "holds", "approvals", "completion"}

\* A function of the fields of a record, each of its own type, by these actors.
Shape(who, r) ==
  /\ DOMAIN r = Fields /\ r = [k \in Fields |-> r[k]]
  /\ r.rev \in 1..MaxCount /\ r.acc \in 1..MaxCount
  /\ r.status \in Statuses /\ r.from \in (Statuses \ {"ARCHIVED"}) \cup {"null"}
  /\ (r.status = "ARCHIVED") <=> (r.from # "null")
  /\ r.body \in Bodies /\ r.priority \in Priorities /\ r.kind \in Kinds /\ r.criteria \in SUBSET Criteria
  /\ r.deps \in Seq(Edge) /\ r.gates \in SUBSET Gates /\ r.class \in Classes /\ r.effects \in EffectSets
  /\ r.supersedes \in Token \cup {NoTicket} /\ r.source \in {"NATIVE", "IMPORT"}
  /\ r.holds \in Seq([id : HoldIds, by : who])
  /\ r.approvals \in Seq([id : GrantIds, by : who, grants : ApprovalOps, target : 1..MaxCount, revoked : BOOLEAN])
  /\ r.completion \in who \cup {"null"}

\* What the bindings' actors made is a record of the type.
LEMMA ShapedRecords ==
  ASSUME NEW r, Shape(Actors, r)
  PROVE  r \in Record
<1>1. r = [k \in Fields |-> r[k]]
  BY DEF Shape
<1>2. /\ r.rev \in 1..MaxCount /\ r.acc \in 1..MaxCount
      /\ r.status \in Statuses /\ r.from \in (Statuses \ {"ARCHIVED"}) \cup {"null"}
      /\ r.body \in Bodies /\ r.priority \in Priorities /\ r.kind \in Kinds /\ r.criteria \in SUBSET Criteria
      /\ r.deps \in Seq(Edge) /\ r.gates \in SUBSET Gates /\ r.class \in Classes /\ r.effects \in EffectSets
      /\ r.supersedes \in Token \cup {NoTicket} /\ r.source \in {"NATIVE", "IMPORT"}
      /\ r.holds \in Seq(Hold) /\ r.approvals \in Seq(Approval) /\ r.completion \in Actors \cup {"null"}
  BY DEF Shape, Hold, Approval
<1> QED BY <1>1, <1>2 DEF Record, Fields

\* The fields a payload may carry, each of its own type.
SetFields == {"body", "priority", "kind", "criteria", "deps", "gates", "class", "effects", "supersedes"}
Fits(set) ==
  /\ DOMAIN set \subseteq SetFields
  /\ "body" \in DOMAIN set => set.body \in Bodies
  /\ "priority" \in DOMAIN set => set.priority \in Priorities
  /\ "kind" \in DOMAIN set => set.kind \in Kinds
  /\ "criteria" \in DOMAIN set => set.criteria \in SUBSET Criteria
  /\ "deps" \in DOMAIN set => set.deps \in Seq(Edge)
  /\ "gates" \in DOMAIN set => set.gates \in SUBSET Gates
  /\ "class" \in DOMAIN set => set.class \in Classes
  /\ "effects" \in DOMAIN set => set.effects \in EffectSets
  /\ "supersedes" \in DOMAIN set => set.supersedes \in Token \cup {NoTicket}

\* The payload of a verb: fields to set, a hold to place or to lift, an approval.
\* Only a REFINE sets what opens a DRAFT.
Assigning == {"REFINE", "PRIORITIZE", "SET_DEPENDENCIES", "SET_GATES", "SET_EFFECTS"}
Payload(m) ==
  \/ /\ m.op \in Assigning /\ Fits(m.set)
     /\ m.op = "REFINE" \/ DOMAIN m.set \cap {"kind", "criteria"} = {}
  \/ m.op \in {"HOLD", "RELEASE_HOLD"} /\ m.id \in HoldIds
  \/ m.op \in {"REOPEN", "ARCHIVE", "RESTORE", "COMPLETE_MANUAL"}
  \/ m \in Grants
  \/ m.op = "REVOKE_APPROVAL"

\* What a payload's fields make of a record.
LEMMA OverlayShape ==
  ASSUME NEW A, NEW r, Shape(A, r), NEW set, Fits(set)
  PROVE  Shape(A, Overlay(set, r)) /\ \A k \in Fields \ SetFields : Overlay(set, r)[k] = r[k]
<1> PICK new : new = Overlay(set, r)
  OBVIOUS
<1>1. DOMAIN r = Fields /\ DOMAIN set \subseteq Fields
  BY DEF Shape, Fits, Fields, SetFields
<1>2. DOMAIN new = Fields /\ new = [k \in Fields |-> new[k]]
      /\ \A k \in Fields : new[k] = IF k \in DOMAIN set THEN set[k] ELSE r[k]
  BY <1>1 DEF Overlay
<1>3. \A k \in Fields \ SetFields : new[k] = r[k]
  BY <1>2 DEF Fits
<1>4. /\ new.rev = r.rev /\ new.acc = r.acc /\ new.status = r.status /\ new.from = r.from /\ new.source = r.source
      /\ new.holds = r.holds /\ new.approvals = r.approvals /\ new.completion = r.completion
  BY <1>3 DEF Fields, SetFields
<1>5. /\ new.body \in Bodies /\ new.priority \in Priorities /\ new.kind \in Kinds /\ new.criteria \in SUBSET Criteria
      /\ new.deps \in Seq(Edge)
  BY <1>2 DEF Fields, Fits, Shape
<1>6. /\ new.gates \in SUBSET Gates /\ new.class \in Classes /\ new.effects \in EffectSets
      /\ new.supersedes \in Token \cup {NoTicket}
  BY <1>2 DEF Fields, Fits, Shape
<1>7. Shape(A, new)
  BY <1>2, <1>4, <1>5, <1>6 DEF Shape
<1> QED BY <1>3, <1>7

\* Leaving DRAFT changes the status and no more.
LEMMA OpenedShape ==
  ASSUME NEW A, NEW r, Shape(A, r)
  PROVE  /\ Shape(A, Opened(r))
         /\ \A k \in Fields \ {"status"} : Opened(r)[k] = r[k]
         /\ Opened(r).status = IF r.status = "DRAFT" /\ Opens(r) THEN "OPEN" ELSE r.status
<1> PICK new : new = [r EXCEPT !.status = "OPEN"]
  OBVIOUS
<1>1. /\ DOMAIN new = Fields /\ new = [k \in Fields |-> new[k]] /\ new.status = "OPEN"
      /\ \A k \in Fields \ {"status"} : new[k] = r[k]
  BY DEF Shape, Fields
<1>2. r.status = "DRAFT" => Shape(A, new)
  BY <1>1 DEF Shape, Fields, Statuses
<1>3. Opened(r) = IF r.status = "DRAFT" /\ Opens(r) THEN new ELSE r
  BY DEF Opened
<1> QED BY <1>1, <1>2, <1>3

\* new is a record like r but for these fields.
Alters(r, new, fields) ==
  DOMAIN new = Fields /\ new = [k \in Fields |-> new[k]] /\ \A k \in Fields \ fields : new[k] = r[k]

\* What a grant appends, and what a revocation makes of the list.
Granted(who, m) == [id |-> m.id, by |-> who, grants |-> m.grants, target |-> m.target, revoked |-> FALSE]
Revoked(approvals, id) ==
  [i \in DOMAIN approvals |->
     IF approvals[i].id = id THEN [approvals[i] EXCEPT !.revoked = TRUE] ELSE approvals[i]]

\* What HOLD, RELEASE_HOLD, GRANT_APPROVAL and REVOKE_APPROVAL do.
Places(who, r, m, new) ==
  /\ Alters(r, new, {"holds", "status"}) /\ new.status = "HELD"
  /\ new.holds = Append(r.holds, [id |-> m.id, by |-> who])
Releases(r, m, new) ==
  /\ Alters(r, new, {"holds", "status"}) /\ new.holds = Chosen(r.holds, Ids(r.holds) \ {m.id})
  /\ new.status = IF new.holds = << >> THEN "OPEN" ELSE "HELD"
Approves(who, r, m, new) ==
  Alters(r, new, {"approvals"}) /\ new.approvals = Append(r.approvals, Granted(who, m))
Withdraws(r, m, new) ==
  Alters(r, new, {"approvals"}) /\ new.approvals = Revoked(r.approvals, m.id)

\* What each verb writes, field by field.
LEMMA HoldEffect ==
  ASSUME NEW A, NEW who, NEW r, Shape(A, r), NEW m, m.op = "HOLD", NEW new, new = Effect(who, r, m)
  PROVE  Places(who, r, m, new)
<1> PICK holds : holds = Append(r.holds, [id |-> m.id, by |-> who])
  OBVIOUS
<1>1. new = [r EXCEPT !.holds = holds, !.status = "HELD"]
  BY DEF Effect
<1>2. Alters(r, new, {"holds", "status"}) /\ new.status = "HELD" /\ new.holds = holds
  BY <1>1 DEF Shape, Alters, Fields
<1> QED BY <1>2 DEF Places

\* The holds but the one released; the last of them takes HELD with it.
LEMMA ReleaseEffect ==
  ASSUME NEW A, NEW who, NEW r, Shape(A, r), NEW m, m.op = "RELEASE_HOLD", NEW new, new = Effect(who, r, m)
  PROVE  Releases(r, m, new)
<1> PICK rest : rest = Chosen(r.holds, Ids(r.holds) \ {m.id})
  OBVIOUS
<1> PICK status : status = IF rest = << >> THEN "OPEN" ELSE "HELD"
  OBVIOUS
<1>1. new = [r EXCEPT !.holds = rest, !.status = status]
  BY DEF Effect, Released
<1>2. Alters(r, new, {"holds", "status"}) /\ new.holds = rest /\ new.status = status
  BY <1>1 DEF Shape, Alters, Fields
<1> QED BY <1>2 DEF Releases

\* REOPEN takes the completion back.
LEMMA ReopenEffect ==
  ASSUME NEW A, NEW who, NEW r, Shape(A, r), NEW m, m.op = "REOPEN", NEW new, new = Effect(who, r, m)
  PROVE  Alters(r, new, {"completion", "status"}) /\ new.completion = "null" /\ new.status = "OPEN"
<1>1. new = [r EXCEPT !.completion = "null", !.status = "OPEN"]
  BY DEF Effect
<1>2. Alters(r, new, {"completion", "status"}) /\ new.completion = "null" /\ new.status = "OPEN"
  BY <1>1 DEF Shape, Alters, Fields
<1> QED BY <1>2

\* ARCHIVE keeps the status it archives.
LEMMA ArchiveEffect ==
  ASSUME NEW A, NEW who, NEW r, Shape(A, r), NEW m, m.op = "ARCHIVE", NEW new, new = Effect(who, r, m)
  PROVE  Alters(r, new, {"from", "status"}) /\ new.from = r.status /\ new.status = "ARCHIVED"
<1> PICK from : from = r.status
  OBVIOUS
<1>1. new = [r EXCEPT !.from = from, !.status = "ARCHIVED"]
  BY DEF Effect
<1>2. Alters(r, new, {"from", "status"}) /\ new.from = from /\ new.status = "ARCHIVED"
  BY <1>1 DEF Shape, Alters, Fields
<1> QED BY <1>2

\* RESTORE puts it back.
LEMMA RestoreEffect ==
  ASSUME NEW A, NEW who, NEW r, Shape(A, r), NEW m, m.op = "RESTORE", NEW new, new = Effect(who, r, m)
  PROVE  Alters(r, new, {"from", "status"}) /\ new.from = "null" /\ new.status = r.from
<1> PICK status : status = r.from
  OBVIOUS
<1>1. new = [r EXCEPT !.status = status, !.from = "null"]
  BY DEF Effect
<1>2. Alters(r, new, {"from", "status"}) /\ new.from = "null" /\ new.status = status
  BY <1>1 DEF Shape, Alters, Fields
<1> QED BY <1>2

\* COMPLETE_MANUAL names who completed.
LEMMA CompleteEffect ==
  ASSUME NEW A, NEW who, NEW r, Shape(A, r), NEW m, m.op = "COMPLETE_MANUAL", NEW new, new = Effect(who, r, m)
  PROVE  Alters(r, new, {"completion", "status"}) /\ new.completion = who /\ new.status = "COMPLETED"
<1>1. new = [r EXCEPT !.completion = who, !.status = "COMPLETED"]
  BY DEF Effect
<1>2. Alters(r, new, {"completion", "status"}) /\ new.completion = who /\ new.status = "COMPLETED"
  BY <1>1 DEF Shape, Alters, Fields
<1> QED BY <1>2

\* GRANT_APPROVAL appends.
LEMMA GrantEffect ==
  ASSUME NEW A, NEW who, NEW r, Shape(A, r), NEW m, m.op = "GRANT_APPROVAL", NEW new, new = Effect(who, r, m)
  PROVE  Approves(who, r, m, new)
<1> PICK approvals : approvals = Append(r.approvals, Granted(who, m))
  OBVIOUS
<1>1. new = [r EXCEPT !.approvals = approvals]
  BY DEF Effect, Granted
<1>2. Alters(r, new, {"approvals"}) /\ new.approvals = approvals
  BY <1>1 DEF Shape, Alters, Fields
<1> QED BY <1>2 DEF Approves

\* REVOKE_APPROVAL marks.
LEMMA RevokeEffect ==
  ASSUME NEW A, NEW who, NEW r, Shape(A, r), NEW m, m.op = "REVOKE_APPROVAL", NEW new, new = Effect(who, r, m)
  PROVE  Withdraws(r, m, new)
<1> PICK approvals : approvals = Revoked(r.approvals, m.id)
  OBVIOUS
<1>1. new = [r EXCEPT !.approvals = approvals]
  BY DEF Effect, Revoked
<1>2. Alters(r, new, {"approvals"}) /\ new.approvals = approvals
  BY <1>1 DEF Shape, Alters, Fields
<1> QED BY <1>2 DEF Withdraws

\* A function of an initial segment is a sequence.
LEMMA FunctionIsSeq ==
  ASSUME NEW T, NEW n \in Nat, NEW s \in [1..n -> T]
  PROVE  s \in Seq(T)
BY SeqDef

\* What the fields a verb does not write were, they are.
LEMMA Restated ==
  ASSUME NEW A, NEW r, Shape(A, r), NEW new, Alters(r, new, {"from", "completion", "status"}),
         new.status \in Statuses, new.from \in (Statuses \ {"ARCHIVED"}) \cup {"null"},
         (new.status = "ARCHIVED") <=> (new.from # "null"), new.completion \in A \cup {"null"}
  PROVE  Shape(A, new)
<1>1. DOMAIN new = Fields /\ new = [k \in Fields |-> new[k]]
  BY DEF Alters
<1>2. /\ new.rev = r.rev /\ new.acc = r.acc /\ new.body = r.body /\ new.priority = r.priority /\ new.kind = r.kind
      /\ new.criteria = r.criteria /\ new.deps = r.deps /\ new.gates = r.gates /\ new.class = r.class
      /\ new.effects = r.effects /\ new.supersedes = r.supersedes /\ new.source = r.source
      /\ new.holds = r.holds /\ new.approvals = r.approvals
  BY DEF Alters, Fields
<1> QED BY <1>1, <1>2 DEF Shape

\* What a record's status allows makes a record of it.
LEMMA EffectShape ==
  ASSUME NEW A, NEW who \in A, NEW r, Shape(A, r), NEW m, Payload(m), StatusAllows(r, m)
  PROVE  Shape(A, Effect(who, r, m))
<1> PICK new : new = Effect(who, r, m)
  OBVIOUS
<1>1. Effect(who, r, m) = new /\ StatusAllows(r, m)
  OBVIOUS
<1>2. r.status = "ARCHIVED" => m.op = "RESTORE"
  BY <1>1 DEF StatusAllows
<1>3. CASE m.op \in Assigning
  <2>1. Fits(m.set)
    BY <1>3 DEF Payload, Assigning, Grants
  <2>2. Shape(A, Overlay(m.set, r))
    BY <2>1, OverlayShape
  <2>3. Shape(A, Opened(Overlay(m.set, r)))
    BY <2>2, OpenedShape
  <2>4. new \in {Overlay(m.set, r), Opened(Overlay(m.set, r))}
    BY <1>3 DEF Effect, Assigning
  <2> QED BY <1>1, <2>2, <2>3, <2>4
<1>4. CASE m.op = "HOLD"
  <2>1. /\ Alters(r, new, {"holds", "status"})
        /\ new.holds = Append(r.holds, [id |-> m.id, by |-> who]) /\ new.status = "HELD"
    <3>1. Places(who, r, m, new)
      BY <1>4, HoldEffect
    <3> QED BY <3>1 DEF Places
  <2>2. [id |-> m.id, by |-> who] \in [id : HoldIds, by : A]
    BY <1>4 DEF Payload, Grants, Assigning
  <2>3. r.holds \in Seq([id : HoldIds, by : A]) /\ r.status # "ARCHIVED"
    BY <1>2, <1>4 DEF Shape
  <2>4. new.holds \in Seq([id : HoldIds, by : A])
    BY <2>1, <2>2, <2>3, AppendProperties
  <2>5. Shape(A, new)
    BY <2>1, <2>3, <2>4 DEF Shape, Alters, Fields, Statuses
  <2> QED BY <1>1, <2>5
<1>5. CASE m.op = "RELEASE_HOLD"
  <2>1. /\ Alters(r, new, {"holds", "status"})
        /\ new.holds = Chosen(r.holds, Ids(r.holds) \ {m.id})
        /\ new.status = IF new.holds = << >> THEN "OPEN" ELSE "HELD"
    <3>1. Releases(r, m, new)
      BY <1>5, ReleaseEffect
    <3> QED BY <3>1 DEF Releases
  <2>2. r.holds \in Seq([id : HoldIds, by : A]) /\ r.status # "ARCHIVED"
    BY <1>2, <1>5 DEF Shape
  <2>3. new.holds \in Seq([id : HoldIds, by : A])
    BY <2>1, <2>2, ChosenEntries
  <2>4. Shape(A, new)
    BY <2>1, <2>2, <2>3 DEF Shape, Alters, Fields, Statuses
  <2> QED BY <1>1, <2>4
<1>6. CASE m.op = "REOPEN"
  <2>1. Alters(r, new, {"completion", "status"}) /\ new.completion = "null" /\ new.status = "OPEN"
    BY <1>6, ReopenEffect
  <2>2. Alters(r, new, {"from", "completion", "status"}) /\ new.from = "null"
    BY <1>2, <1>6, <2>1 DEF Shape, Alters, Fields
  <2>3. Shape(A, new)
    BY <2>1, <2>2, Restated DEF Statuses
  <2> QED BY <1>1, <2>3
<1>7. CASE m.op = "ARCHIVE"
  <2>1. Alters(r, new, {"from", "status"}) /\ new.from = r.status /\ new.status = "ARCHIVED"
    BY <1>7, ArchiveEffect
  <2>2. Alters(r, new, {"from", "completion", "status"}) /\ new.completion = r.completion
    BY <2>1 DEF Alters, Fields
  <2>3. r.completion \in A \cup {"null"} /\ r.status \in Statuses \ {"ARCHIVED"}
    BY <1>2, <1>7 DEF Shape
  <2>4. Shape(A, new)
    BY <2>1, <2>2, <2>3, Restated DEF Statuses
  <2> QED BY <1>1, <2>4
<1>8. CASE m.op = "RESTORE"
  <2>1. Alters(r, new, {"from", "status"}) /\ new.from = "null" /\ new.status = r.from
    BY <1>8, RestoreEffect
  <2>2. r.status = "ARCHIVED"
    BY <1>1, <1>8 DEF StatusAllows
  <2>3. r.from \in Statuses \ {"ARCHIVED"}
    BY <2>2 DEF Shape
  <2>4. Alters(r, new, {"from", "completion", "status"}) /\ new.completion = r.completion
    BY <2>1 DEF Alters, Fields
  <2>5. r.completion \in A \cup {"null"}
    BY DEF Shape
  <2>6. Shape(A, new)
    BY <2>1, <2>3, <2>4, <2>5, Restated DEF Statuses
  <2> QED BY <1>1, <2>6
<1>9. CASE m.op = "COMPLETE_MANUAL"
  <2>1. Alters(r, new, {"completion", "status"}) /\ new.completion = who /\ new.status = "COMPLETED"
    BY <1>9, CompleteEffect
  <2>2. Alters(r, new, {"from", "completion", "status"}) /\ new.from = "null"
    BY <1>2, <1>9, <2>1 DEF Shape, Alters, Fields
  <2>3. Shape(A, new)
    BY <2>1, <2>2, Restated DEF Statuses
  <2> QED BY <1>1, <2>3
<1> PICK Grant : Grant = [id : GrantIds, by : A, grants : ApprovalOps, target : 1..MaxCount, revoked : BOOLEAN]
  OBVIOUS
<1>10. r.approvals \in Seq(Grant)
  BY DEF Shape
<1>11. ASSUME Alters(r, new, {"approvals"}), new.approvals \in Seq(Grant)
       PROVE  Shape(A, new)
  <2>1. DOMAIN new = Fields /\ new = [k \in Fields |-> new[k]]
    BY <1>11 DEF Alters
  <2>2. /\ new.rev = r.rev /\ new.acc = r.acc /\ new.status = r.status /\ new.from = r.from /\ new.body = r.body
        /\ new.priority = r.priority /\ new.kind = r.kind /\ new.criteria = r.criteria /\ new.deps = r.deps
        /\ new.gates = r.gates /\ new.class = r.class /\ new.effects = r.effects
        /\ new.supersedes = r.supersedes /\ new.source = r.source /\ new.holds = r.holds
        /\ new.completion = r.completion
    BY <1>11 DEF Alters, Fields
  <2> QED BY <1>11, <2>1, <2>2 DEF Shape
<1>12. CASE m.op = "GRANT_APPROVAL"
  <2>1. Alters(r, new, {"approvals"}) /\ new.approvals = Append(r.approvals, Granted(who, m))
    <3>1. Approves(who, r, m, new)
      BY <1>12, GrantEffect
    <3> QED BY <3>1 DEF Approves
  <2>2. m \in Grants
    BY <1>12 DEF Payload, Assigning
  <2>3. Granted(who, m) \in Grant
    BY <2>2 DEF Granted, Grants
  <2>4. new.approvals \in Seq(Grant)
    BY <1>10, <2>1, <2>3, AppendProperties
  <2> QED BY <1>1, <1>11, <2>1, <2>4
<1>13. CASE m.op = "REVOKE_APPROVAL"
  <2>1. Alters(r, new, {"approvals"}) /\ new.approvals = Revoked(r.approvals, m.id)
    <3>1. Withdraws(r, m, new)
      BY <1>13, RevokeEffect
    <3> QED BY <3>1 DEF Withdraws
  <2> PICK n : n = Len(r.approvals)
    OBVIOUS
  <2>2. n \in Nat /\ DOMAIN r.approvals = 1..n /\ \A i \in 1..n : r.approvals[i] \in Grant
    BY <1>10, LenProperties, ElementOfSeq
  <2>3. \A e \in Grant : [e EXCEPT !.revoked = TRUE] \in Grant
    OBVIOUS
  <2>4. new.approvals \in [1..n -> Grant]
    <3>1. new.approvals = [i \in 1..n |-> IF r.approvals[i].id = m.id
                                        THEN [r.approvals[i] EXCEPT !.revoked = TRUE] ELSE r.approvals[i]]
      BY <2>1, <2>2 DEF Revoked
    <3>2. ASSUME NEW i \in 1..n
          PROVE  new.approvals[i] \in Grant
      <4> PICK e : e = r.approvals[i]
        OBVIOUS
      <4>1. e \in Grant /\ [e EXCEPT !.revoked = TRUE] \in Grant
        BY <2>2, <2>3
      <4>2. new.approvals[i] = IF e.id = m.id THEN [e EXCEPT !.revoked = TRUE] ELSE e
        BY <3>1
      <4> QED BY <4>1, <4>2
    <3> PICK approvals : approvals = new.approvals
      OBVIOUS
    <3>3. DOMAIN approvals = 1..n /\ approvals = [i \in 1..n |-> approvals[i]]
      BY <3>1
    <3>4. approvals \in [1..n -> Grant]
      <4>1. \A i \in 1..n : approvals[i] \in Grant
        BY <3>2
      <4> QED BY ONLY <3>3, <4>1
    <3> QED BY <3>4
  <2>5. new.approvals \in Seq(Grant)
    BY <2>2, <2>4, FunctionIsSeq
  <2> QED BY <1>1, <1>11, <2>1, <2>5
<1> QED BY <1>3, <1>4, <1>5, <1>6, <1>7, <1>8, <1>9, <1>12, <1>13 DEF Payload, Grants

\* A step that is not refused is such an effect.
LEMMA StepShape ==
  ASSUME NEW A, NEW who \in A, NEW r, Shape(A, r), NEW m, Payload(m), Step(who, r, m) # Refused
  PROVE  Shape(A, Step(who, r, m))
<1>1. Step(who, r, m) = Effect(who, r, m) /\ StatusAllows(r, m)
  BY DEF Step
<1>2. Shape(A, Effect(who, r, m))
  BY <1>1, EffectShape
<1> QED BY <1>1, <1>2

\* The part of the validator that is about a record alone: its status and the
\* lists it stands for.
Settled(r) ==
  /\ (Effective(r) = "HELD") <=> (r.holds # << >>)
  /\ (Effective(r) = "COMPLETED") <=> (r.completion # "null")
  /\ Distinct(r.holds) /\ Len(r.holds) <= MaxHolds
  /\ Distinct(r.approvals) /\ Len(r.approvals) <= MaxApprovals

\* An entry with an id of its own keeps the ids apart.
LEMMA AppendDistinct ==
  ASSUME NEW T, NEW entries \in Seq(T), Distinct(entries), NEW e \in T, e.id \notin Ids(entries)
  PROVE  Distinct(Append(entries, e))
<1> PICK n : n = Len(entries)
  OBVIOUS
<1> PICK more : more = Append(entries, e)
  OBVIOUS
<1>1. n \in Nat /\ DOMAIN entries = 1..n
  BY LenProperties
<1>2. more \in Seq(T) /\ Len(more) = n + 1 /\ more[n + 1] = e /\ \A i \in 1..n : more[i] = entries[i]
  BY AppendProperties
<1>3. DOMAIN more = 1..(n + 1)
  BY <1>2, LenProperties
<1>4. \A i \in 1..n : more[i].id # e.id
  BY <1>1, <1>2 DEF Ids
<1>5. ASSUME NEW i \in DOMAIN more, NEW j \in DOMAIN more, more[i].id = more[j].id
      PROVE  i = j
  <2>1. CASE i \in 1..n /\ j \in 1..n
    BY <1>1, <1>2, <1>5, <2>1 DEF Distinct
  <2>2. CASE i = n + 1 /\ j \in 1..n
    BY <1>2, <1>4, <1>5, <2>2
  <2>3. CASE j = n + 1 /\ i \in 1..n
    BY <1>2, <1>4, <1>5, <2>3
  <2> QED BY <1>1, <1>3, <2>1, <2>2, <2>3
<1> QED BY <1>5 DEF Distinct

\* A revocation keeps the list and its ids.
LEMMA RevokedList ==
  ASSUME NEW A, NEW r, Shape(A, r), NEW id
  PROVE  /\ DOMAIN Revoked(r.approvals, id) = DOMAIN r.approvals
         /\ \A i \in DOMAIN r.approvals : Revoked(r.approvals, id)[i].id = r.approvals[i].id
<1> PICK Grant : Grant = [id : GrantIds, by : A, grants : ApprovalOps, target : 1..MaxCount, revoked : BOOLEAN]
  OBVIOUS
<1> PICK n : n = Len(r.approvals)
  OBVIOUS
<1>1. r.approvals \in Seq(Grant)
  BY DEF Shape
<1>2. DOMAIN r.approvals = 1..n /\ \A i \in 1..n : r.approvals[i] \in Grant
  BY <1>1, LenProperties, ElementOfSeq
<1>3. \A e \in Grant : [e EXCEPT !.revoked = TRUE].id = e.id
  OBVIOUS
<1>4. ASSUME NEW i \in 1..n
      PROVE  Revoked(r.approvals, id)[i].id = r.approvals[i].id
  <2> PICK e : e = r.approvals[i]
    OBVIOUS
  <2>1. Revoked(r.approvals, id)[i] = IF e.id = id THEN [e EXCEPT !.revoked = TRUE] ELSE e
    BY <1>2 DEF Revoked
  <2>2. e \in Grant
    BY <1>2
  <2> QED BY <2>1, <2>2, <1>3
<1>5. DOMAIN Revoked(r.approvals, id) = DOMAIN r.approvals
  BY DEF Revoked
<1> QED BY <1>2, <1>4, <1>5

\* The step rules keep a record's status and its lists together.
LEMMA StepSettles ==
  ASSUME NEW A, NEW who \in A, who # "null", NEW r, Shape(A, r), Settled(r),
         NEW m, Payload(m), Step(who, r, m) # Refused
  PROVE  Settled(Step(who, r, m))
<1> PICK new : new = Effect(who, r, m)
  OBVIOUS
<1>1. Step(who, r, m) = new /\ StatusAllows(r, m)
  BY DEF Step
<1>2. r.status = "ARCHIVED" => m.op = "RESTORE"
  BY <1>1 DEF StatusAllows
<1>3. CASE m.op \in Assigning
  <2>1. Fits(m.set)
    BY <1>3 DEF Payload, Assigning, Grants
  <2> PICK set : set = Overlay(m.set, r)
    OBVIOUS
  <2>2. Shape(A, set) /\ \A k \in Fields \ SetFields : set[k] = r[k]
    BY <2>1, OverlayShape
  <2>3. /\ set.status = r.status /\ set.from = r.from /\ set.holds = r.holds /\ set.approvals = r.approvals
        /\ set.completion = r.completion
    BY <2>2 DEF Fields, SetFields
  <2> PICK opened : opened = Opened(set)
    OBVIOUS
  <2>4. /\ \A k \in Fields \ {"status"} : opened[k] = set[k]
        /\ opened.status = IF set.status = "DRAFT" /\ Opens(set) THEN "OPEN" ELSE set.status
    BY <2>2, OpenedShape
  <2>5. /\ opened.from = r.from /\ opened.holds = r.holds /\ opened.approvals = r.approvals
        /\ opened.completion = r.completion
        /\ opened.status = r.status \/ (r.status = "DRAFT" /\ opened.status = "OPEN")
    <3>1. opened.status = set.status \/ (set.status = "DRAFT" /\ opened.status = "OPEN")
      BY <2>4
    <3>2. /\ opened.from = set.from /\ opened.holds = set.holds /\ opened.approvals = set.approvals
          /\ opened.completion = set.completion
      BY <2>4 DEF Fields
    <3> QED BY <3>1, <3>2, <2>3
  <2>6. r.status = "DRAFT" => r.from = "null"
    BY DEF Shape
  <2>7. Settled(set) /\ Settled(opened)
    BY <2>3, <2>5, <2>6 DEF Settled, Effective
  <2>8. new \in {set, opened}
    BY <1>3 DEF Effect, Assigning
  <2> QED BY <1>1, <2>7, <2>8
<1>4. CASE m.op = "HOLD"
  <2>1. Places(who, r, m, new)
    BY <1>4, HoldEffect
  <2>2. /\ Alters(r, new, {"holds", "status"}) /\ new.status = "HELD"
        /\ new.holds = Append(r.holds, [id |-> m.id, by |-> who])
    BY <2>1 DEF Places
  <2> PICK h : h = [id |-> m.id, by |-> who]
    OBVIOUS
  <2>3. m.id \notin Ids(r.holds) /\ Len(r.holds) < MaxHolds /\ r.status \in {"OPEN", "HELD"}
    BY <1>1, <1>4 DEF StatusAllows
  <2> PICK S : S = [id : HoldIds, by : A]
    OBVIOUS
  <2> PICK holds : holds = r.holds
    OBVIOUS
  <2>4. h \in S /\ h.id = m.id
    BY <1>4 DEF Payload, Grants, Assigning
  <2>5. holds \in Seq(S) /\ Distinct(holds)
    BY DEF Shape, Settled
  <2> PICK more : more = Append(holds, h)
    OBVIOUS
  <2>6. Distinct(more) /\ new.holds = more
    <3>1. h.id \notin Ids(holds)
      BY <2>3, <2>4
    <3>2. Distinct(Append(holds, h))
      BY ONLY <2>4, <2>5, <3>1, AppendDistinct
    <3> QED BY <2>2, <3>2
  <2>7. new.holds # << >> /\ Len(new.holds) <= MaxHolds
    <3>1. more # << >> /\ Len(more) = Len(holds) + 1
      BY <2>4, <2>5, AppendProperties
    <3>2. Len(holds) \in Nat /\ MaxHolds \in Nat
      BY <2>5, LenProperties, TicketAssumption
    <3> QED BY <3>1, <3>2, <2>3, <2>6
  <2>8. new.from = "null" /\ new.completion = r.completion /\ new.approvals = r.approvals
    BY <2>2, <2>3 DEF Alters, Fields, Shape
  <2>9. r.from = "null"
    BY <2>3 DEF Shape
  <2> QED BY <1>1, <2>2, <2>3, <2>6, <2>7, <2>8, <2>9 DEF Settled, Effective
<1>5. CASE m.op = "RELEASE_HOLD"
  <2>1. Releases(r, m, new)
    BY <1>5, ReleaseEffect
  <2>2. /\ Alters(r, new, {"holds", "status"})
        /\ new.holds = Chosen(r.holds, Ids(r.holds) \ {m.id})
        /\ new.status = IF new.holds = << >> THEN "OPEN" ELSE "HELD"
    BY <2>1 DEF Releases
  <2>3. r.holds \in Seq([id : HoldIds, by : A]) /\ Distinct(r.holds) /\ Len(r.holds) <= MaxHolds
    BY DEF Shape, Settled
  <2>4. Distinct(new.holds) /\ Len(new.holds) <= Len(r.holds) /\ new.holds \in Seq([id : HoldIds, by : A])
    BY <2>2, <2>3, ChosenEntries
  <2>5. Len(new.holds) <= MaxHolds
    BY <2>3, <2>4, LenProperties, TicketAssumption
  <2>6. r.status = "HELD" /\ r.from = "null"
    BY <1>1, <1>5 DEF StatusAllows, Shape
  <2>7. new.from = "null" /\ new.completion = r.completion /\ new.approvals = r.approvals
    BY <2>2, <2>6 DEF Alters, Fields
  <2> QED BY <1>1, <2>2, <2>4, <2>5, <2>6, <2>7 DEF Settled, Effective
<1>6. CASE m.op = "REOPEN"
  <2>1. Alters(r, new, {"completion", "status"}) /\ new.completion = "null" /\ new.status = "OPEN"
    BY <1>6, ReopenEffect
  <2>2. r.status = "COMPLETED" /\ r.from = "null"
    BY <1>1, <1>6 DEF StatusAllows, Shape
  <2>3. new.from = "null" /\ new.holds = r.holds /\ new.approvals = r.approvals
    BY <2>1, <2>2 DEF Alters, Fields
  <2> QED BY <1>1, <2>1, <2>2, <2>3 DEF Settled, Effective
<1>7. CASE m.op = "ARCHIVE"
  <2>1. Alters(r, new, {"from", "status"}) /\ new.from = r.status /\ new.status = "ARCHIVED"
    BY <1>7, ArchiveEffect
  <2>2. new.completion = r.completion /\ new.holds = r.holds /\ new.approvals = r.approvals
    BY <2>1 DEF Alters, Fields
  <2>3. Effective(new) = Effective(r)
    BY <1>2, <1>7, <2>1 DEF Effective, Shape, Statuses
  <2> QED BY <1>1, <2>2, <2>3 DEF Settled
<1>8. CASE m.op = "RESTORE"
  <2>1. Alters(r, new, {"from", "status"}) /\ new.from = "null" /\ new.status = r.from
    BY <1>8, RestoreEffect
  <2>2. new.completion = r.completion /\ new.holds = r.holds /\ new.approvals = r.approvals
    BY <2>1 DEF Alters, Fields
  <2>3. r.status = "ARCHIVED" /\ r.from # "null"
    BY <1>1, <1>8 DEF StatusAllows, Shape
  <2>4. Effective(new) = Effective(r)
    BY <2>1, <2>3 DEF Effective
  <2> QED BY <1>1, <2>2, <2>4 DEF Settled
<1>9. CASE m.op = "COMPLETE_MANUAL"
  <2>1. Alters(r, new, {"completion", "status"}) /\ new.completion = who /\ new.status = "COMPLETED"
    BY <1>9, CompleteEffect
  <2>2. r.status = "OPEN" /\ r.from = "null"
    BY <1>1, <1>9 DEF StatusAllows, Shape
  <2>3. new.from = "null" /\ new.holds = r.holds /\ new.approvals = r.approvals
    BY <2>1, <2>2 DEF Alters, Fields
  <2> QED BY <1>1, <2>1, <2>2, <2>3 DEF Settled, Effective
<1> PICK Grant : Grant = [id : GrantIds, by : A, grants : ApprovalOps, target : 1..MaxCount, revoked : BOOLEAN]
  OBVIOUS
<1>10. r.approvals \in Seq(Grant)
  BY DEF Shape
<1>11. ASSUME Alters(r, new, {"approvals"}), Distinct(new.approvals), Len(new.approvals) <= MaxApprovals
       PROVE  Settled(new)
  <2>1. /\ new.from = r.from /\ new.status = r.status /\ new.holds = r.holds /\ new.completion = r.completion
    BY <1>11 DEF Alters, Fields
  <2>2. Effective(new) = Effective(r)
    BY <2>1 DEF Effective
  <2> QED BY <2>1, <2>2, <1>11 DEF Settled
<1>12. CASE m.op = "GRANT_APPROVAL"
  <2>1. Alters(r, new, {"approvals"}) /\ new.approvals = Append(r.approvals, Granted(who, m))
    <3>1. Approves(who, r, m, new)
      BY <1>12, GrantEffect
    <3> QED BY <3>1 DEF Approves
  <2>2. m \in Grants
    BY <1>12 DEF Payload, Assigning
  <2>3. Granted(who, m) \in Grant /\ Granted(who, m).id = m.id
    BY <2>2 DEF Granted, Grants
  <2>4. m.id \notin Ids(r.approvals) /\ Len(r.approvals) < MaxApprovals
    BY <1>1, <1>12 DEF StatusAllows
  <2>5. Distinct(new.approvals)
    <3> PICK g : g = Granted(who, m)
      OBVIOUS
    <3> PICK approvals : approvals = r.approvals
      OBVIOUS
    <3>1. approvals \in Seq(Grant) /\ Distinct(approvals) /\ g \in Grant /\ g.id \notin Ids(approvals)
      BY <1>10, <2>3, <2>4 DEF Settled
    <3>2. Distinct(Append(approvals, g))
      BY ONLY <3>1, AppendDistinct
    <3> QED BY <2>1, <3>2
  <2>6. Len(new.approvals) <= MaxApprovals
    <3>1. Len(new.approvals) = Len(r.approvals) + 1 /\ Len(r.approvals) \in Nat /\ MaxApprovals \in Nat
      BY <1>10, <2>1, <2>3, AppendProperties, LenProperties, TicketAssumption
    <3> QED BY <3>1, <2>4
  <2> QED BY <1>1, <1>11, <2>1, <2>5, <2>6
<1>13. CASE m.op = "REVOKE_APPROVAL"
  <2>1. Alters(r, new, {"approvals"}) /\ new.approvals = Revoked(r.approvals, m.id)
    <3>1. Withdraws(r, m, new)
      BY <1>13, RevokeEffect
    <3> QED BY <3>1 DEF Withdraws
  <2>2. /\ DOMAIN new.approvals = DOMAIN r.approvals
        /\ \A i \in DOMAIN r.approvals : new.approvals[i].id = r.approvals[i].id
    BY <2>1, RevokedList
  <2>3. Distinct(new.approvals)
    BY <2>2 DEF Settled, Distinct
  <2>4. Shape(A, new)
    BY <1>1, StepShape
  <2>5. /\ r.approvals \in Seq(Grant) /\ new.approvals \in Seq(Grant)
    BY <2>4, <1>10 DEF Shape
  <2>6. Len(new.approvals) = Len(r.approvals)
    <3>1. /\ 1..Len(new.approvals) = 1..Len(r.approvals)
          /\ Len(new.approvals) \in Nat /\ Len(r.approvals) \in Nat
      BY <2>2, <2>5, LenProperties
    <3> QED BY ONLY <3>1
  <2> QED BY <1>1, <1>11, <2>1, <2>3, <2>6 DEF Settled
<1> QED BY <1>3, <1>4, <1>5, <1>6, <1>7, <1>8, <1>9, <1>12, <1>13 DEF Payload, Grants

\* A record whose criteria or kind open it is no DRAFT, and was none when it was archived.
Derived(r) == Effective(r) = "DRAFT" => ~Opens(r)

\* A verb that could open a DRAFT does.
LEMMA StepDerives ==
  ASSUME NEW A, NEW who \in A, NEW r, Shape(A, r), Derived(r), NEW m, Payload(m), Step(who, r, m) # Refused
  PROVE  Derived(Step(who, r, m))
<1> PICK new : new = Effect(who, r, m)
  OBVIOUS
<1>1. Step(who, r, m) = new /\ StatusAllows(r, m)
  BY DEF Step
<1>2. r.status = "ARCHIVED" => m.op = "RESTORE"
  BY <1>1 DEF StatusAllows
<1>3. CASE m.op \in Assigning
  <2>1. Fits(m.set) /\ (m.op = "REFINE" \/ DOMAIN m.set \cap {"kind", "criteria"} = {})
    BY <1>3 DEF Payload, Assigning, Grants
  <2> PICK set : set = Overlay(m.set, r)
    OBVIOUS
  <2>2. Shape(A, set) /\ \A k \in Fields \ SetFields : set[k] = r[k]
    BY <2>1, OverlayShape
  <2>3. set.status = r.status /\ set.from = r.from /\ r.from = "null"
    BY <1>2, <1>3, <2>2 DEF Fields, SetFields, Assigning, Shape
  <2>4. CASE m.op = "REFINE"
    <3> PICK opened : opened = Opened(set)
      OBVIOUS
    <3>1. /\ \A k \in Fields \ {"status"} : opened[k] = set[k]
          /\ opened.status = IF set.status = "DRAFT" /\ Opens(set) THEN "OPEN" ELSE set.status
      BY <2>2, OpenedShape
    <3>2. opened.from = "null" /\ opened.kind = set.kind /\ opened.criteria = set.criteria
      BY <2>3, <3>1 DEF Fields
    <3>3. Derived(opened)
      BY <3>1, <3>2 DEF Derived, Effective, Opens
    <3>4. new = opened
      BY <2>4 DEF Effect
    <3> QED BY <1>1, <3>3, <3>4
  <2>5. CASE m.op # "REFINE"
    <3>1. set.kind = r.kind /\ set.criteria = r.criteria
      BY <2>1, <2>5 DEF Overlay, Shape, Fields
    <3>2. new = set
      BY <1>3, <2>5 DEF Effect, Assigning
    <3> QED BY <1>1, <2>3, <3>1, <3>2 DEF Derived, Effective, Opens
  <2> QED BY <2>4, <2>5
<1>4. CASE m.op \in {"HOLD", "RELEASE_HOLD"}
  <2>1. Alters(r, new, {"holds", "status"}) /\ new.status \in {"OPEN", "HELD"}
    <3>1. CASE m.op = "HOLD"
      <4>1. Places(who, r, m, new)
        BY <3>1, HoldEffect
      <4> QED BY <4>1 DEF Places
    <3>2. CASE m.op = "RELEASE_HOLD"
      <4>1. Releases(r, m, new)
        BY <3>2, ReleaseEffect
      <4> QED BY <4>1 DEF Releases
    <3> QED BY <1>4, <3>1, <3>2
  <2>2. new.from = "null"
    BY <1>2, <1>4, <2>1 DEF Alters, Fields, Shape
  <2> QED BY <1>1, <2>1, <2>2 DEF Derived, Effective
<1>5. CASE m.op = "REOPEN"
  <2>1. Alters(r, new, {"completion", "status"}) /\ new.status = "OPEN"
    BY <1>5, ReopenEffect
  <2>2. new.from = "null"
    BY <1>2, <1>5, <2>1 DEF Alters, Fields, Shape
  <2> QED BY <1>1, <2>1, <2>2 DEF Derived, Effective
<1>6. CASE m.op = "COMPLETE_MANUAL"
  <2>1. Alters(r, new, {"completion", "status"}) /\ new.status = "COMPLETED"
    BY <1>6, CompleteEffect
  <2>2. new.from = "null"
    BY <1>2, <1>6, <2>1 DEF Alters, Fields, Shape
  <2> QED BY <1>1, <2>1, <2>2 DEF Derived, Effective
<1>7. CASE m.op = "ARCHIVE"
  <2>1. Alters(r, new, {"from", "status"}) /\ new.from = r.status /\ new.status = "ARCHIVED"
    BY <1>7, ArchiveEffect
  <2>2. new.kind = r.kind /\ new.criteria = r.criteria
    BY <2>1 DEF Alters, Fields
  <2>3. Effective(new) = Effective(r)
    BY <1>2, <1>7, <2>1 DEF Effective, Shape, Statuses
  <2> QED BY <1>1, <2>2, <2>3 DEF Derived, Opens
<1>8. CASE m.op = "RESTORE"
  <2>1. Alters(r, new, {"from", "status"}) /\ new.from = "null" /\ new.status = r.from
    BY <1>8, RestoreEffect
  <2>2. new.kind = r.kind /\ new.criteria = r.criteria
    BY <2>1 DEF Alters, Fields
  <2>3. r.from # "null"
    BY <1>1, <1>8 DEF StatusAllows, Shape
  <2>4. Effective(new) = Effective(r)
    BY <2>1, <2>3 DEF Effective
  <2> QED BY <1>1, <2>2, <2>4 DEF Derived, Opens
<1>9. CASE m.op \in {"GRANT_APPROVAL", "REVOKE_APPROVAL"}
  <2>1. Alters(r, new, {"approvals"})
    <3>1. CASE m.op = "GRANT_APPROVAL"
      <4>1. Approves(who, r, m, new)
        BY <3>1, GrantEffect
      <4> QED BY <4>1 DEF Approves
    <3>2. CASE m.op = "REVOKE_APPROVAL"
      <4>1. Withdraws(r, m, new)
        BY <3>2, RevokeEffect
      <4> QED BY <4>1 DEF Withdraws
    <3> QED BY <1>9, <3>1, <3>2
  <2>2. new.kind = r.kind /\ new.criteria = r.criteria /\ new.status = r.status /\ new.from = r.from
    BY <2>1 DEF Alters, Fields
  <2> QED BY <1>1, <2>2 DEF Derived, Opens, Effective
<1> QED BY <1>3, <1>4, <1>5, <1>6, <1>7, <1>8, <1>9 DEF Payload, Grants

\* Every payload the verbs carry is one of its kind.
LEMMA VerbsCarryPayloads ==
  ASSUME NEW m \in Verbs
  PROVE  Payload(m)
<1>1. CASE m \in Refines
  <2>1. PICK set \in Refinements : m = [op |-> "REFINE", set |-> set]
    BY <1>1 DEF Refines, Assign
  <2>2. CASE set \in [{"body"} -> Bodies]
    <3>1. DOMAIN set = {"body"} /\ set.body \in Bodies
      BY <2>2
    <3> QED BY <3>1, <2>1 DEF Payload, Fits, SetFields, Assigning
  <2>3. CASE set \in [{"kind"} -> Kinds]
    <3>1. DOMAIN set = {"kind"} /\ set.kind \in Kinds
      BY <2>3
    <3> QED BY <3>1, <2>1 DEF Payload, Fits, SetFields, Assigning
  <2>4. CASE set \in [{"criteria"} -> SUBSET Criteria]
    <3>1. DOMAIN set = {"criteria"} /\ set.criteria \in SUBSET Criteria
      BY <2>4
    <3> QED BY <3>1, <2>1 DEF Payload, Fits, SetFields, Assigning
  <2>5. CASE set \in [{"supersedes"} -> Token \cup {NoTicket}]
    <3>1. DOMAIN set = {"supersedes"} /\ set.supersedes \in Token \cup {NoTicket}
      BY <2>5
    <3> QED BY <3>1, <2>1 DEF Payload, Fits, SetFields, Assigning
  <2> QED BY <2>1, <2>2, <2>3, <2>4, <2>5 DEF Refinements
<1>2. CASE m \in Prioritizes
  <2>1. PICK set \in [{"priority"} -> Priorities] : m = [op |-> "PRIORITIZE", set |-> set]
    BY <1>2 DEF Prioritizes, Assign
  <2>2. DOMAIN set = {"priority"} /\ set.priority \in Priorities
    BY <2>1
  <2> QED BY <2>1, <2>2 DEF Payload, Fits, SetFields, Assigning
<1>3. CASE m \in DependencyChanges
  <2>1. PICK set \in [{"deps"} -> DependencyLists] : m = [op |-> "SET_DEPENDENCIES", set |-> set]
    BY <1>3 DEF DependencyChanges, Assign
  <2>2. DOMAIN set = {"deps"} /\ set.deps \in Seq(Edge)
    BY <2>1, TicketAssumption
  <2> QED BY <2>1, <2>2 DEF Payload, Fits, SetFields, Assigning
<1>4. CASE m \in GateChanges
  <2>1. PICK set \in [{"gates"} -> SUBSET Gates] : m = [op |-> "SET_GATES", set |-> set]
    BY <1>4 DEF GateChanges, Assign
  <2>2. DOMAIN set = {"gates"} /\ set.gates \in SUBSET Gates
    BY <2>1
  <2> QED BY <2>1, <2>2 DEF Payload, Fits, SetFields, Assigning
<1>5. CASE m \in EffectChanges
  <2>1. PICK set \in [class : Classes, effects : EffectSets] : m = [op |-> "SET_EFFECTS", set |-> set]
    BY <1>5 DEF EffectChanges, Assign
  <2>2. DOMAIN set = {"class", "effects"} /\ set.class \in Classes /\ set.effects \in EffectSets
    BY <2>1
  <2> QED BY <2>1, <2>2 DEF Payload, Fits, SetFields, Assigning
<1>6. CASE m \in Named("HOLD", HoldIds) \cup Named("RELEASE_HOLD", HoldIds)
  BY <1>6 DEF Named, Payload
<1>7. CASE m \in {[op |-> op] : op \in {"REOPEN", "ARCHIVE", "RESTORE", "COMPLETE_MANUAL"}}
  BY <1>7 DEF Payload
<1>8. CASE m \in Grants
  BY <1>8 DEF Payload
<1>9. CASE m \in Named("REVOKE_APPROVAL", GrantIds)
  BY <1>9 DEF Named, Payload
<1> QED BY <1>1, <1>2, <1>3, <1>4, <1>5, <1>6, <1>7, <1>8, <1>9 DEF Verbs, EditVerbs

-----------------------------------------------------------------------------
(* The composition of an adoption. *)

\* The loop of Adopt up to n verbs.
Composing(who, r, verbs, n, work) ==
  work = [i \in 0..n |-> IF i = 0 THEN r ELSE Step(who, work[i - 1], verbs[i])]

\* The loop ends, however many verbs there are.
LEMMA LoopsCompose ==
  ASSUME NEW who, NEW r, NEW verbs, NEW n \in Nat
  PROVE  \E work : Composing(who, r, verbs, n, work)
<1> DEFINE bad == {k \in Nat : ~ \E work : Composing(who, r, verbs, k, work)}
<1>1. SUFFICES ASSUME bad # {} PROVE FALSE
  OBVIOUS
<1>2. PICK k \in bad : \A m \in bad : k <= m
  BY <1>1, LeastOfSome
<1>3. k # 0
  <2> PICK work : work = [i \in 0..0 |-> r]
    OBVIOUS
  <2>1. Composing(who, r, verbs, 0, work)
    BY DEF Composing
  <2> QED BY <2>1, <1>2
<1>4. PICK work : Composing(who, r, verbs, k - 1, work)
  BY <1>2, <1>3
<1> PICK last : last = Step(who, work[k - 1], verbs[k])
  OBVIOUS
<1> PICK more : more = [i \in 0..k |-> IF i = k THEN last ELSE work[i]]
  OBVIOUS
<1>5. \A i \in 0..k : more[i] = IF i = 0 THEN r ELSE Step(who, more[i - 1], verbs[i])
  <2> TAKE i \in 0..k
  <2>0. k \in Nat \ {0}
    BY <1>2, <1>3
  <2>1. CASE i = k
    BY <2>0, <2>1
  <2>2. CASE i # k
    <3>1. i \in 0..(k - 1) /\ (i # 0 => i - 1 \in 0..(k - 1))
      BY <2>0, <2>2
    <3>2. work[i] = IF i = 0 THEN r ELSE Step(who, work[i - 1], verbs[i])
      BY <3>1, <1>4 DEF Composing
    <3> QED BY <3>1, <3>2, <2>0, <2>2
  <2> QED BY <2>1, <2>2
<1>6. Composing(who, r, verbs, k, more)
  BY <1>5 DEF Composing
<1> QED BY <1>6, <1>2

\* The loop is over all the verbs of the composition.
LEMMA ComposedFromLoop ==
  ASSUME NEW who, NEW r, NEW file, NEW verbs, verbs = Composition(r, file), Len(verbs) \in Nat
  PROVE  \E work : Composing(who, r, verbs, Len(verbs), work) /\ Composed(who, r, file) = work[Len(verbs)]
<1>1. \E work : Composing(who, r, verbs, Len(verbs), work)
  BY LoopsCompose
<1>2. Composed(who, r, file) = (CHOOSE work : Composing(who, r, verbs, Len(verbs), work))[Len(verbs)]
  BY DEF Composed, Composing
<1> QED BY <1>1, <1>2

\* No verb of the loop leaves a record that is none, unless it refuses.
LEMMA ComposingShape ==
  ASSUME NEW A, NEW who \in A, NEW r, Shape(A, r), Derived(r), NEW P, \A m \in P : Payload(m),
         NEW verbs \in Seq(P), NEW work, Composing(who, r, verbs, Len(verbs), work)
  PROVE  \A i \in 0..Len(verbs) : work[i] = Refused \/ (Shape(A, work[i]) /\ Derived(work[i]))
<1>0. Len(verbs) \in Nat /\ \A i \in 1..Len(verbs) : verbs[i] \in P
  BY LenProperties, ElementOfSeq
<1> DEFINE bad == {k \in 0..Len(verbs) : ~(work[k] = Refused \/ (Shape(A, work[k]) /\ Derived(work[k])))}
<1>1. SUFFICES ASSUME bad # {} PROVE FALSE
  OBVIOUS
<1>2. PICK k \in bad : \A m \in bad : k <= m
  <2>1. bad \in SUBSET Nat
    BY <1>0
  <2> QED BY <1>1, <2>1, LeastOfSome
<1>3. k # 0
  <2>1. work[0] = r
    BY <1>0 DEF Composing
  <2> QED BY <2>1, <1>2
<1>4. k \in 1..Len(verbs) /\ k - 1 \in 0..Len(verbs) /\ k \in 0..Len(verbs)
  BY <1>0, <1>2, <1>3
<1> PICK prior : prior = work[k - 1]
  OBVIOUS
<1> PICK m : m = verbs[k]
  OBVIOUS
<1>5. work[k] = Step(who, prior, m)
  BY <1>3, <1>4 DEF Composing
<1>6. prior = Refused \/ (Shape(A, prior) /\ Derived(prior))
  BY <1>2, <1>4
<1>7. CASE prior = Refused
  BY <1>2, <1>5, <1>7 DEF Step
<1>8. CASE Shape(A, prior) /\ Derived(prior)
  <2>1. Payload(m)
    BY <1>0, <1>4
  <2>2. Step(who, prior, m) = Refused \/ (Shape(A, Step(who, prior, m)) /\ Derived(Step(who, prior, m)))
    BY <2>1, <1>8, StepShape, StepDerives
  <2> QED BY <2>2, <1>2, <1>5
<1> QED BY <1>6, <1>7, <1>8

\* The payloads an adoption of this file can compose.
Adopting(file) ==
  {m \in [op : Assigning, set : UNION {[keys -> {file[k] : k \in Fields}] : keys \in SUBSET SetFields}]
           \cup [op : {"HOLD", "RELEASE_HOLD"}, id : HoldIds] : Payload(m)}

\* The fields of a file make a payload.
LEMMA FileFits ==
  ASSUME NEW A, NEW file, Shape(A, file), NEW op \in Assigning, NEW keys \in SUBSET SetFields,
         op = "REFINE" \/ keys \cap {"kind", "criteria"} = {}
  PROVE  [op |-> op, set |-> [k \in keys |-> file[k]]] \in Adopting(file)
<1> PICK set : set = [k \in keys |-> file[k]]
  OBVIOUS
<1> PICK m : m = [op |-> op, set |-> set]
  OBVIOUS
<1>1. Fits(set)
  BY DEF Fits, Shape
<1>2. Payload(m)
  BY <1>1 DEF Payload
<1>3. set \in [keys -> {file[k] : k \in Fields}]
  BY DEF SetFields, Fields
<1>4. m \in [op : Assigning, set : UNION {[ks -> {file[k] : k \in Fields}] : ks \in SUBSET SetFields}]
  BY <1>3
<1> QED BY <1>2, <1>4 DEF Adopting

\* So do those of its fields that differ.
LEMMA ChangesFit ==
  ASSUME NEW A, NEW r, NEW file, Shape(A, file), NEW op \in Assigning, NEW keys \in SUBSET SetFields,
         op = "REFINE" \/ keys \cap {"kind", "criteria"} = {}
  PROVE  /\ Changed(r, file, op, keys) \in Seq(Adopting(file))
         /\ ChangedTogether(r, file, op, keys) \in Seq(Adopting(file))
<1> PICK diff : diff = {k \in keys : r[k] # file[k]}
  OBVIOUS
<1> PICK one : one = [op |-> op, set |-> [k \in diff |-> file[k]]]
  OBVIOUS
<1> PICK all : all = [op |-> op, set |-> [k \in keys |-> file[k]]]
  OBVIOUS
<1>1. diff \in SUBSET SetFields
  OBVIOUS
<1>2. one \in Adopting(file) /\ all \in Adopting(file)
  BY <1>1, FileFits
<1>3. << >> \in Seq(Adopting(file)) /\ <<one>> \in Seq(Adopting(file)) /\ <<all>> \in Seq(Adopting(file))
  BY <1>2
<1>4. Changed(r, file, op, keys) \in {<< >>, <<one>>}
  BY DEF Changed
<1>5. ChangedTogether(r, file, op, keys) \in {<< >>, <<all>>}
  BY DEF ChangedTogether
<1> QED BY <1>3, <1>4, <1>5

\* A hold of either list makes a payload.
LEMMA HoldVerbsFit ==
  ASSUME NEW A, NEW holds \in Seq([id : HoldIds, by : A]), NEW ids, NEW file, NEW op \in {"HOLD", "RELEASE_HOLD"}
  PROVE  HoldVerbs(op, Chosen(holds, ids)) \in Seq(Adopting(file))
<1> PICK S : S = [id : HoldIds, by : A]
  OBVIOUS
<1> PICK some : some = Chosen(holds, ids)
  OBVIOUS
<1> PICK n : n = Len(some)
  OBVIOUS
<1>1. some \in Seq(S)
  BY ChosenEntries
<1>2. n \in Nat /\ DOMAIN some = 1..n /\ \A i \in 1..n : some[i] \in S
  BY <1>1, LenProperties, ElementOfSeq
<1> PICK verbs : verbs = [i \in 1..n |-> [op |-> op, id |-> some[i].id]]
  OBVIOUS
<1>3. ASSUME NEW i \in 1..n
      PROVE  verbs[i] \in Adopting(file)
  <2> PICK m : m = [op |-> op, id |-> some[i].id]
    OBVIOUS
  <2>1. some[i].id \in HoldIds
    BY <1>2
  <2>2. m \in [op : {"HOLD", "RELEASE_HOLD"}, id : HoldIds] /\ m.op \in {"HOLD", "RELEASE_HOLD"} /\ m.id \in HoldIds
    BY <2>1
  <2>3. Payload(m)
    BY <2>2 DEF Payload
  <2>4. m \in Adopting(file)
    BY <2>2, <2>3 DEF Adopting
  <2> QED BY <2>4
<1>4. verbs \in [1..n -> Adopting(file)]
  <2>1. \A i \in 1..n : verbs[i] \in Adopting(file)
    BY <1>3
  <2>2. DOMAIN verbs = 1..n /\ verbs = [i \in 1..n |-> verbs[i]]
    OBVIOUS
  <2> QED BY ONLY <2>1, <2>2
<1>5. verbs \in Seq(Adopting(file))
  BY <1>2, <1>4, FunctionIsSeq
<1>6. HoldVerbs(op, some) = verbs
  BY <1>2 DEF HoldVerbs
<1> QED BY <1>5, <1>6

\* The parts of a composition are lists of such payloads.
LEMMA PartsFit ==
  ASSUME NEW A, NEW r, Shape(A, r), NEW B, NEW file, Shape(B, file)
  PROVE  LET P == Adopting(file) IN
         /\ Changed(r, file, "REFINE", {"body", "kind", "criteria", "supersedes"}) \in Seq(P)
         /\ ChangedTogether(r, file, "PRIORITIZE", {"priority"}) \in Seq(P)
         /\ ChangedTogether(r, file, "SET_DEPENDENCIES", {"deps"}) \in Seq(P)
         /\ ChangedTogether(r, file, "SET_GATES", {"gates"}) \in Seq(P)
         /\ ChangedTogether(r, file, "SET_EFFECTS", {"class", "effects"}) \in Seq(P)
         /\ HoldVerbs("HOLD", Only(file.holds, r.holds)) \in Seq(P)
         /\ HoldVerbs("RELEASE_HOLD", Only(r.holds, file.holds)) \in Seq(P)
<1>1. Changed(r, file, "REFINE", {"body", "kind", "criteria", "supersedes"}) \in Seq(Adopting(file))
  BY ChangesFit DEF Assigning, SetFields
<1>2. ChangedTogether(r, file, "PRIORITIZE", {"priority"}) \in Seq(Adopting(file))
  BY ChangesFit DEF Assigning, SetFields
<1>3. ChangedTogether(r, file, "SET_DEPENDENCIES", {"deps"}) \in Seq(Adopting(file))
  BY ChangesFit DEF Assigning, SetFields
<1>4. ChangedTogether(r, file, "SET_GATES", {"gates"}) \in Seq(Adopting(file))
  BY ChangesFit DEF Assigning, SetFields
<1>5. ChangedTogether(r, file, "SET_EFFECTS", {"class", "effects"}) \in Seq(Adopting(file))
  BY ChangesFit DEF Assigning, SetFields
<1>6. r.holds \in Seq([id : HoldIds, by : A]) /\ file.holds \in Seq([id : HoldIds, by : B])
  BY DEF Shape
<1>7. HoldVerbs("HOLD", Only(file.holds, r.holds)) \in Seq(Adopting(file))
  BY <1>6, HoldVerbsFit DEF Only
<1>8. HoldVerbs("RELEASE_HOLD", Only(r.holds, file.holds)) \in Seq(Adopting(file))
  BY <1>6, HoldVerbsFit DEF Only
<1> QED BY <1>1, <1>2, <1>3, <1>4, <1>5, <1>7, <1>8

\* So is the composition.
LEMMA CompositionFits ==
  ASSUME NEW A, NEW r, Shape(A, r), NEW B, NEW file, Shape(B, file)
  PROVE  Composition(r, file) \in Seq(Adopting(file))
<1>1. \A s, t \in Seq(Adopting(file)) : s \o t \in Seq(Adopting(file))
  BY ConcatProperties
<1> QED BY <1>1, PartsFit DEF Composition

\* A list of some things is a list of more things.
LEMMA SeqMonotone ==
  ASSUME NEW S, NEW T, S \subseteq T, NEW s \in Seq(S)
  PROVE  s \in Seq(T)
BY SeqMonotonic

\* The holds a hand edit leaves are a list of holds, whoever it says placed them.
LEMMA EditedHolds ==
  ASSUME NEW holds \in Seq(Hold), NEW edited \in HoldEdits(holds)
  PROVE  edited \in Seq([id : HoldIds, by : Roles])
<1> PICK S : S = [id : HoldIds, by : Roles]
  OBVIOUS
<1> DEFINE dropped == {Chosen(holds, Ids(holds) \ {id}) : id \in HoldIds}
           fresh(hs) == {[id |-> id, by |-> "OWNER"] : id \in HoldIds \ Ids(hs)}
<1>1. HoldEdits(holds) = dropped \cup UNION {UNION {{Append(hs, h), <<h>> \o hs} : h \in fresh(hs)} : hs \in dropped}
  BY DEF HoldEdits
<1>2. holds \in Seq(S)
  <2>1. Hold \subseteq S
    BY TicketAssumption DEF Hold
  <2> QED BY <2>1, SeqMonotone
<1>3. dropped \subseteq Seq(S)
  <2>1. ASSUME NEW id \in HoldIds
        PROVE  Chosen(holds, Ids(holds) \ {id}) \in Seq(S)
    BY <1>2, ChosenEntries
  <2> QED BY <2>1
<1>4. ASSUME NEW hs \in dropped, NEW h \in fresh(hs), edited \in {Append(hs, h), <<h>> \o hs}
      PROVE  edited \in Seq(S)
  <2>1. hs \in Seq(S)
    BY <1>3
  <2>2. h \in S
    BY DEF Roles
  <2>3. <<h>> \in Seq(S)
    BY <2>2
  <2>4. Append(hs, h) \in Seq(S)
    BY <2>1, <2>2, AppendProperties
  <2>5. <<h>> \o hs \in Seq(S)
    BY <2>1, <2>3, ConcatProperties
  <2> QED BY <2>4, <2>5, <1>4
<1> HIDE DEF dropped, fresh
<1>5. CASE edited \in dropped
  BY <1>3, <1>5
<1>6. CASE edited \notin dropped
  <2>1. PICK hs \in dropped : edited \in UNION {{Append(hs, h), <<h>> \o hs} : h \in fresh(hs)}
    BY <1>1, <1>6
  <2>2. PICK h \in fresh(hs) : edited \in {Append(hs, h), <<h>> \o hs}
    BY <2>1
  <2> QED BY <2>2, <1>4
<1> QED BY <1>5, <1>6

\* What some actors' record is, more actors' record is.
LEMMA MoreActors ==
  ASSUME NEW A, NEW B, A \subseteq B, NEW r, Shape(A, r)
  PROVE  Shape(B, r)
<1> PICK holds : holds = r.holds
  OBVIOUS
<1> PICK approvals : approvals = r.approvals
  OBVIOUS
<1> PICK F : F = [id : HoldIds, by : A]
  OBVIOUS
<1> PICK G : G = [id : HoldIds, by : B]
  OBVIOUS
<1> PICK H : H = [id : GrantIds, by : A, grants : ApprovalOps, target : 1..MaxCount, revoked : BOOLEAN]
  OBVIOUS
<1> PICK I : I = [id : GrantIds, by : B, grants : ApprovalOps, target : 1..MaxCount, revoked : BOOLEAN]
  OBVIOUS
<1>1. F \subseteq G /\ H \subseteq I
  OBVIOUS
<1>2. holds \in Seq(F) /\ approvals \in Seq(H)
  BY DEF Shape
<1>3. holds \in Seq(G) /\ approvals \in Seq(I)
  BY ONLY <1>1, <1>2, SeqMonotone
<1> QED BY <1>3 DEF Shape

\* A hand edit that the validator accepts leaves a record.
LEMMA FileShape ==
  ASSUME NEW t, NEW r, Shape(Actors, r), NEW file \in FileEdits(r), Valid(t, file)
  PROVE  Shape(Roles, file)
<1>1. PICK edit \in [body : Bodies, criteria : SUBSET Criteria, class : Classes,
                     holds : HoldEdits(r.holds), status : {r.status, "OPEN", "HELD"}] :
        file = Overlay(edit, r)
  BY DEF FileEdits
<1>2. /\ DOMAIN file = Fields /\ file = [k \in Fields |-> file[k]]
      /\ file.body = edit.body /\ file.criteria = edit.criteria /\ file.class = edit.class
      /\ file.holds = edit.holds /\ file.status = edit.status
      /\ \A k \in Fields \ {"body", "criteria", "class", "holds", "status"} : file[k] = r[k]
  <2>1. DOMAIN r = Fields /\ DOMAIN edit = {"body", "criteria", "class", "holds", "status"}
    BY DEF Shape
  <2> QED BY <1>1, <2>1 DEF Overlay, Fields
<1>3. file.holds \in Seq([id : HoldIds, by : Roles])
  BY <1>2, EditedHolds DEF Shape, Hold
<1>4. r.approvals \in Seq([id : GrantIds, by : Roles, grants : ApprovalOps, target : 1..MaxCount, revoked : BOOLEAN])
  <2> PICK G : G = [id : GrantIds, by : Actors, grants : ApprovalOps, target : 1..MaxCount, revoked : BOOLEAN]
    OBVIOUS
  <2> PICK H : H = [id : GrantIds, by : Roles, grants : ApprovalOps, target : 1..MaxCount, revoked : BOOLEAN]
    OBVIOUS
  <2>1. G \subseteq H
    BY TicketAssumption
  <2> PICK approvals : approvals = r.approvals
    OBVIOUS
  <2>2. approvals \in Seq(G)
    BY DEF Shape
  <2>3. approvals \in Seq(H)
    BY ONLY <2>1, <2>2, SeqMonotone
  <2> QED BY <2>3
<1>5. /\ file.rev = r.rev /\ file.acc = r.acc /\ file.from = r.from /\ file.priority = r.priority /\ file.kind = r.kind
      /\ file.deps = r.deps /\ file.gates = r.gates /\ file.effects = r.effects /\ file.supersedes = r.supersedes
      /\ file.source = r.source /\ file.approvals = r.approvals /\ file.completion = r.completion
  BY <1>2 DEF Fields
<1>6. r.completion \in Roles \cup {"null"} /\ file.status \in Statuses
  BY <1>2, TicketAssumption DEF Shape, Statuses
<1>7. (file.status = "ARCHIVED") <=> (file.from # "null")
  BY DEF Valid
<1> QED BY <1>2, <1>3, <1>4, <1>5, <1>6, <1>7 DEF Shape

\* An adoption that is not refused composes a record.
LEMMA AdoptionShape ==
  ASSUME NEW t, NEW r, Shape(Actors, r), Derived(r), NEW file \in FileEdits(r), Valid(t, file),
         NEW who \in Actors, Composed(who, r, file) # Refused
  PROVE  Shape(Actors, Composed(who, r, file)) /\ Derived(Composed(who, r, file))
<1> PICK P : P = Adopting(file)
  OBVIOUS
<1> PICK verbs : verbs = Composition(r, file)
  OBVIOUS
<1>1. Shape(Roles, file)
  BY FileShape
<1>2. verbs \in Seq(P)
  BY <1>1, CompositionFits
<1>3. Len(verbs) \in Nat
  BY <1>2, LenProperties
<1>4. PICK work : Composing(who, r, verbs, Len(verbs), work) /\ Composed(who, r, file) = work[Len(verbs)]
  BY <1>3, ComposedFromLoop
<1>5. \A m \in P : Payload(m)
  BY DEF Adopting
<1>6. work[Len(verbs)] = Refused \/ (Shape(Actors, work[Len(verbs)]) /\ Derived(work[Len(verbs)]))
  <2>1. Len(verbs) \in 0..Len(verbs)
    BY <1>3
  <2> QED BY <2>1, <1>2, <1>4, <1>5, ComposingShape
<1> QED BY <1>4, <1>6

-----------------------------------------------------------------------------
(* The invariant's records, and what finalize makes of them. *)

\* A record with its chain fields in order and its status as it is archived.
SoundRecord(r) ==
  /\ DOMAIN r = Fields /\ r = [k \in Fields |-> r[k]]
  /\ r.rev \in Nat /\ r.acc \in Nat
  /\ (r.status = "ARCHIVED") <=> (r.from # "null")

\* A record of each field's type, with its chain fields in order, is sound.
LEMMA ShapeIsSound ==
  ASSUME NEW A, NEW r, Shape(A, r)
  PROVE  SoundRecord(r)
<1>1. MaxCount \in Nat
  BY TicketAssumption
<1> QED BY <1>1 DEF Shape, SoundRecord

\* Every record of the queue is one, the closed validator accepts it, and it is
\* a DRAFT only while nothing opens it.
RecordsInv ==
  \A t \in DOMAIN ticket : Shape(Actors, ticket[t]) /\ Derived(ticket[t]) /\ Valid(t, ticket[t])

\* One existing record is replaced by the post record of a working record.
Committed(t, work, forced) ==
  /\ FinalizeAllows(t, ticket[t], work, forced) /\ Valid(t, Post(ticket[t], work, forced))
  /\ Shape(Actors, work) /\ Derived(work)
  /\ ticket[t].status = "ARCHIVED" => Acceptance(work) = Acceptance(ticket[t])
  /\ ticket' = [ticket EXCEPT ![t] = Post(ticket[t], work, forced)]
  /\ UNCHANGED nextSerial

-----------------------------------------------------------------------------
(* The operators of the model. *)

\* What finalize makes of a working record: its fields, but the chain fields once.
LEMMA PostFields ==
  ASSUME NEW pre, SoundRecord(pre), NEW work, NEW forced
  PROVE  LET post == Post(pre, work, forced) IN
         /\ DOMAIN post = Fields /\ post = [k \in Fields |-> post[k]]
         /\ post.rev = pre.rev + 1
         /\ post.acc = IF Bumps(pre, work, forced) THEN pre.acc + 1 ELSE pre.acc
         /\ \A k \in Fields \ {"rev", "acc"} : post[k] = work[k]
         /\ Acceptance(post) = Acceptance(work)
<1>1. PICK acc : acc = IF Bumps(pre, work, forced) THEN pre.acc + 1 ELSE pre.acc
  OBVIOUS
<1>2. PICK rev : rev = pre.rev + 1
  OBVIOUS
<1>3. PICK post : post = [[k \in Fields |-> work[k]] EXCEPT !.rev = rev, !.acc = acc]
  OBVIOUS
<1>4. post = Post(pre, work, forced)
  BY <1>1, <1>2, <1>3 DEF Post, SoundRecord
<1>5. /\ DOMAIN post = Fields /\ post = [k \in Fields |-> post[k]]
      /\ post.rev = rev /\ post.acc = acc
      /\ \A k \in Fields \ {"rev", "acc"} : post[k] = work[k]
  BY <1>3 DEF Fields
<1>6. Acceptance(post) = Acceptance(work)
  BY <1>5 DEF Acceptance, Fields
<1> QED BY <1>1, <1>2, <1>4, <1>5, <1>6

\* RESTORE is all a role may do with an archived record, and it leaves the
\* acceptance alone.
LEMMA ArchivedStep ==
  ASSUME NEW who, NEW r, SoundRecord(r), r.status = "ARCHIVED", NEW m, Step(who, r, m) # Refused
  PROVE  Acceptance(Step(who, r, m)) = Acceptance(r)
<1>1. m.op = "RESTORE" /\ Step(who, r, m) = Effect(who, r, m)
  BY DEF Step, StatusAllows
<1>2. Effect(who, r, m) = [r EXCEPT !.status = r.from, !.from = "null"]
  BY <1>1 DEF Effect
<1> PICK new : new = [r EXCEPT !.status = r.from, !.from = "null"]
  OBVIOUS
<1>3. \A k \in Fields \ {"status", "from"} : new[k] = r[k]
  BY DEF SoundRecord
<1>4. Acceptance(new) = Acceptance(r)
  BY <1>3 DEF Fields, Acceptance
<1> QED BY <1>1, <1>2, <1>4

\* The record CREATE begins with.
LEMMA CreatedFields ==
  ASSUME NEW p \in Templates, NEW deps \in Seq(Edge)
  PROVE  /\ Shape(Actors, CreatedRecord(p, deps)) /\ Derived(CreatedRecord(p, deps))
         /\ CreatedRecord(p, deps).deps = deps
<1> PICK start : start = [rev |-> 1, acc |-> 1, status |-> "DRAFT", from |-> "null", deps |-> deps,
                         holds |-> << >>, approvals |-> << >>, completion |-> "null"]
  OBVIOUS
<1> PICK base : base = Overlay(p, start)
  OBVIOUS
<1>1. p \in Template /\ MaxCount \in Nat \ {0}
  BY TicketAssumption
<1>2. /\ DOMAIN p = {"body", "priority", "kind", "criteria", "gates", "class", "effects", "supersedes", "source"}
      /\ DOMAIN start = {"rev", "acc", "status", "from", "deps", "holds", "approvals", "completion"}
  BY <1>1 DEF Template
<1>3. /\ DOMAIN base = Fields /\ base = [k \in Fields |-> base[k]]
      /\ \A k \in DOMAIN p : base[k] = p[k]
      /\ \A k \in DOMAIN start : base[k] = start[k]
  BY <1>2 DEF Overlay, Fields
<1>4. /\ base.rev = 1 /\ base.acc = 1 /\ base.status = "DRAFT" /\ base.from = "null" /\ base.deps = deps
      /\ base.holds = << >> /\ base.approvals = << >> /\ base.completion = "null"
  BY <1>2, <1>3
<1>5. /\ base.body \in Bodies /\ base.priority \in Priorities /\ base.kind \in Kinds
      /\ base.criteria \in SUBSET Criteria /\ base.gates \in SUBSET Gates /\ base.class \in Classes
      /\ base.effects \in EffectSets /\ base.supersedes \in Token \cup {NoTicket}
      /\ base.source \in {"NATIVE", "IMPORT"}
  BY <1>1, <1>2, <1>3 DEF Template
<1>6. Shape(Actors, base)
  <2>1. /\ << >> \in Seq([id : HoldIds, by : Actors])
        /\ << >> \in Seq([id : GrantIds, by : Actors, grants : ApprovalOps, target : 1..MaxCount, revoked : BOOLEAN])
    BY EmptySeq
  <2>2. base.rev \in 1..MaxCount /\ base.acc \in 1..MaxCount
    BY <1>1, <1>4
  <2> QED BY <1>3, <1>4, <1>5, <2>1, <2>2 DEF Shape, Statuses
<1>7. Shape(Actors, Opened(base)) /\ Opened(base).deps = deps
  BY <1>4, <1>6, OpenedShape DEF Fields
<1>8. CreatedRecord(p, deps) = Opened(base)
  BY DEF CreatedRecord
<1>9. Derived(Opened(base))
  <2> PICK opened : opened = Opened(base)
    OBVIOUS
  <2>1. /\ \A k \in Fields \ {"status"} : opened[k] = base[k]
        /\ opened.status = IF base.status = "DRAFT" /\ Opens(base) THEN "OPEN" ELSE base.status
    BY <1>6, OpenedShape
  <2>2. opened.from = "null" /\ opened.kind = base.kind /\ opened.criteria = base.criteria
    BY <1>4, <2>1 DEF Fields
  <2>3. Derived(opened)
    BY <2>1, <2>2 DEF Derived, Effective, Opens
  <2> QED BY <2>3
<1> QED BY <1>7, <1>8, <1>9

-----------------------------------------------------------------------------
(* The steps. *)

\* What CREATE does: a new record that carries its dependencies.
Born(t, r) ==
  /\ t \in Token \ DOMAIN ticket /\ DependenciesSound(t, Edges(r.deps))
  /\ Shape(Actors, r) /\ Derived(r) /\ Valid(t, r)
  /\ ticket' = [u \in DOMAIN ticket \cup {t} |-> IF u = t THEN r ELSE ticket[u]]

\* Where allocateSerial has a candidate it takes one of them, the least.
LEMMA LeastCandidate ==
  ASSUME NEW S \in SUBSET Nat, S # {}
  PROVE  (CHOOSE n \in S : \A m \in S : n <= m) \in S
BY LeastOfSome

\* A CREATE's serial is one that no record has.
LEMMA IssuedIsFree ==
  ASSUME nextSerial \in 1..MaxSerial, IsFiniteSet(DOMAIN ticket), NEW local \in Token \cup {NoToken},
         Issued(local).local # NoToken
  PROVE  /\ Issued(local).local \in Token /\ Issued(local).local.serial \notin Occupied
         /\ Issued(local).next \in 1..MaxSerial
<1> DEFINE free == {n \in nextSerial..(nextSerial + Cardinality(DOMAIN ticket)) : n < MaxSerial /\ n \notin Occupied}
           least == CHOOSE n \in free : \A m \in free : n <= m
<1>1. MaxSerial \in Nat \ {0} /\ NoToken \notin Token
  BY TicketAssumption
<1>2. Cardinality(DOMAIN ticket) \in Nat
  BY FS_CardinalityType
<1>3. CASE local = NoToken
  <2>1. Issued(local) = AllocateSerial
    BY <1>3 DEF Issued
  <2>2. AllocateSerial =
        IF free = {} THEN NoneIssued ELSE [local |-> [serial |-> least, auto |-> TRUE], next |-> least + 1]
    BY DEF AllocateSerial
  <2> HIDE DEF least
  <2>3. free # {} /\ Issued(local) = [local |-> [serial |-> least, auto |-> TRUE], next |-> least + 1]
    BY <2>1, <2>2 DEF NoneIssued
  <2>4. free \in SUBSET Nat
    BY <1>1, <1>2
  <2>5. least \in free
    BY <2>3, <2>4, LeastCandidate DEF least
  <2>6. least \in 1..MaxSerial /\ least + 1 \in 1..MaxSerial /\ least \notin Occupied
    BY <1>1, <1>2, <2>5
  <2>7. Issued(local).local = [serial |-> least, auto |-> TRUE] /\ Issued(local).next = least + 1
    BY <2>3
  <2>8. [serial |-> least, auto |-> TRUE] \in Token
    BY <2>6 DEF Token
  <2> QED BY <2>6, <2>7, <2>8
<1>4. CASE local # NoToken
  <2>1. Issued(local) = [local |-> local, next |-> nextSerial] /\ local.serial \notin Occupied
    BY <1>4 DEF Issued, NoneIssued
  <2> QED BY <1>4, <2>1
<1> QED BY <1>3, <1>4

\* A queue of sound records, whose manifest has a serial to begin with.
TicketInv ==
  /\ RecordsInv /\ DependenciesResolve
  /\ \A t, u \in DOMAIN ticket : t.serial = u.serial => t = u
  /\ DOMAIN ticket \subseteq Token /\ IsFiniteSet(DOMAIN ticket) /\ nextSerial \in 1..MaxSerial

\* CREATE adds one record to the others.
LEMMA CreateIsBirth ==
  ASSUME TicketInv, CreateTicket
  PROVE  \E t, r : Born(t, r) /\ t.serial \notin Occupied /\ nextSerial' \in 1..MaxSerial
<1>1. PICK who \in Actors, local \in Token \cup {NoToken}, p \in Templates, deps \in DependencyLists :
        Create(who, local, p, deps)
  BY DEF CreateTicket
<1> PICK t : t = Issued(local).local
  OBVIOUS
<1> PICK r : r = CreatedRecord(p, deps)
  OBVIOUS
<1>2. /\ t # NoToken /\ DependenciesSound(t, Edges(deps)) /\ Valid(t, r) /\ nextSerial' = Issued(local).next
      /\ ticket' = [u \in DOMAIN ticket \cup {t} |-> IF u = t THEN r ELSE ticket[u]]
  BY <1>1 DEF Create, Revalidate
<1>3. t \in Token /\ t.serial \notin Occupied /\ nextSerial' \in 1..MaxSerial
  BY <1>2, IssuedIsFree DEF TicketInv
<1>4. t \notin DOMAIN ticket
  BY <1>3 DEF Occupied
<1>5. Shape(Actors, r) /\ Derived(r) /\ r.deps = deps
  <2>1. deps \in Seq(Edge)
    BY TicketAssumption
  <2> QED BY <2>1, CreatedFields
<1>6. Born(t, r)
  BY <1>2, <1>3, <1>4, <1>5 DEF Born
<1> QED BY <1>3, <1>6

\* A verb that is not refused ends in finalize, on a record that is not
\* archived or that it restores.
LEMMA MutateCommits ==
  ASSUME RecordsInv, NEW t \in DOMAIN ticket, NEW who \in Actors, NEW m \in Verbs, Mutate(who, t, ticket[t].rev, m)
  PROVE  \E work, forced : Committed(t, work, forced)
<1> PICK pre : pre = ticket[t]
  OBVIOUS
<1> PICK work : work = Step(who, pre, m)
  OBVIOUS
<1> PICK forced : forced = (m.op \in Forcing)
  OBVIOUS
<1>1. Finalize(t, pre, work, forced) # Refused
      /\ ticket' = [ticket EXCEPT ![t] = Finalize(t, pre, work, forced)] /\ UNCHANGED nextSerial
  BY DEF Mutate, Applied
<1>2. /\ work # Refused /\ FinalizeAllows(t, pre, work, forced) /\ Valid(t, Post(pre, work, forced))
      /\ Finalize(t, pre, work, forced) = Post(pre, work, forced)
  BY <1>1 DEF Finalize, Revalidate
<1>3. Shape(Actors, pre) /\ Derived(pre) /\ SoundRecord(pre)
  BY ShapeIsSound DEF RecordsInv
<1>4. Shape(Actors, work) /\ Derived(work)
  <2>1. Payload(m)
    BY VerbsCarryPayloads
  <2> QED BY <2>1, <1>2, <1>3, StepShape, StepDerives
<1>5. pre.status = "ARCHIVED" => Acceptance(work) = Acceptance(pre)
  BY <1>2, <1>3, ArchivedStep
<1>6. Committed(t, work, forced)
  BY <1>1, <1>2, <1>4, <1>5 DEF Committed
<1> QED BY <1>6

\* So does an adoption, and of no archived record.
LEMMA AdoptCommits ==
  ASSUME RecordsInv, NEW t \in DOMAIN ticket, NEW who \in Actors, NEW file \in FileEdits(ticket[t]),
         Adopted(who, t, file) # Refused,
         ticket' = [ticket EXCEPT ![t] = Adopted(who, t, file)], UNCHANGED nextSerial
  PROVE  \E work, forced : Committed(t, work, forced)
<1> PICK pre : pre = ticket[t]
  OBVIOUS
<1> PICK work : work = Composed(who, pre, file)
  OBVIOUS
<1>1. /\ Adopted(who, t, file) = Finalize(t, pre, work, FALSE) /\ pre.status # "ARCHIVED"
      /\ Valid(t, file) /\ work # Refused
  BY DEF Adopted, Adoptable, Revalidate
<1>2. /\ FinalizeAllows(t, pre, work, FALSE) /\ Valid(t, Post(pre, work, FALSE))
      /\ Finalize(t, pre, work, FALSE) = Post(pre, work, FALSE)
  BY <1>1 DEF Finalize, Revalidate
<1>3. Shape(Actors, work) /\ Derived(work)
  BY <1>1, AdoptionShape DEF RecordsInv
<1>4. Committed(t, work, FALSE)
  BY <1>1, <1>2, <1>3 DEF Committed
<1> QED BY <1>4

\* Every step is the birth of a record or the commit of a change to one.
LEMMA StepsOfTickets ==
  ASSUME TicketInv, TicketNext
  PROVE  \/ \E t, r : Born(t, r) /\ t.serial \notin Occupied /\ nextSerial' \in 1..MaxSerial
         \/ \E t \in DOMAIN ticket : \E work, forced : Committed(t, work, forced)
<1>1. CASE CreateTicket
  BY <1>1, CreateIsBirth
<1>2. CASE AdoptFile
  <2>1. PICK t \in DOMAIN ticket, who \in Actors : \E file \in FileEdits(ticket[t]) :
          /\ Adopted(who, t, file) # Refused
          /\ ticket' = [ticket EXCEPT ![t] = Adopted(who, t, file)]
          /\ UNCHANGED nextSerial
    BY <1>2 DEF AdoptFile
  <2> QED BY <2>1, AdoptCommits DEF TicketInv
<1>3. ASSUME NEW payloads \in SUBSET Verbs, Issue(payloads)
      PROVE  \E t \in DOMAIN ticket : \E work, forced : Committed(t, work, forced)
  <2>1. PICK t \in DOMAIN ticket, who \in Actors, m \in payloads : Mutate(who, t, ticket[t].rev, m)
    BY <1>3 DEF Issue
  <2> QED BY <2>1, MutateCommits DEF TicketInv
<1>4. CASE \/ Refine \/ Prioritize \/ SetDependencies \/ SetGates \/ SetEffects
           \/ PlaceHold \/ ReleaseHold \/ Reopen \/ Archive \/ Restore \/ CompleteManual
           \/ GrantApproval \/ RevokeApproval
  <2>1. \E payloads \in SUBSET Verbs : Issue(payloads)
    BY <1>4 DEF Verbs, EditVerbs, Refine, Prioritize, SetDependencies, SetGates, SetEffects, PlaceHold, ReleaseHold,
      Reopen, Archive, Restore, CompleteManual, GrantApproval, RevokeApproval
  <2> QED BY <2>1, <1>3
<1> QED BY <1>1, <1>2, <1>4 DEF TicketNext

-----------------------------------------------------------------------------
(* The invariant. *)

\* What Committed does to the record it is about, and to no other.
LEMMA CommittedRecord ==
  ASSUME RecordsInv, NEW t \in DOMAIN ticket, NEW work, NEW forced, Committed(t, work, forced)
  PROVE  /\ DOMAIN ticket' = DOMAIN ticket /\ nextSerial' = nextSerial
         /\ \A u \in DOMAIN ticket \ {t} : ticket'[u] = ticket[u]
         /\ ticket'[t] = Post(ticket[t], work, forced)
         /\ Shape(Actors, ticket'[t]) /\ Derived(ticket'[t]) /\ Valid(t, ticket'[t])
         /\ ticket'[t].deps = work.deps
<1> PICK pre : pre = ticket[t]
  OBVIOUS
<1> PICK post : post = Post(pre, work, forced)
  OBVIOUS
<1>1. /\ ticket' = [ticket EXCEPT ![t] = post] /\ nextSerial' = nextSerial
      /\ Valid(t, post) /\ Shape(Actors, work) /\ Derived(work) /\ pre.rev < MaxCount
  BY DEF Committed, FinalizeAllows
<1>2. Shape(Actors, pre) /\ SoundRecord(pre) /\ MaxCount \in Nat
  BY ShapeIsSound, TicketAssumption DEF RecordsInv
<1>3. /\ DOMAIN post = Fields /\ post = [k \in Fields |-> post[k]]
      /\ post.rev = pre.rev + 1
      /\ post.acc = IF Bumps(pre, work, forced) THEN pre.acc + 1 ELSE pre.acc
      /\ \A k \in Fields \ {"rev", "acc"} : post[k] = work[k]
  BY <1>2, PostFields
<1>4. post.rev \in 1..MaxCount /\ post.acc \in 1..MaxCount
  <2>1. pre.rev \in 1..MaxCount /\ pre.acc \in 1..MaxCount
    BY <1>2 DEF Shape
  <2>2. post.acc <= post.rev
    BY <1>1 DEF Valid
  <2> QED BY <1>1, <1>2, <1>3, <2>1, <2>2
<1>5. Shape(Actors, post) /\ Derived(post) /\ post.deps = work.deps
  <2>1. /\ post.status = work.status /\ post.from = work.from /\ post.body = work.body /\ post.priority = work.priority
        /\ post.kind = work.kind /\ post.criteria = work.criteria /\ post.deps = work.deps /\ post.gates = work.gates
        /\ post.class = work.class /\ post.effects = work.effects /\ post.supersedes = work.supersedes
        /\ post.source = work.source /\ post.holds = work.holds /\ post.approvals = work.approvals
        /\ post.completion = work.completion
    BY <1>3 DEF Fields
  <2>2. Derived(post)
    BY <1>1, <2>1 DEF Derived, Effective, Opens
  <2>3. Shape(Actors, post)
    BY <1>1, <1>3, <1>4, <2>1 DEF Shape
  <2> QED BY <2>1, <2>2, <2>3
<1> QED BY <1>1, <1>5

\* Dependencies that CheckDependencies let pass leave no group waiting for
\* itself: of a group that did, those the search visited did so before.
LEMMA RewiredResolves ==
  ASSUME DependenciesResolve, NEW next, NEW t, DOMAIN next = DOMAIN ticket \cup {t},
         \A u \in DOMAIN ticket \ {t} : next[u].deps = ticket[u].deps,
         DependenciesSound(t, Edges(next[t].deps))
  PROVE  /\ \A u \in DOMAIN next : \A e \in Edges(next[u].deps) : e.on \in DOMAIN next
         /\ \A group \in (SUBSET DOMAIN next) \ {{}} :
              \E u \in group : \A e \in Edges(next[u].deps) : e.on \notin group
<1>1. PICK visited \in SUBSET (DOMAIN ticket \ {t}) :
        /\ \A e \in Edges(next[t].deps) : e.on \in visited
        /\ \A v \in visited : \A e \in Edges(ticket[v].deps) : e.on \in DOMAIN ticket \cup {t} => e.on \in visited
  BY DEF DependenciesSound
<1>2. \A u \in DOMAIN next : \A e \in Edges(next[u].deps) : e.on \in DOMAIN next
  BY <1>1 DEF DependenciesResolve
<1>3. ASSUME NEW group \in (SUBSET DOMAIN next) \ {{}},
             \A u \in group : \E e \in Edges(next[u].deps) : e.on \in group
      PROVE  FALSE
  <2>1. CASE t \notin group
    <3>1. group \in (SUBSET DOMAIN ticket) \ {{}}
      BY <2>1
    <3>2. \A u \in group : next[u].deps = ticket[u].deps
      BY <2>1
    <3> QED BY <3>1, <3>2, <1>3 DEF DependenciesResolve
  <2>2. CASE t \in group
    <3> PICK met : met = group \cap visited
      OBVIOUS
    <3>1. PICK e \in Edges(next[t].deps) : e.on \in group
      BY <2>2, <1>3
    <3>2. e.on \in met
      BY <3>1, <1>1
    <3>3. met \in (SUBSET DOMAIN ticket) \ {{}}
      BY <3>2
    <3>4. ASSUME NEW u \in met
          PROVE  \E d \in Edges(ticket[u].deps) : d.on \in met
      <4>1. u \in DOMAIN ticket \ {t} /\ u \in group /\ u \in visited
        OBVIOUS
      <4>2. PICK d \in Edges(next[u].deps) : d.on \in group
        BY <4>1, <1>3
      <4>3. d \in Edges(ticket[u].deps)
        BY <4>1, <4>2
      <4>4. d.on \in visited
        BY <4>1, <4>2, <4>3, <1>1
      <4> QED BY <4>2, <4>3, <4>4
    <3> QED BY <3>3, <3>4 DEF DependenciesResolve
  <2> QED BY <2>1, <2>2
<1> QED BY <1>2, <1>3

\* An empty queue.
LEMMA TicketInitial == TicketInit => TicketInv
<1> SUFFICES ASSUME TicketInit PROVE TicketInv
  OBVIOUS
<1>1. DOMAIN ticket = {} /\ nextSerial = 1 /\ MaxSerial \in Nat \ {0}
  BY TicketAssumption DEF TicketInit
<1>2. RecordsInv /\ DependenciesResolve
  BY <1>1 DEF RecordsInv, DependenciesResolve
<1>3. IsFiniteSet(DOMAIN ticket)
  BY <1>1, FS_EmptySet
<1> QED BY <1>1, <1>2, <1>3 DEF TicketInv

\* Every verb, CREATE and every adoption preserve the invariant.
LEMMA TicketStep == TicketInv /\ [TicketNext]_tickets => TicketInv'
<1> SUFFICES ASSUME TicketInv, [TicketNext]_tickets
             PROVE  TicketInv'
  OBVIOUS
<1> PICK next : next = ticket'
  OBVIOUS
<1>1. ASSUME NEW t, NEW r, Born(t, r), t.serial \notin Occupied, nextSerial' \in 1..MaxSerial
      PROVE  TicketInv'
  <2>1. /\ t \notin DOMAIN ticket /\ DOMAIN next = DOMAIN ticket \cup {t} /\ next[t] = r
        /\ \A u \in DOMAIN ticket : next[u] = ticket[u]
        /\ t \in Token /\ Shape(Actors, r) /\ Derived(r) /\ Valid(t, r) /\ DependenciesSound(t, Edges(r.deps))
    BY <1>1 DEF Born
  <2>2. RecordsInv'
    BY <2>1 DEF TicketInv, RecordsInv
  <2>3. /\ \A u \in DOMAIN next : \A e \in Edges(next[u].deps) : e.on \in DOMAIN next
        /\ \A group \in (SUBSET DOMAIN next) \ {{}} :
             \E u \in group : \A e \in Edges(next[u].deps) : e.on \notin group
    BY <2>1, RewiredResolves DEF TicketInv
  <2>4. DependenciesResolve'
    BY <2>3 DEF DependenciesResolve
  <2>5. \A u \in DOMAIN ticket : u.serial # t.serial
    BY <1>1 DEF Occupied
  <2>6. \A u, v \in DOMAIN next : u.serial = v.serial => u = v
    BY <2>1, <2>5 DEF TicketInv
  <2>7. IsFiniteSet(DOMAIN next)
    BY <2>1, FS_AddElement DEF TicketInv
  <2> QED BY <1>1, <2>1, <2>2, <2>4, <2>6, <2>7 DEF TicketInv
<1>2. ASSUME NEW t \in DOMAIN ticket, NEW work, NEW forced, Committed(t, work, forced)
      PROVE  TicketInv'
  <2>1. /\ DOMAIN next = DOMAIN ticket /\ nextSerial' = nextSerial
        /\ \A u \in DOMAIN ticket \ {t} : next[u] = ticket[u]
        /\ Shape(Actors, next[t]) /\ Derived(next[t]) /\ Valid(t, next[t]) /\ next[t].deps = work.deps
    BY <1>2, CommittedRecord DEF TicketInv
  <2>2. RecordsInv'
    BY <2>1 DEF TicketInv, RecordsInv
  <2>3. ticket[t].deps = work.deps \/ DependenciesSound(t, Edges(work.deps))
    BY <1>2 DEF Committed, FinalizeAllows, CheckRecord
  <2>4. /\ \A u \in DOMAIN next : \A e \in Edges(next[u].deps) : e.on \in DOMAIN next
        /\ \A group \in (SUBSET DOMAIN next) \ {{}} :
             \E u \in group : \A e \in Edges(next[u].deps) : e.on \notin group
    <3>1. CASE ticket[t].deps = work.deps
      <4>1. \A u \in DOMAIN ticket : next[u].deps = ticket[u].deps
        BY <2>1, <3>1
      <4> QED BY <2>1, <4>1 DEF TicketInv, DependenciesResolve
    <3>2. CASE DependenciesSound(t, Edges(work.deps))
      <4>1. DependenciesResolve /\ DependenciesSound(t, Edges(next[t].deps))
        BY <2>1, <3>2 DEF TicketInv
      <4>2. DOMAIN next = DOMAIN ticket \cup {t} /\ \A u \in DOMAIN ticket \ {t} : next[u].deps = ticket[u].deps
        BY <2>1
      <4> QED BY <4>1, <4>2, RewiredResolves
    <3> QED BY <2>3, <3>1, <3>2
  <2>5. DependenciesResolve'
    BY <2>4 DEF DependenciesResolve
  <2> QED BY <2>1, <2>2, <2>5 DEF TicketInv
<1>3. CASE UNCHANGED tickets
  BY <1>3 DEF tickets, TicketInv, RecordsInv, DependenciesResolve
<1> QED BY <1>1, <1>2, <1>3, StepsOfTickets

\* The invariant of every behaviour.
THEOREM TicketsSound == TicketSpec => []TicketInv
BY TicketInitial, TicketStep, PTL DEF TicketSpec

-----------------------------------------------------------------------------
(* The rules. *)

\* Every dependency leads to a record and no group of tickets waits for itself,
\* though CheckDependencies looks at one proposed record at a time.
THEOREM NoTicketWaitsForItself == TicketSpec => []DependenciesResolve
<1>1. TicketInv => DependenciesResolve
  BY DEF TicketInv
<1> QED BY <1>1, TicketsSound, PTL

\* While a serial is free allocateSerial finds one: it tries one candidate more
\* than there are records to occupy them.
LEMMA SerialFound ==
  ASSUME TicketInv, NEW n \in nextSerial..(MaxSerial - 1), n \notin Occupied
  PROVE  AllocateSerial.local # NoToken
<1> PICK size : size = Cardinality(DOMAIN ticket)
  OBVIOUS
<1> DEFINE window == nextSerial..(nextSerial + size)
           free == {k \in window : k < MaxSerial /\ k \notin Occupied}
           least == CHOOSE k \in free : \A m \in free : k <= m
<1>1. /\ MaxSerial \in Nat \ {0} /\ NoToken \notin Token /\ IsFiniteSet(DOMAIN ticket)
      /\ nextSerial \in 1..MaxSerial
  BY TicketAssumption DEF TicketInv
<1>2. size \in Nat
  BY <1>1, FS_CardinalityType
<1>3. free # {}
  <2>1. SUFFICES ASSUME free = {} PROVE FALSE
    OBVIOUS
  <2>2. nextSerial + size < n
    BY <1>1, <1>2, <2>1
  <2>3. window \subseteq Occupied
    BY <1>1, <1>2, <2>1, <2>2
  <2> PICK f : f = [t \in DOMAIN ticket |-> t.serial]
    OBVIOUS
  <2>4. f \in Surjection(DOMAIN ticket, Occupied)
    BY DEF Surjection, Occupied
  <2>5. IsFiniteSet(Occupied) /\ Cardinality(Occupied) <= size
    BY <1>1, <2>4, FS_Surjection
  <2>6. IsFiniteSet(window) /\ Cardinality(window) = size + 1
    <3> PICK last : last = nextSerial + size
      OBVIOUS
    <3>1. nextSerial \in Int /\ last \in Int /\ nextSerial <= last /\ last - nextSerial + 1 = size + 1
      BY <1>1, <1>2
    <3>2. IsFiniteSet(nextSerial..last)
          /\ Cardinality(nextSerial..last) = IF nextSerial > last THEN 0 ELSE last - nextSerial + 1
      BY <3>1, FS_Interval
    <3> QED BY <3>1, <3>2
  <2>7. Cardinality(window) <= Cardinality(Occupied) /\ Cardinality(Occupied) \in Nat
    BY <2>3, <2>5, FS_Subset, FS_CardinalityType
  <2> QED BY <1>2, <2>5, <2>6, <2>7
<1>4. free \in SUBSET Nat
  BY <1>1, <1>2
<1>5. least \in free
  BY <1>3, <1>4, LeastCandidate
<1>6. AllocateSerial =
        IF free = {} THEN NoneIssued ELSE [local |-> [serial |-> least, auto |-> TRUE], next |-> least + 1]
  BY DEF AllocateSerial
<1> HIDE DEF least
<1>7. AllocateSerial.local = [serial |-> least, auto |-> TRUE]
  BY <1>3, <1>6
<1>8. least \in 1..MaxSerial
  BY <1>1, <1>2, <1>5
<1>9. [serial |-> least, auto |-> TRUE] \in Token
  BY <1>8 DEF Token
<1> QED BY <1>1, <1>7, <1>9

\* Records differ in their serials, and CREATE is not wedged while one is free.
THEOREM SerialsNeverWedge == TicketSpec => []SerialsSound
<1>1. TicketInv => SerialsSound
  BY SerialFound DEF TicketInv, SerialsSound
<1> QED BY <1>1, TicketsSound, PTL

\* Every field of every record is of its type, and no acceptanceRevision is ahead
\* of its revision: verbs, payloads, creations and hand edits bring nothing else.
THEOREM RecordsWellTyped == TicketSpec => []TicketTypeOK
<1>1. ASSUME TicketInv
      PROVE  TicketTypeOK
  <2>1. \A t \in DOMAIN ticket : ticket[t] \in Record /\ ticket[t].acc <= ticket[t].rev
    BY <1>1, ShapedRecords DEF TicketInv, RecordsInv, Valid
  <2> QED BY <1>1, <2>1 DEF TicketTypeOK, TicketInv
<1> QED BY <1>1, TicketsSound, PTL

\* The step rules, and what finalize asks before it writes the chain fields, keep
\* a record inside the closed validator, but for the predecessor and the list of
\* edges it came with.
LEMMA StepsKeepValid ==
  ASSUME TicketInv, NEW t \in DOMAIN ticket, NEW m \in Verbs,
         NEW r, r = ticket[t], NEW work, work = Step("OWNER", r, m), NEW forced,
         work # Refused, FinalizeAllows(t, r, work, forced),
         work.supersedes # t, EdgesProper(work.deps), Len(work.deps) <= MaxDependencies
  PROVE  Valid(t, Post(r, work, forced))
<1> PICK post : post = Post(r, work, forced)
  OBVIOUS
<1> PICK A : A = Actors \cup {"OWNER"}
  OBVIOUS
<1>1. Shape(Actors, r) /\ Valid(t, r) /\ SoundRecord(r)
  BY ShapeIsSound DEF TicketInv, RecordsInv
<1>2. Shape(A, r)
  BY <1>1, MoreActors
<1>3. Settled(r)
  BY <1>1 DEF Valid, Settled
<1>4. Payload(m)
  BY VerbsCarryPayloads
<1>5. Shape(A, work)
  BY <1>2, <1>4, StepShape
<1>6. Settled(work)
  BY <1>2, <1>3, <1>4, StepSettles
<1>7. /\ post.rev = r.rev + 1
      /\ post.acc = IF Bumps(r, work, forced) THEN r.acc + 1 ELSE r.acc
      /\ \A k \in Fields \ {"rev", "acc"} : post[k] = work[k]
  BY <1>1, PostFields
<1>8. post.acc <= post.rev
  BY <1>1, <1>7 DEF Valid, SoundRecord
<1>9. /\ post.status = work.status /\ post.from = work.from /\ post.holds = work.holds
      /\ post.approvals = work.approvals /\ post.completion = work.completion
      /\ post.deps = work.deps /\ post.supersedes = work.supersedes
  BY <1>7 DEF Fields
<1>10. \A e \in Edges(work.deps) : e.on # t
  <2>1. CASE work.deps = r.deps
    BY <1>1, <2>1 DEF Valid
  <2>2. CASE work.deps # r.deps
    BY <2>2 DEF FinalizeAllows, CheckRecord, DependenciesSound
  <2> QED BY <2>1, <2>2
<1>11. (work.status = "ARCHIVED") <=> (work.from # "null")
  BY <1>5 DEF Shape
<1>12. EdgesProper(post.deps) /\ Len(post.deps) <= MaxDependencies
  BY <1>9
<1>13. Valid(t, post)
  BY <1>6, <1>8, <1>9, <1>10, <1>11, <1>12 DEF Valid, Settled, Effective
<1> QED BY <1>13

\* A revision names one record and an acceptanceRevision one acceptance, and a
\* completion keeps the acceptance it completed, through an archival too.
THEOREM AcceptancePinned == TicketSpec => AcceptanceIsPinned
<1>1. ASSUME TicketInv, [TicketNext]_tickets, NEW u \in DOMAIN ticket
      PROVE  PinnedStep(ticket[u], ticket'[u])
  <2>1. CASE ticket'[u] = ticket[u]
    BY <2>1 DEF PinnedStep
  <2>2. ASSUME NEW work, NEW forced, Committed(u, work, forced)
        PROVE  PinnedStep(ticket[u], ticket'[u])
    <3> PICK pre : pre = ticket[u]
      OBVIOUS
    <3> PICK post : post = Post(pre, work, forced)
      OBVIOUS
    <3>1. SoundRecord(pre) /\ ticket'[u] = post
      BY <1>1, <2>2, CommittedRecord, ShapeIsSound DEF TicketInv, RecordsInv
    <3>2. /\ post.rev = pre.rev + 1
          /\ post.acc = IF Bumps(pre, work, forced) THEN pre.acc + 1 ELSE pre.acc
          /\ Acceptance(post) = Acceptance(work)
      BY <3>1, PostFields
    <3>3. post.rev # pre.rev
      BY <3>1, <3>2 DEF SoundRecord
    <3>4. post.acc = pre.acc => Acceptance(post) = Acceptance(pre)
      <4>1. post.acc = pre.acc => ~Bumps(pre, work, forced)
        BY <3>1, <3>2 DEF SoundRecord
      <4> QED BY <3>2, <4>1 DEF Bumps
    <3>5. Effective(pre) = "COMPLETED" => pre.status = "COMPLETED" \/ pre.status = "ARCHIVED"
      BY <3>1 DEF Effective, SoundRecord
    <3>6. pre.status = "COMPLETED" \/ pre.status = "ARCHIVED" => Acceptance(work) = Acceptance(pre)
      BY <2>2 DEF Committed, FinalizeAllows
    <3> QED BY <3>1, <3>2, <3>3, <3>4, <3>5, <3>6 DEF PinnedStep
  <2>3. ASSUME NEW t, NEW r, Born(t, r)
        PROVE  ticket'[u] = ticket[u]
    BY <2>3 DEF Born
  <2>4. ASSUME NEW t \in DOMAIN ticket, t # u, NEW work, NEW forced, Committed(t, work, forced)
        PROVE  ticket'[u] = ticket[u]
    BY <1>1, <2>4, CommittedRecord DEF TicketInv
  <2>5. CASE UNCHANGED tickets
    BY <2>1, <2>5 DEF tickets
  <2> QED BY <1>1, <2>1, <2>2, <2>3, <2>4, <2>5, StepsOfTickets
<1>2. TicketInv /\ [TicketNext]_tickets => \A t \in DOMAIN ticket : PinnedStep(ticket[t], ticket'[t])
  BY <1>1
<1> QED BY <1>2, TicketsSound, PTL DEF TicketSpec, AcceptanceIsPinned

-----------------------------------------------------------------------------
(* A hand edit and the verb it could have been. *)

\* A list of entries with one id has one verb, a list of none has none.
LEMMA VerbsOfHolds ==
  ASSUME NEW S, NEW some \in Seq(S), NEW op
  PROVE  /\ Ids(some) = {} => HoldVerbs(op, some) = << >>
         /\ \A id : Ids(some) = {id} /\ Distinct(some) => HoldVerbs(op, some) = <<[op |-> op, id |-> id]>>
<1> PICK n : n = Len(some)
  OBVIOUS
<1>1. n \in Nat /\ DOMAIN some = 1..n
  BY LenProperties
<1> PICK verbs : verbs = HoldVerbs(op, some)
  OBVIOUS
<1>2. verbs = [i \in 1..n |-> [op |-> op, id |-> some[i].id]]
  BY <1>1 DEF HoldVerbs
<1> PICK P : P = {[op |-> op, id |-> some[i].id] : i \in 1..n}
  OBVIOUS
<1>3. verbs \in [1..n -> P]
  BY <1>2
<1>4. verbs \in Seq(P) /\ DOMAIN verbs = 1..n
  BY <1>1, <1>3, FunctionIsSeq
<1>5. Len(verbs) = n
  <2>1. Len(verbs) \in Nat /\ 1..Len(verbs) = 1..n
    BY <1>4, LenProperties
  <2> QED BY <2>1, <1>1
<1>6. ASSUME Ids(some) = {}
      PROVE  verbs = << >>
  <2>1. n = 0
    <3>1. ASSUME 1 \in 1..n
          PROVE  some[1].id \in Ids(some)
      BY <1>1, <3>1 DEF Ids
    <3> QED BY <1>1, <1>6, <3>1
  <2> QED BY <2>1, <1>4, <1>5, EmptySeq
<1>7. ASSUME NEW id, Ids(some) = {id}, Distinct(some)
      PROVE  verbs = <<[op |-> op, id |-> id]>>
  <2>1. \A i \in 1..n : some[i].id = id
    BY <1>1, <1>7 DEF Ids
  <2>2. PICK k \in 1..n : some[k].id = id
    BY <1>1, <1>7 DEF Ids
  <2>3. \A i \in 1..n, j \in 1..n : i = j
    BY <1>1, <1>7, <2>1 DEF Distinct
  <2>4. n = 1
    <3>1. 1 \in 1..n /\ n \in 1..n
      BY <1>1, <2>2
    <3> QED BY <3>1, <2>3
  <2> PICK m : m = [op |-> op, id |-> id]
    OBVIOUS
  <2>5. verbs[1] = m
    BY <1>2, <2>1, <2>4
  <2>6. verbs \in [1..1 -> {m}] /\ <<m>> \in [1..1 -> {m}] /\ <<m>>[1] = m
    BY <1>2, <2>4, <2>5
  <2> QED BY <2>5, <2>6
<1> QED BY <1>6, <1>7

\* The entries that were there before one more was appended.
LEMMA ChosenBeforeAppend ==
  ASSUME NEW T, NEW entries \in Seq(T), NEW e \in T, NEW ids, e.id \notin ids, Ids(entries) \subseteq ids
  PROVE  Chosen(Append(entries, e), ids) = entries
<1> PICK n : n = Len(entries)
  OBVIOUS
<1> PICK more : more = Append(entries, e)
  OBVIOUS
<1>1. n \in Nat /\ DOMAIN entries = 1..n
  BY LenProperties
<1>2. more \in Seq(T) /\ Len(more) = n + 1 /\ more[n + 1] = e /\ \A i \in 1..n : more[i] = entries[i]
  BY AppendProperties
<1>3. PICK upTo : Choosing(more, ids, n + 1, upTo) /\ Chosen(more, ids) = upTo[n + 1]
  BY <1>2, ChosenFromLoop
<1>4. Found(T, more, ids, n, upTo[n])
  <2>1. n \in 0..Len(more)
    BY <1>1, <1>2
  <2>2. more \in Seq(T) /\ Choosing(more, ids, Len(more), upTo)
    BY <1>2, <1>3
  <2> QED BY ONLY <2>1, <2>2, ChoosingFinds
<1>5. upTo[n + 1] = upTo[n]
  <2>1. n + 1 \in 0..(n + 1) /\ n + 1 # 0 /\ (n + 1) - 1 = n
    BY <1>1
  <2>2. upTo[n + 1] = IF more[n + 1].id \in ids THEN Append(upTo[n], more[n + 1]) ELSE upTo[n]
    BY <1>3, <2>1 DEF Choosing
  <2> QED BY <1>2, <2>2
<1>6. \A i \in 1..n : more[i].id \in ids
  BY <1>1, <1>2 DEF Ids
<1>7. upTo[n] \in Seq(T) /\ Len(upTo[n]) = n /\ \A j \in 1..n : upTo[n][j] = entries[j]
  BY <1>2, <1>4, <1>6 DEF Found
<1>8. upTo[n] = entries
  BY <1>7, SeqEqual
<1> QED BY <1>3, <1>5, <1>8

\* An adoption that composes no verb leaves the record, one that composes one
\* verb does what the verb does.
LEMMA ShortCompositions ==
  ASSUME NEW who, NEW r, NEW file
  PROVE  /\ Composition(r, file) = << >> => Composed(who, r, file) = r
         /\ \A m : Composition(r, file) = <<m>> => Composed(who, r, file) = Step(who, r, m)
<1> PICK verbs : verbs = Composition(r, file)
  OBVIOUS
<1>1. ASSUME verbs = << >>
      PROVE  Composed(who, r, file) = r
  <2>1. Len(verbs) = 0
    BY <1>1
  <2>2. PICK work : Composing(who, r, verbs, 0, work) /\ Composed(who, r, file) = work[0]
    BY <2>1, ComposedFromLoop
  <2> QED BY <2>2 DEF Composing
<1>2. ASSUME NEW m, verbs = <<m>>
      PROVE  Composed(who, r, file) = Step(who, r, m)
  <2>1. Len(verbs) = 1 /\ verbs[1] = m
    BY <1>2
  <2>2. PICK work : Composing(who, r, verbs, 1, work) /\ Composed(who, r, file) = work[1]
    <3>1. Len(verbs) \in Nat
      BY <2>1
    <3>2. \E work : Composing(who, r, verbs, Len(verbs), work) /\ Composed(who, r, file) = work[Len(verbs)]
      BY <3>1, ComposedFromLoop
    <3> QED BY ONLY <2>1, <3>2
  <2>3. work[0] = r /\ work[1] = Step(who, work[0], verbs[1])
    BY <2>2 DEF Composing
  <2> QED BY <2>1, <2>2, <2>3
<1> QED BY <1>1, <1>2

\* One more entry brings one more id.
LEMMA AppendIds ==
  ASSUME NEW T, NEW entries \in Seq(T), NEW e \in T
  PROVE  Ids(Append(entries, e)) = Ids(entries) \cup {e.id}
<1> PICK n : n = Len(entries)
  OBVIOUS
<1> PICK more : more = Append(entries, e)
  OBVIOUS
<1>1. n \in Nat /\ DOMAIN entries = 1..n
  BY LenProperties
<1>2. more \in Seq(T) /\ Len(more) = n + 1 /\ more[n + 1] = e /\ \A i \in 1..n : more[i] = entries[i]
  BY AppendProperties
<1>3. DOMAIN more = 1..(n + 1)
  BY <1>2, LenProperties
<1>4. Ids(more) \subseteq Ids(entries) \cup {e.id}
  <2>1. ASSUME NEW i \in 1..(n + 1)
        PROVE  more[i].id \in {entries[j].id : j \in DOMAIN entries} \cup {e.id}
    <3>1. CASE i \in 1..n
      BY <1>1, <1>2, <3>1
    <3>2. CASE i = n + 1
      BY <1>2, <3>2
    <3> QED BY <1>1, <3>1, <3>2
  <2> QED BY <1>3, <2>1 DEF Ids
<1>5. Ids(entries) \subseteq Ids(more)
  <2>1. ASSUME NEW i \in 1..n
        PROVE  entries[i].id \in {more[j].id : j \in DOMAIN more}
    BY <1>1, <1>2, <1>3
  <2> QED BY <1>1, <2>1 DEF Ids
<1>6. e.id \in Ids(more)
  <2>1. n + 1 \in DOMAIN more /\ more[n + 1].id = e.id
    BY <1>1, <1>2, <1>3
  <2> QED BY <2>1 DEF Ids
<1> QED BY <1>4, <1>5, <1>6

\* Seven lists and what they are together.
Joined(P, a, b, c, d, e, f, g, all) ==
  /\ a \in Seq(P) /\ b \in Seq(P) /\ c \in Seq(P) /\ d \in Seq(P) /\ e \in Seq(P) /\ f \in Seq(P) /\ g \in Seq(P)
  /\ all = a \o b \o c \o d \o e \o f \o g

\* A composition all of whose parts but one are empty is that part.
LEMMA OnePart ==
  ASSUME NEW P, NEW a, NEW b, NEW c, NEW d, NEW e, NEW f, NEW g, NEW all, Joined(P, a, b, c, d, e, f, g, all)
  PROVE  /\ b = << >> /\ c = << >> /\ d = << >> /\ e = << >> /\ f = << >> /\ g = << >> => all = a
         /\ a = << >> /\ c = << >> /\ d = << >> /\ e = << >> /\ f = << >> /\ g = << >> => all = b
         /\ a = << >> /\ b = << >> /\ d = << >> /\ e = << >> /\ f = << >> /\ g = << >> => all = c
         /\ a = << >> /\ b = << >> /\ c = << >> /\ e = << >> /\ f = << >> /\ g = << >> => all = d
         /\ a = << >> /\ b = << >> /\ c = << >> /\ d = << >> /\ f = << >> /\ g = << >> => all = e
         /\ a = << >> /\ b = << >> /\ c = << >> /\ d = << >> /\ e = << >> /\ g = << >> => all = f
         /\ a = << >> /\ b = << >> /\ c = << >> /\ d = << >> /\ e = << >> /\ f = << >> => all = g
<1>0. /\ a \in Seq(P) /\ b \in Seq(P) /\ c \in Seq(P) /\ d \in Seq(P) /\ e \in Seq(P) /\ f \in Seq(P) /\ g \in Seq(P)
      /\ all = a \o b \o c \o d \o e \o f \o g
  BY DEF Joined
<1>1. \A s \in Seq(P) : s \o << >> = s /\ << >> \o s = s
  BY ConcatEmptySeq
<1>2. << >> \in Seq(P)
  BY EmptySeq
<1>3. ASSUME b = << >>, c = << >>, d = << >>, e = << >>, f = << >>, g = << >>
      PROVE  all = a
  BY <1>0, <1>1, <1>2, <1>3
<1>4. ASSUME a = << >>, c = << >>, d = << >>, e = << >>, f = << >>, g = << >>
      PROVE  all = b
  BY <1>0, <1>1, <1>2, <1>4
<1>5. ASSUME a = << >>, b = << >>, d = << >>, e = << >>, f = << >>, g = << >>
      PROVE  all = c
  BY <1>0, <1>1, <1>2, <1>5
<1>6. ASSUME a = << >>, b = << >>, c = << >>, e = << >>, f = << >>, g = << >>
      PROVE  all = d
  BY <1>0, <1>1, <1>2, <1>6
<1>7. ASSUME a = << >>, b = << >>, c = << >>, d = << >>, f = << >>, g = << >>
      PROVE  all = e
  BY <1>0, <1>1, <1>2, <1>7
<1>8. ASSUME a = << >>, b = << >>, c = << >>, d = << >>, e = << >>, g = << >>
      PROVE  all = f
  BY <1>0, <1>1, <1>2, <1>8
<1>9. ASSUME a = << >>, b = << >>, c = << >>, d = << >>, e = << >>, f = << >>
      PROVE  all = g
  BY <1>0, <1>1, <1>2, <1>9
<1> QED BY <1>3, <1>4, <1>5, <1>6, <1>7, <1>8, <1>9

\* Fields that do not differ are no verb.
LEMMA NoDifference ==
  ASSUME NEW r, NEW file, NEW op, NEW keys, \A k \in keys : r[k] = file[k]
  PROVE  Changed(r, file, op, keys) = << >> /\ ChangedTogether(r, file, op, keys) = << >>
<1>1. {k \in keys : r[k] # file[k]} = {}
  OBVIOUS
<1> QED BY <1>1 DEF Changed, ChangedTogether

\* The fields one payload sets, for each operation that sets fields.
Sets(op) ==
  CASE op = "REFINE"           -> {{"body"}, {"kind"}, {"criteria"}, {"supersedes"}}
    [] op = "PRIORITIZE"       -> {{"priority"}}
    [] op = "SET_DEPENDENCIES" -> {{"deps"}}
    [] op = "SET_GATES"        -> {{"gates"}}
    [] op = "SET_EFFECTS"      -> {{"class", "effects"}}

\* What an edit carries.
LEMMA EditPayloads ==
  ASSUME NEW m \in EditVerbs
  PROVE  /\ m.op \in Assigning \cup {"HOLD", "RELEASE_HOLD"}
         /\ m.op \in Assigning =>
              m = [op |-> m.op, set |-> [k \in DOMAIN m.set |-> m.set[k]]] /\ DOMAIN m.set \in Sets(m.op)
         /\ m.op \in {"HOLD", "RELEASE_HOLD"} => m = [op |-> m.op, id |-> m.id]
<1>1. CASE m \in Refines
  <2>1. PICK set \in Refinements : m = [op |-> "REFINE", set |-> set]
    BY <1>1 DEF Refines, Assign
  <2>2. set = [k \in DOMAIN set |-> set[k]] /\ DOMAIN set \in {{"body"}, {"kind"}, {"criteria"}, {"supersedes"}}
    BY <2>1 DEF Refinements
  <2> QED BY <2>1, <2>2 DEF Sets, Assigning
<1>2. CASE m \in Prioritizes
  <2>1. PICK set \in [{"priority"} -> Priorities] : m = [op |-> "PRIORITIZE", set |-> set]
    BY <1>2 DEF Prioritizes, Assign
  <2>2. set = [k \in DOMAIN set |-> set[k]] /\ DOMAIN set = {"priority"}
    BY <2>1
  <2> QED BY <2>1, <2>2 DEF Sets, Assigning
<1>3. CASE m \in DependencyChanges
  <2>1. PICK set \in [{"deps"} -> DependencyLists] : m = [op |-> "SET_DEPENDENCIES", set |-> set]
    BY <1>3 DEF DependencyChanges, Assign
  <2>2. set = [k \in DOMAIN set |-> set[k]] /\ DOMAIN set = {"deps"}
    BY <2>1
  <2> QED BY <2>1, <2>2 DEF Sets, Assigning
<1>4. CASE m \in GateChanges
  <2>1. PICK set \in [{"gates"} -> SUBSET Gates] : m = [op |-> "SET_GATES", set |-> set]
    BY <1>4 DEF GateChanges, Assign
  <2>2. set = [k \in DOMAIN set |-> set[k]] /\ DOMAIN set = {"gates"}
    BY <2>1
  <2> QED BY <2>1, <2>2 DEF Sets, Assigning
<1>5. CASE m \in EffectChanges
  <2>1. PICK set \in [class : Classes, effects : EffectSets] : m = [op |-> "SET_EFFECTS", set |-> set]
    BY <1>5 DEF EffectChanges, Assign
  <2>2. set = [k \in DOMAIN set |-> set[k]] /\ DOMAIN set = {"class", "effects"}
    BY <2>1
  <2> QED BY <2>1, <2>2 DEF Sets, Assigning
<1>6. CASE m \in Named("HOLD", HoldIds) \cup Named("RELEASE_HOLD", HoldIds)
  BY <1>6 DEF Named, Assigning
<1> QED BY <1>1, <1>2, <1>3, <1>4, <1>5, <1>6 DEF EditVerbs

\* Holds of no such id are no verb, one hold of such an id is one.
LEMMA HoldParts ==
  ASSUME NEW S, NEW holds \in Seq(S), NEW ids, NEW op
  PROVE  /\ Ids(holds) \cap ids = {} => HoldVerbs(op, Chosen(holds, ids)) = << >>
         /\ \A id : Ids(holds) \cap ids = {id} /\ Distinct(holds)
              => HoldVerbs(op, Chosen(holds, ids)) = <<[op |-> op, id |-> id]>>
<1> PICK some : some = Chosen(holds, ids)
  OBVIOUS
<1>1. some \in Seq(S) /\ Ids(some) = Ids(holds) \cap ids /\ (Distinct(holds) => Distinct(some))
  BY ChosenEntries
<1>2. Ids(some) = {} => HoldVerbs(op, some) = << >>
  BY <1>1, VerbsOfHolds
<1>3. \A id : Ids(some) = {id} /\ Distinct(some) => HoldVerbs(op, some) = <<[op |-> op, id |-> id]>>
  BY <1>1, VerbsOfHolds
<1> QED BY <1>1, <1>2, <1>3

\* What an edit that sets fields makes of a record, but for its status.
LEMMA AssignedFields ==
  ASSUME NEW A, NEW who, NEW r, Shape(A, r), Derived(r), r.status # "ARCHIVED",
         NEW m, m.op \in Assigning, Payload(m), NEW new, new = Effect(who, r, m)
  PROVE  /\ \A k \in DOMAIN m.set : new[k] = m.set[k]
         /\ \A k \in Fields \ (DOMAIN m.set \cup {"status"}) : new[k] = r[k]
         /\ new.status = r.status \/ (r.status = "DRAFT" /\ new.status = "OPEN")
         /\ (\A k \in DOMAIN m.set : m.set[k] = r[k]) => new = r
<1>1. Fits(m.set)
  BY DEF Payload, Assigning, Grants
<1> PICK K : K = DOMAIN m.set
  OBVIOUS
<1> PICK set : set = Overlay(m.set, r)
  OBVIOUS
<1>2. DOMAIN r = Fields /\ K \subseteq SetFields /\ r = [k \in Fields |-> r[k]]
  BY <1>1 DEF Fits, Shape
<1>3. set = [k \in Fields |-> IF k \in K THEN m.set[k] ELSE r[k]]
  BY <1>2 DEF Overlay, Fields, SetFields
<1>4. Shape(A, set)
  BY <1>1, OverlayShape
<1> PICK opened : opened = Opened(set)
  OBVIOUS
<1>5. /\ \A k \in Fields \ {"status"} : opened[k] = set[k]
      /\ opened.status = IF set.status = "DRAFT" /\ Opens(set) THEN "OPEN" ELSE set.status
  BY <1>4, OpenedShape
<1>6. \A k \in K : k # "status" /\ k \in Fields
  BY <1>2 DEF SetFields, Fields
<1>7. set.status = r.status
  BY <1>3, <1>6 DEF Fields
<1>8. new \in {set, opened}
  BY DEF Effect, Assigning
<1>9. /\ \A k \in K : new[k] = m.set[k]
      /\ \A k \in Fields \ (K \cup {"status"}) : new[k] = r[k]
      /\ new.status = r.status \/ (r.status = "DRAFT" /\ new.status = "OPEN")
  BY <1>3, <1>5, <1>6, <1>7, <1>8
<1>10. ASSUME \A k \in K : m.set[k] = r[k]
       PROVE  new = r
  <2>1. set = r
    BY <1>2, <1>3, <1>10
  <2>2. r.status = "DRAFT" => ~Opens(r)
    BY DEF Derived, Effective, Shape
  <2>3. opened = r
    BY <2>1, <2>2 DEF Opened
  <2> QED BY <1>8, <2>1, <2>3
<1> QED BY <1>9, <1>10

\* The parts of a composition by the fields that differ.
LEMMA EqualParts ==
  ASSUME NEW r, NEW file
  PROVE  /\ (\A k \in {"body", "kind", "criteria", "supersedes"} : r[k] = file[k])
              => Changed(r, file, "REFINE", {"body", "kind", "criteria", "supersedes"}) = << >>
         /\ r["priority"] = file["priority"] => ChangedTogether(r, file, "PRIORITIZE", {"priority"}) = << >>
         /\ r["deps"] = file["deps"] => ChangedTogether(r, file, "SET_DEPENDENCIES", {"deps"}) = << >>
         /\ r["gates"] = file["gates"] => ChangedTogether(r, file, "SET_GATES", {"gates"}) = << >>
         /\ r["class"] = file["class"] /\ r["effects"] = file["effects"]
              => ChangedTogether(r, file, "SET_EFFECTS", {"class", "effects"}) = << >>
<1>1. ASSUME \A k \in {"body", "kind", "criteria", "supersedes"} : r[k] = file[k]
      PROVE  Changed(r, file, "REFINE", {"body", "kind", "criteria", "supersedes"}) = << >>
  BY <1>1, NoDifference
<1>2. ASSUME r["priority"] = file["priority"]
      PROVE  ChangedTogether(r, file, "PRIORITIZE", {"priority"}) = << >>
  BY <1>2, NoDifference
<1>3. ASSUME r["deps"] = file["deps"]
      PROVE  ChangedTogether(r, file, "SET_DEPENDENCIES", {"deps"}) = << >>
  BY <1>3, NoDifference
<1>4. ASSUME r["gates"] = file["gates"]
      PROVE  ChangedTogether(r, file, "SET_GATES", {"gates"}) = << >>
  BY <1>4, NoDifference
<1>5. ASSUME r["class"] = file["class"] /\ r["effects"] = file["effects"]
      PROVE  ChangedTogether(r, file, "SET_EFFECTS", {"class", "effects"}) = << >>
  BY <1>5, NoDifference
<1> QED BY <1>1, <1>2, <1>3, <1>4, <1>5

\* The verb that differing fields are.
LEMMA DifferenceIsTheVerb ==
  ASSUME NEW r, NEW file, NEW m, m = [op |-> m.op, set |-> [k \in DOMAIN m.set |-> m.set[k]]],
         \A k \in DOMAIN m.set : file[k] = m.set[k], NEW j \in DOMAIN m.set, r[j] # file[j], NEW keys
  PROVE  /\ DOMAIN m.set = {j} /\ j \in keys /\ (\A k \in keys \ {j} : r[k] = file[k])
              => Changed(r, file, m.op, keys) = <<m>>
         /\ keys = DOMAIN m.set => ChangedTogether(r, file, m.op, keys) = <<m>>
<1> PICK K : K = DOMAIN m.set
  OBVIOUS
<1>1. [k \in K |-> file[k]] = [k \in K |-> m.set[k]]
  OBVIOUS
<1>2. m = [op |-> m.op, set |-> [k \in K |-> file[k]]]
  BY <1>1
<1>3. ASSUME K = {j}, j \in keys, \A k \in keys \ {j} : r[k] = file[k]
      PROVE  Changed(r, file, m.op, keys) = <<m>>
  <2>1. {k \in keys : r[k] # file[k]} = K
    BY <1>3
  <2> QED BY <1>2, <2>1 DEF Changed
<1>4. ASSUME keys = K
      PROVE  ChangedTogether(r, file, m.op, keys) = <<m>>
  BY <1>2, <1>4 DEF ChangedTogether
<1> QED BY <1>3, <1>4

\* A file that has the fields an edit sets composes to that edit, or to nothing
\* when the record had them.
LEMMA AssignedComposition ==
  ASSUME NEW A, NEW who, NEW r, Shape(A, r), Derived(r), r.status # "ARCHIVED",
         NEW m \in EditVerbs, m.op \in Assigning, NEW file, file = Effect(who, r, m), Shape(A, file)
  PROVE  (Composition(r, file) = << >> /\ file = r) \/ Composition(r, file) = <<m>>
<1> PICK K : K = DOMAIN m.set
  OBVIOUS
<1>1. Payload(m) /\ K \in Sets(m.op) /\ m = [op |-> m.op, set |-> [k \in K |-> m.set[k]]]
  BY EditPayloads, VerbsCarryPayloads DEF Verbs
<1>2. /\ \A k \in K : file[k] = m.set[k]
      /\ \A k \in Fields \ (K \cup {"status"}) : file[k] = r[k]
      /\ (\A k \in K : m.set[k] = r[k]) => file = r
  BY <1>1, AssignedFields
<1> PICK a : a = Changed(r, file, "REFINE", {"body", "kind", "criteria", "supersedes"})
  OBVIOUS
<1> PICK b : b = ChangedTogether(r, file, "PRIORITIZE", {"priority"})
  OBVIOUS
<1> PICK c : c = ChangedTogether(r, file, "SET_DEPENDENCIES", {"deps"})
  OBVIOUS
<1> PICK d : d = ChangedTogether(r, file, "SET_GATES", {"gates"})
  OBVIOUS
<1> PICK e : e = ChangedTogether(r, file, "SET_EFFECTS", {"class", "effects"})
  OBVIOUS
<1> PICK f : f = HoldVerbs("HOLD", Only(file.holds, r.holds))
  OBVIOUS
<1> PICK g : g = HoldVerbs("RELEASE_HOLD", Only(r.holds, file.holds))
  OBVIOUS
<1> PICK P : P = Adopting(file)
  OBVIOUS
<1> PICK all : all = a \o b \o c \o d \o e \o f \o g
  OBVIOUS
<1>3. Composition(r, file) = all
  BY DEF Composition
<1>4. /\ b = << >> /\ c = << >> /\ d = << >> /\ e = << >> /\ f = << >> /\ g = << >> => all = a
      /\ a = << >> /\ c = << >> /\ d = << >> /\ e = << >> /\ f = << >> /\ g = << >> => all = b
      /\ a = << >> /\ b = << >> /\ d = << >> /\ e = << >> /\ f = << >> /\ g = << >> => all = c
      /\ a = << >> /\ b = << >> /\ c = << >> /\ e = << >> /\ f = << >> /\ g = << >> => all = d
      /\ a = << >> /\ b = << >> /\ c = << >> /\ d = << >> /\ f = << >> /\ g = << >> => all = e
  <2>1. /\ a \in Seq(P) /\ b \in Seq(P) /\ c \in Seq(P) /\ d \in Seq(P) /\ e \in Seq(P)
        /\ f \in Seq(P) /\ g \in Seq(P)
    BY PartsFit
  <2>2. all = a \o b \o c \o d \o e \o f \o g
    OBVIOUS
  <2>3. Joined(P, a, b, c, d, e, f, g, all)
    BY <2>1, <2>2 DEF Joined
  <2> QED BY ONLY <2>3, OnePart
<1>5. file.holds = r.holds /\ r.holds \in Seq([id : HoldIds, by : A])
  <2>1. K \subseteq SetFields
    BY <1>1 DEF Payload, Fits, Assigning, Grants
  <2>2. "holds" \in Fields \ (K \cup {"status"})
    BY <2>1 DEF Fields, SetFields
  <2>3. r.holds \in Seq([id : HoldIds, by : A])
    BY DEF Shape
  <2> QED BY <1>2, <2>2, <2>3
<1>6. f = << >> /\ g = << >>
  <2>1. Ids(r.holds) \cap (Ids(r.holds) \ Ids(r.holds)) = {}
    OBVIOUS
  <2> QED BY <1>5, <2>1, HoldParts DEF Only
<1>7. /\ (\A k \in {"body", "kind", "criteria", "supersedes"} : r[k] = file[k]) => a = << >>
      /\ r["priority"] = file["priority"] => b = << >>
      /\ r["deps"] = file["deps"] => c = << >>
      /\ r["gates"] = file["gates"] => d = << >>
      /\ r["class"] = file["class"] /\ r["effects"] = file["effects"] => e = << >>
  BY EqualParts
<1>8. CASE \A k \in K : r[k] = file[k]
  <2>1. file = r
    BY <1>2, <1>8
  <2>2. a = << >> /\ b = << >> /\ c = << >> /\ d = << >> /\ e = << >>
    BY <1>7, <2>1
  <2>3. Composition(r, file) = << >>
    BY <1>3, <1>4, <1>6, <2>2
  <2> QED BY <2>1, <2>3
<1>9. CASE \E j \in K : r[j] # file[j]
  <2>1. PICK j \in K : r[j] # file[j]
    BY <1>9
  <2>2. \A keys : /\ K = {j} /\ j \in keys /\ (\A k \in keys \ {j} : r[k] = file[k])
                       => Changed(r, file, m.op, keys) = <<m>>
                  /\ keys = K => ChangedTogether(r, file, m.op, keys) = <<m>>
    <3>1. m = [op |-> m.op, set |-> [k \in DOMAIN m.set |-> m.set[k]]]
      BY <1>1
    <3>2. j \in DOMAIN m.set /\ \A k \in DOMAIN m.set : file[k] = m.set[k]
      BY <1>2
    <3> TAKE keys
    <3>3. /\ DOMAIN m.set = {j} /\ j \in keys /\ (\A k \in keys \ {j} : r[k] = file[k])
               => Changed(r, file, m.op, keys) = <<m>>
          /\ keys = DOMAIN m.set => ChangedTogether(r, file, m.op, keys) = <<m>>
      BY ONLY <3>1, <3>2, <2>1, DifferenceIsTheVerb
    <3> QED BY <3>3
  <2>3. CASE m.op = "REFINE"
    <3>1. K = {j} /\ j \in {"body", "kind", "criteria", "supersedes"}
      BY <1>1, <2>1, <2>3 DEF Sets
    <3>2. a = <<m>>
      <4>1. \A k \in {"body", "kind", "criteria", "supersedes"} \ {j} : r[k] = file[k]
        BY <1>2, <3>1 DEF Fields
      <4> QED BY <2>2, <2>3, <3>1, <4>1
    <3>3. b = << >> /\ c = << >> /\ d = << >> /\ e = << >>
      BY <1>2, <1>7, <3>1 DEF Fields
    <3> QED BY <1>3, <1>4, <1>6, <3>2, <3>3
  <2>4. CASE m.op = "PRIORITIZE"
    <3>1. K = {"priority"}
      BY <1>1, <2>4 DEF Sets
    <3>2. b = <<m>>
      BY <2>2, <2>4, <3>1
    <3>3. a = << >> /\ c = << >> /\ d = << >> /\ e = << >>
      BY <1>2, <1>7, <3>1 DEF Fields
    <3> QED BY <1>3, <1>4, <1>6, <3>2, <3>3
  <2>5. CASE m.op = "SET_DEPENDENCIES"
    <3>1. K = {"deps"}
      BY <1>1, <2>5 DEF Sets
    <3>2. c = <<m>>
      BY <2>2, <2>5, <3>1
    <3>3. a = << >> /\ b = << >> /\ d = << >> /\ e = << >>
      BY <1>2, <1>7, <3>1 DEF Fields
    <3> QED BY <1>3, <1>4, <1>6, <3>2, <3>3
  <2>6. CASE m.op = "SET_GATES"
    <3>1. K = {"gates"}
      BY <1>1, <2>6 DEF Sets
    <3>2. d = <<m>>
      BY <2>2, <2>6, <3>1
    <3>3. a = << >> /\ b = << >> /\ c = << >> /\ e = << >>
      BY <1>2, <1>7, <3>1 DEF Fields
    <3> QED BY <1>3, <1>4, <1>6, <3>2, <3>3
  <2>7. CASE m.op = "SET_EFFECTS"
    <3>1. K = {"class", "effects"}
      BY <1>1, <2>7 DEF Sets
    <3>2. e = <<m>>
      BY <2>2, <2>7, <3>1
    <3>3. a = << >> /\ b = << >> /\ c = << >> /\ d = << >>
      BY <1>2, <1>7, <3>1 DEF Fields
    <3> QED BY <1>3, <1>4, <1>6, <3>2, <3>3
  <2> QED BY <2>3, <2>4, <2>5, <2>6, <2>7 DEF Assigning
<1> QED BY <1>8, <1>9

\* What an edit of holds leaves alone composes to no verb.
LEMMA HoldsOnly ==
  ASSUME NEW A, NEW r, Shape(A, r), NEW file, Shape(A, file), \A k \in Fields \ {"holds", "status"} : file[k] = r[k],
         NEW f, f = HoldVerbs("HOLD", Only(file.holds, r.holds)),
         NEW g, g = HoldVerbs("RELEASE_HOLD", Only(r.holds, file.holds))
  PROVE  /\ g = << >> => Composition(r, file) = f
         /\ f = << >> => Composition(r, file) = g
<1> PICK a : a = Changed(r, file, "REFINE", {"body", "kind", "criteria", "supersedes"})
  OBVIOUS
<1> PICK b : b = ChangedTogether(r, file, "PRIORITIZE", {"priority"})
  OBVIOUS
<1> PICK c : c = ChangedTogether(r, file, "SET_DEPENDENCIES", {"deps"})
  OBVIOUS
<1> PICK d : d = ChangedTogether(r, file, "SET_GATES", {"gates"})
  OBVIOUS
<1> PICK e : e = ChangedTogether(r, file, "SET_EFFECTS", {"class", "effects"})
  OBVIOUS
<1> PICK P : P = Adopting(file)
  OBVIOUS
<1> PICK all : all = a \o b \o c \o d \o e \o f \o g
  OBVIOUS
<1>1. Composition(r, file) = all
  BY DEF Composition
<1>2. /\ a \in Seq(P) /\ b \in Seq(P) /\ c \in Seq(P) /\ d \in Seq(P) /\ e \in Seq(P)
      /\ f \in Seq(P) /\ g \in Seq(P)
  BY PartsFit
<1>3. all = a \o b \o c \o d \o e \o f \o g
  OBVIOUS
<1>4. Joined(P, a, b, c, d, e, f, g, all)
  BY <1>2, <1>3 DEF Joined
<1>5. /\ a = << >> /\ b = << >> /\ c = << >> /\ d = << >> /\ e = << >> /\ g = << >> => all = f
      /\ a = << >> /\ b = << >> /\ c = << >> /\ d = << >> /\ e = << >> /\ f = << >> => all = g
  BY ONLY <1>4, OnePart
<1>6. /\ (\A k \in {"body", "kind", "criteria", "supersedes"} : r[k] = file[k])
      /\ r["priority"] = file["priority"] /\ r["deps"] = file["deps"] /\ r["gates"] = file["gates"]
      /\ r["class"] = file["class"] /\ r["effects"] = file["effects"]
  BY DEF Fields
<1>7. a = << >> /\ b = << >> /\ c = << >> /\ d = << >> /\ e = << >>
  BY <1>6, EqualParts
<1> QED BY <1>1, <1>5, <1>7

\* A file with one hold more composes to the HOLD, and its holds that the record
\* has are in the record's order.
LEMMA HoldComposition ==
  ASSUME NEW A, NEW who \in A, NEW r, Shape(A, r), NEW m \in EditVerbs, m.op = "HOLD", m.id \notin Ids(r.holds),
         NEW file, file = Effect(who, r, m), Shape(A, file), Settled(file)
  PROVE  Composition(r, file) = <<m>> /\ Common(r.holds, file.holds) = Common(file.holds, r.holds)
<1> PICK S : S = [id : HoldIds, by : A]
  OBVIOUS
<1> PICK h : h = [id |-> m.id, by |-> who]
  OBVIOUS
<1> PICK old : old = r.holds
  OBVIOUS
<1> PICK new : new = file.holds
  OBVIOUS
<1>1. old \in Seq(S) /\ new \in Seq(S) /\ Distinct(new)
  BY DEF Shape, Settled
<1>2. Places(who, r, m, file)
  BY HoldEffect
<1>3. /\ new = Append(old, h) /\ \A k \in Fields \ {"holds", "status"} : file[k] = r[k]
  BY <1>2 DEF Places, Alters
<1>4. m = [op |-> "HOLD", id |-> m.id] /\ h \in S /\ h.id = m.id /\ h.id \notin Ids(old)
  <2>1. Payload(m)
    BY VerbsCarryPayloads DEF Verbs
  <2>2. m.id \in HoldIds
    BY <2>1 DEF Payload, Assigning, Grants
  <2>3. m = [op |-> "HOLD", id |-> m.id]
    BY EditPayloads
  <2>4. h \in S /\ h.id = m.id
    BY <2>2
  <2> QED BY <2>3, <2>4
<1>5. Ids(new) = Ids(old) \cup {m.id}
  <2>1. Ids(Append(old, h)) = Ids(old) \cup {h.id}
    BY ONLY <1>1, <1>4, AppendIds
  <2> QED BY <2>1, <1>3, <1>4
<1>6. HoldVerbs("HOLD", Only(new, old)) = <<m>>
  <2>1. Ids(new) \cap (Ids(new) \ Ids(old)) = {m.id}
    BY <1>4, <1>5
  <2>2. HoldVerbs("HOLD", Chosen(new, Ids(new) \ Ids(old))) = <<[op |-> "HOLD", id |-> m.id]>>
    BY ONLY <1>1, <2>1, HoldParts
  <2> QED BY <1>4, <2>2 DEF Only
<1>7. HoldVerbs("RELEASE_HOLD", Only(old, new)) = << >>
  <2>1. Ids(old) \cap (Ids(old) \ Ids(new)) = {}
    BY <1>5
  <2> QED BY <1>1, <2>1, HoldParts DEF Only
<1>8. Composition(r, file) = <<m>>
  BY <1>3, <1>6, <1>7, HoldsOnly
<1>9. Common(old, new) = old
  <2>1. Ids(old) \subseteq Ids(new)
    BY <1>5
  <2> QED BY <1>1, <2>1, ChosenEntries DEF Common
<1>10. Common(new, old) = old
  <2>1. Chosen(Append(old, h), Ids(old)) = old
    BY ONLY <1>1, <1>4, ChosenBeforeAppend
  <2> QED BY <1>3, <2>1 DEF Common
<1> QED BY <1>8, <1>9, <1>10

\* A file with one hold less composes to the RELEASE_HOLD.
LEMMA ReleaseComposition ==
  ASSUME NEW A, NEW who \in A, NEW r, Shape(A, r), Settled(r), NEW m \in EditVerbs, m.op = "RELEASE_HOLD",
         m.id \in Ids(r.holds), NEW file, file = Effect(who, r, m), Shape(A, file)
  PROVE  Composition(r, file) = <<m>> /\ Common(r.holds, file.holds) = Common(file.holds, r.holds)
<1> PICK S : S = [id : HoldIds, by : A]
  OBVIOUS
<1> PICK old : old = r.holds
  OBVIOUS
<1> PICK new : new = file.holds
  OBVIOUS
<1>1. old \in Seq(S) /\ new \in Seq(S) /\ Distinct(old)
  BY DEF Shape, Settled
<1>2. Releases(r, m, file)
  BY ReleaseEffect
<1>3. new = Chosen(old, Ids(old) \ {m.id}) /\ \A k \in Fields \ {"holds", "status"} : file[k] = r[k]
  BY <1>2 DEF Releases, Alters
<1>4. m = [op |-> "RELEASE_HOLD", id |-> m.id]
  BY EditPayloads
<1>5. Ids(new) = Ids(old) \ {m.id}
  <2>1. Ids(new) = Ids(old) \cap (Ids(old) \ {m.id})
    BY <1>1, <1>3, ChosenEntries
  <2> QED BY <2>1
<1>6. HoldVerbs("RELEASE_HOLD", Only(old, new)) = <<m>>
  <2>1. Ids(old) \cap (Ids(old) \ Ids(new)) = {m.id}
    BY <1>5
  <2>2. HoldVerbs("RELEASE_HOLD", Chosen(old, Ids(old) \ Ids(new))) = <<[op |-> "RELEASE_HOLD", id |-> m.id]>>
    BY ONLY <1>1, <2>1, HoldParts
  <2> QED BY <1>4, <2>2 DEF Only
<1>7. HoldVerbs("HOLD", Only(new, old)) = << >>
  <2>1. Ids(new) \cap (Ids(new) \ Ids(old)) = {}
    BY <1>5
  <2> QED BY <1>1, <2>1, HoldParts DEF Only
<1>8. Composition(r, file) = <<m>>
  BY <1>3, <1>6, <1>7, HoldsOnly
<1>9. Common(old, new) = new
  BY <1>3, <1>5 DEF Common
<1>10. Common(new, old) = new
  <2>1. Ids(new) \subseteq Ids(old)
    BY <1>5
  <2> QED BY <1>1, <2>1, ChosenEntries DEF Common
<1> QED BY <1>8, <1>9, <1>10

\* An edit leaves what an adoption protects, and a status that is not live.
LEMMA EditLeaves ==
  ASSUME NEW A, NEW who, NEW r, Shape(A, r), Derived(r), NEW m \in EditVerbs, StatusAllows(r, m),
         NEW new, new = Effect(who, r, m)
  PROVE  /\ r.status # "ARCHIVED" /\ Protected(r) = Protected(new)
         /\ r.status = new.status \/ (Live(r.status) /\ Live(new.status))
<1>1. Payload(m) /\ m.op \in Assigning \cup {"HOLD", "RELEASE_HOLD"}
  BY EditPayloads, VerbsCarryPayloads DEF Verbs
<1>2. r.status # "ARCHIVED"
  BY <1>1 DEF StatusAllows, Assigning
<1>3. CASE m.op \in Assigning
  <2>1. DOMAIN m.set \subseteq SetFields
    BY <1>1, <1>3 DEF Payload, Fits, Assigning, Grants
  <2>2. /\ \A k \in Fields \ (DOMAIN m.set \cup {"status"}) : new[k] = r[k]
        /\ new.status = r.status \/ (r.status = "DRAFT" /\ new.status = "OPEN")
    BY <1>1, <1>2, <1>3, AssignedFields
  <2>3. \A k \in {"from", "completion", "approvals", "rev", "acc", "source"} : new[k] = r[k]
    BY <2>1, <2>2 DEF Fields, SetFields
  <2> QED BY <1>2, <2>2, <2>3 DEF Protected, Live
<1>4. CASE m.op \in {"HOLD", "RELEASE_HOLD"}
  <2>1. Alters(r, new, {"holds", "status"}) /\ new.status \in {"OPEN", "HELD"}
    <3>1. CASE m.op = "HOLD"
      <4>1. Places(who, r, m, new)
        BY <3>1, HoldEffect
      <4> QED BY <4>1 DEF Places
    <3>2. CASE m.op = "RELEASE_HOLD"
      <4>1. Releases(r, m, new)
        BY <3>2, ReleaseEffect
      <4> QED BY <4>1 DEF Releases
    <3> QED BY <1>4, <3>1, <3>2
  <2>2. r.status \in {"OPEN", "HELD"}
    BY <1>4 DEF StatusAllows
  <2>3. \A k \in {"from", "completion", "approvals", "rev", "acc", "source"} : new[k] = r[k]
    BY <2>1 DEF Alters, Fields
  <2> QED BY <1>2, <2>1, <2>2, <2>3 DEF Protected, Live
<1> QED BY <1>1, <1>3, <1>4

\* A predecessor is what a REFINE writes, a list of edges what a SET_DEPENDENCIES
\* does, and the decoding of a payload bounds the list.
LEMMA WhoWrites ==
  ASSUME NEW A, NEW who, NEW t, NEW r, Shape(A, r), Derived(r), Valid(t, r), NEW m \in Verbs, StatusAllows(r, m),
         NEW new, new = Effect(who, r, m)
  PROVE  /\ m.op = "REFINE" \/ new.supersedes = r.supersedes
         /\ m.op = "SET_DEPENDENCIES" \/ new.deps = r.deps
         /\ Len(new.deps) <= MaxDependencies
<1>1. Payload(m) /\ Len(r.deps) <= MaxDependencies
  BY VerbsCarryPayloads DEF Valid
<1>2. CASE m.op \in Assigning
  <2>1. m \in EditVerbs
    BY <1>2 DEF Verbs, Grants, Named, Assigning
  <2>2. DOMAIN m.set \in Sets(m.op)
    BY <1>2, <2>1, EditPayloads
  <2>3. r.status # "ARCHIVED"
    BY <1>2 DEF StatusAllows, Assigning
  <2>4. /\ \A k \in DOMAIN m.set : new[k] = m.set[k]
        /\ \A k \in Fields \ (DOMAIN m.set \cup {"status"}) : new[k] = r[k]
    <3>1. Shape(A, r) /\ Derived(r) /\ Payload(m) /\ new = Effect(who, r, m)
      BY <1>1
    <3> QED BY ONLY <1>2, <2>3, <3>1, AssignedFields
  <2>5. m.op = "REFINE" \/ new.supersedes = r.supersedes
    BY <1>2, <2>2, <2>4 DEF Sets, Assigning, Fields
  <2>6. m.op = "SET_DEPENDENCIES" \/ new.deps = r.deps
    BY <1>2, <2>2, <2>4 DEF Sets, Assigning, Fields
  <2>7. ASSUME m.op = "SET_DEPENDENCIES"
        PROVE  Len(new.deps) <= MaxDependencies
    <3>1. m \in DependencyChanges
      BY <2>1, <2>7 DEF EditVerbs, Refines, Prioritizes, GateChanges, EffectChanges, Named, Assign
    <3>2. PICK set \in [{"deps"} -> DependencyLists] : m = [op |-> "SET_DEPENDENCIES", set |-> set]
      BY <3>1 DEF DependencyChanges, Assign
    <3>3. m.set = set /\ DOMAIN set = {"deps"} /\ set.deps \in DependencyLists
      BY <3>2
    <3>4. new.deps = set.deps
      BY <2>4, <3>3
    <3> QED BY <3>3, <3>4, TicketAssumption
  <2> QED BY <1>1, <2>5, <2>6, <2>7
<1>3. ASSUME NEW fields, Alters(r, new, fields), fields \subseteq {"holds", "status", "completion", "from", "approvals"}
      PROVE  new.supersedes = r.supersedes /\ new.deps = r.deps
  BY <1>3 DEF Alters, Fields
<1>4. CASE m.op \in {"HOLD", "RELEASE_HOLD"}
  <2>1. Alters(r, new, {"holds", "status"})
    BY <1>4, HoldEffect, ReleaseEffect DEF Places, Releases
  <2> QED BY <1>1, <1>3, <2>1
<1>5. CASE m.op \in {"REOPEN", "ARCHIVE", "RESTORE", "COMPLETE_MANUAL"}
  <2>1. Alters(r, new, {"completion", "status"}) \/ Alters(r, new, {"from", "status"})
    BY <1>5, ReopenEffect, ArchiveEffect, RestoreEffect, CompleteEffect
  <2> QED BY <1>1, <1>3, <2>1
<1>6. CASE m.op \in {"GRANT_APPROVAL", "REVOKE_APPROVAL"}
  <2>1. Alters(r, new, {"approvals"})
    BY <1>6, GrantEffect, RevokeEffect DEF Approves, Withdraws
  <2> QED BY <1>1, <1>3, <2>1
<1> QED BY <1>1, <1>2, <1>4, <1>5, <1>6 DEF Payload, Grants

\* What the step rules and the checks on the change accept, the closed validator
\* of the post record accepts, but for two payloads: a REFINE that makes the
\* ticket supersede itself, and a SET_DEPENDENCIES whose edges repeat or whose
\* gates do not go with their obligations.
THEOREM ValidatorRefusesTwoPayloads == TicketSpec => []StepsStayValid
<1>1. ASSUME TicketInv, NEW t \in DOMAIN ticket, NEW m \in Verbs,
             NEW r, r = ticket[t], NEW work, work = Step("OWNER", r, m), NEW forced,
             work # Refused, FinalizeAllows(t, r, work, forced)
      PROVE  \/ Valid(t, Post(r, work, forced))
             \/ m.op = "REFINE" /\ work.supersedes = t
             \/ m.op = "SET_DEPENDENCIES" /\ ~EdgesProper(work.deps)
  <2>1. Shape(Actors, r) /\ Derived(r) /\ Valid(t, r)
    BY <1>1 DEF TicketInv, RecordsInv
  <2>2. StatusAllows(r, m) /\ work = Effect("OWNER", r, m)
    BY <1>1 DEF Step
  <2>3. /\ m.op = "REFINE" \/ work.supersedes = r.supersedes
        /\ m.op = "SET_DEPENDENCIES" \/ work.deps = r.deps
        /\ Len(work.deps) <= MaxDependencies
    BY <2>1, <2>2, WhoWrites
  <2>4. r.supersedes # t /\ EdgesProper(r.deps)
    BY <2>1 DEF Valid
  <2>5. CASE work.supersedes # t /\ EdgesProper(work.deps)
    BY <1>1, <2>3, <2>5, StepsKeepValid
  <2> QED BY <2>3, <2>4, <2>5
<1>2. TicketInv => StepsStayValid
  BY <1>1 DEF StepsStayValid
<1> QED BY <1>2, TicketsSound, PTL

\* The file of a ticket's record r in which somebody made the changes of post by hand.
ByHand(r, post, file) == file = [post EXCEPT !.rev = r.rev, !.acc = r.acc]

\* A file that an edit would have left is adopted to the record of that edit.
LEMMA EditsAreAdopted ==
  ASSUME TicketInv, NEW t \in DOMAIN ticket, NEW m \in EditVerbs, NEW r, r = ticket[t],
         NEW post, post = Applied("OWNER", t, m), post # Refused,
         NEW file, ByHand(r, post, file), FitsFile(file)
  PROVE  Adopted("OWNER", t, file) = post
<1> PICK work : work = Step("OWNER", r, m)
  OBVIOUS
<1> PICK forced : forced = FALSE
  OBVIOUS
<1> PICK A : A = Actors \cup {"OWNER"}
  OBVIOUS
<1>1. Shape(Actors, r) /\ Derived(r) /\ Valid(t, r) /\ SoundRecord(r)
  BY ShapeIsSound DEF TicketInv, RecordsInv
<1>2. Shape(A, r) /\ Settled(r)
  BY <1>1, MoreActors DEF Valid, Settled
<1>3. Payload(m) /\ m \in Verbs /\ m.op \in Assigning \cup {"HOLD", "RELEASE_HOLD"} /\ (m.op \in Forcing) = forced
  <2>1. m \in Verbs /\ m.op \in Assigning \cup {"HOLD", "RELEASE_HOLD"}
    BY EditPayloads DEF Verbs
  <2>2. (m.op \in Forcing) = FALSE
    BY <2>1 DEF Forcing, Assigning
  <2> QED BY <2>1, <2>2, VerbsCarryPayloads
<1>4. post = Finalize(t, r, work, forced)
  BY <1>3 DEF Applied
<1>5. work # Refused /\ Valid(t, post) /\ post = Post(r, work, forced)
  BY <1>4 DEF Finalize, Revalidate
<1>6. work = Effect("OWNER", r, m) /\ StatusAllows(r, m)
  BY <1>5 DEF Step
<1>7. Shape(A, work) /\ Settled(work)
  BY <1>2, <1>3, <1>5, StepShape, StepSettles
<1>8. /\ r.status # "ARCHIVED" /\ Protected(r) = Protected(work)
      /\ r.status = work.status \/ (Live(r.status) /\ Live(work.status))
  BY <1>1, <1>6, EditLeaves
<1>9. file = work
  <2>1. /\ DOMAIN post = Fields /\ post = [k \in Fields |-> post[k]]
        /\ \A k \in Fields \ {"rev", "acc"} : post[k] = work[k]
    BY <1>1, <1>5, PostFields
  <2>2. work = [k \in Fields |-> work[k]] /\ work.rev = r.rev /\ work.acc = r.acc
    BY <1>7, <1>8 DEF Shape, Protected
  <2>3. file = [k \in Fields |-> IF k = "rev" THEN r.rev ELSE IF k = "acc" THEN r.acc ELSE post[k]]
    BY <2>1 DEF Fields, ByHand
  <2>4. [k \in Fields |-> IF k = "rev" THEN r.rev ELSE IF k = "acc" THEN r.acc ELSE post[k]]
          = [k \in Fields |-> work[k]]
    BY <2>1, <2>2
  <2> QED BY <2>2, <2>3, <2>4
<1>10. Valid(t, work)
  <2>1. \A k \in Fields \ {"rev", "acc"} : post[k] = work[k]
    BY <1>1, <1>5, PostFields
  <2>2. post.deps = work.deps /\ post.supersedes = work.supersedes
    BY <2>1 DEF Fields
  <2>3. work.rev = r.rev /\ work.acc = r.acc /\ r.acc <= r.rev
    BY <1>1, <1>8 DEF Protected, Valid
  <2>4. /\ (\A e \in Edges(work.deps) : e.on # t) /\ work.supersedes # t
        /\ EdgesProper(work.deps) /\ Len(work.deps) <= MaxDependencies
    BY <1>5, <2>2 DEF Valid
  <2>5. (work.status = "ARCHIVED") <=> (work.from # "null")
    BY <1>7 DEF Shape
  <2> QED BY <1>7, <2>3, <2>4, <2>5 DEF Valid, Settled
<1>11. /\ Common(r.holds, work.holds) = Common(work.holds, r.holds)
       /\ (Composition(r, work) = << >> /\ work = r) \/ Composition(r, work) = <<m>>
  <2>1. CASE m.op \in Assigning
    <3>1. work.holds = r.holds
      <4>1. DOMAIN m.set \subseteq SetFields
        BY <1>3, <2>1 DEF Payload, Fits, Assigning, Grants
      <4>2. \A k \in Fields \ (DOMAIN m.set \cup {"status"}) : work[k] = r[k]
        BY <1>1, <1>3, <1>6, <1>8, <2>1, AssignedFields
      <4> QED BY <4>1, <4>2 DEF Fields, SetFields
    <3>2. (Composition(r, work) = << >> /\ work = r) \/ Composition(r, work) = <<m>>
      BY <1>1, <1>2, <1>6, <1>7, <1>8, <2>1, AssignedComposition
    <3> QED BY <3>1, <3>2
  <2>2. CASE m.op = "HOLD"
    <3>1. m.id \notin Ids(r.holds)
      BY <1>6, <2>2 DEF StatusAllows
    <3>2. Shape(A, r) /\ Shape(A, work) /\ Settled(work) /\ "OWNER" \in A /\ work = Effect("OWNER", r, m)
      BY <1>2, <1>6, <1>7
    <3>3. Composition(r, work) = <<m>> /\ Common(r.holds, work.holds) = Common(work.holds, r.holds)
      <4>1. m \in EditVerbs
        OBVIOUS
      <4> QED BY ONLY <2>2, <3>1, <3>2, <4>1, HoldComposition
    <3> QED BY <3>3
  <2>3. CASE m.op = "RELEASE_HOLD"
    <3>1. m.id \in Ids(r.holds)
      BY <1>6, <2>3 DEF StatusAllows
    <3>2. Shape(A, r) /\ Settled(r) /\ Shape(A, work) /\ "OWNER" \in A /\ work = Effect("OWNER", r, m)
      BY <1>2, <1>6, <1>7
    <3>3. Composition(r, work) = <<m>> /\ Common(r.holds, work.holds) = Common(work.holds, r.holds)
      <4>1. m \in EditVerbs
        OBVIOUS
      <4> QED BY ONLY <2>3, <3>1, <3>2, <4>1, ReleaseComposition
    <3> QED BY <3>3
  <2> QED BY <1>3, <2>1, <2>2, <2>3
<1>12. Composed("OWNER", r, work) = work
  BY <1>11, ShortCompositions
<1>13. Adoptable(r, work)
  BY <1>8, <1>11 DEF Adoptable
<1>14. Covered(r, work, work)
  BY DEF Covered
<1>15. Adopted("OWNER", t, work) = Finalize(t, r, work, FALSE)
  <2>1. Revalidate(t, work)
    BY <1>9, <1>10 DEF Revalidate
  <2> QED BY <1>5, <1>12, <1>13, <1>14, <2>1 DEF Adopted
<1> QED BY <1>4, <1>9, <1>15

\* A file edited as a verb would have changed the record is adopted, and to the
\* record that verb would have left: composeAdopt finds the verb and no other.
THEOREM HandEditsAreVerbs == TicketSpec => []HandEditIsTheVerb
<1>1. ASSUME TicketInv, NEW t \in DOMAIN ticket, NEW m \in EditVerbs, NEW r, r = ticket[t],
             NEW post, post = Applied("OWNER", t, m), post # Refused,
             NEW file, file = [post EXCEPT !.rev = r.rev, !.acc = r.acc], FitsFile(file)
      PROVE  Adopted("OWNER", t, file) = post
  <2>1. /\ TicketInv /\ t \in DOMAIN ticket /\ m \in EditVerbs /\ r = ticket[t]
        /\ post = Applied("OWNER", t, m) /\ post # Refused
        /\ ByHand(r, post, file) /\ FitsFile(file)
    BY <1>1 DEF ByHand
  <2>2. Adopted("OWNER", t, file) = post
    BY ONLY <2>1, EditsAreAdopted
  <2> QED BY <2>2
<1>2. ASSUME TicketInv
      PROVE  HandEditIsTheVerb
  <2> DEFINE file(t, m) == [Applied("OWNER", t, m) EXCEPT !.rev = ticket[t].rev, !.acc = ticket[t].acc]
  <2>1. ASSUME NEW t \in DOMAIN ticket, NEW m \in EditVerbs,
               Applied("OWNER", t, m) # Refused, FitsFile(file(t, m))
        PROVE  Adopted("OWNER", t, file(t, m)) = Applied("OWNER", t, m)
    BY <1>1, <1>2, <2>1, Zenon
  <2> QED BY <2>1, Zenon DEF HandEditIsTheVerb
<1> QED BY <1>2, TicketsSound, PTL

-----------------------------------------------------------------------------
(* The verb a view names. *)

\* findCycles never finds one: were t in every closed set its dependencies lead
\* to, the records outside the largest closed set without t would all wait for
\* one another.
LEMMA NoCycle ==
  ASSUME DependenciesResolve, NEW t \in DOMAIN ticket
  PROVE  ~InCycle(t, ticket[t])
<1> DEFINE closed(C) == \A v \in C : \A e \in Edges(ticket[v].deps) : e.on \in DOMAIN ticket => e.on \in C
<1> PICK away : away = UNION {C \in SUBSET (DOMAIN ticket \ {t}) : closed(C)}
  OBVIOUS
<1>1. away \in SUBSET (DOMAIN ticket \ {t}) /\ closed(away)
  OBVIOUS
<1>2. \A u \in DOMAIN ticket : \A e \in Edges(ticket[u].deps) : e.on \in DOMAIN ticket
  BY DEF DependenciesResolve
<1>3. SUFFICES ASSUME \E e \in Edges(ticket[t].deps) : e.on \notin away
               PROVE  FALSE
  <2>1. ASSUME \A e \in Edges(ticket[t].deps) : e.on \in away
        PROVE  ~InCycle(t, ticket[t])
    <3>1. /\ \A e \in {d \in Edges(ticket[t].deps) : d.on \in DOMAIN ticket} : e.on \in away
          /\ \A v \in away : \A e \in Edges(ticket[v].deps) : e.on \in DOMAIN ticket \cup {t} => e.on \in away
      BY <1>1, <2>1
    <3>2. DependenciesSound(t, {d \in Edges(ticket[t].deps) : d.on \in DOMAIN ticket})
      BY <1>1, <3>1 DEF DependenciesSound
    <3> QED BY <3>2 DEF InCycle
  <2> QED BY <2>1
<1> PICK group : group = DOMAIN ticket \ away
  OBVIOUS
<1>4. group \in (SUBSET DOMAIN ticket) \ {{}}
  BY <1>1
<1>5. PICK u \in group : \A e \in Edges(ticket[u].deps) : e.on \notin group
  BY <1>4 DEF DependenciesResolve
<1>6. \A e \in Edges(ticket[u].deps) : e.on \in away
  BY <1>2, <1>5
<1>7. u # t
  BY <1>3, <1>6
<1>8. away \cup {u} \in SUBSET (DOMAIN ticket \ {t}) /\ closed(away \cup {u})
  BY <1>1, <1>5, <1>6, <1>7
<1>9. u \in away
  <2> HIDE DEF closed
  <2> QED BY <1>8
<1> QED BY <1>5, <1>9

\* What is in two lists is in one of them.
LEMMA InEither ==
  ASSUME NEW S, NEW s \in Seq(S), NEW q \in Seq(S), NEW e
  PROVE  s \o q \in Seq(S) /\ (Contains(s \o q, e) <=> Contains(s, e) \/ Contains(q, e))
<1> PICK both : both = s \o q
  OBVIOUS
<1>1. /\ both \in Seq(S) /\ Len(both) = Len(s) + Len(q)
      /\ \A i \in 1..Len(s) : both[i] = s[i]
      /\ \A i \in 1..Len(q) : both[Len(s) + i] = q[i]
  BY ConcatProperties
<1>2. Len(s) \in Nat /\ Len(q) \in Nat
  BY LenProperties
<1>3. ASSUME Contains(both, e)
      PROVE  Contains(s, e) \/ Contains(q, e)
  <2>1. PICK i \in 1..Len(both) : both[i] = e
    BY <1>3 DEF Contains
  <2>2. CASE i \in 1..Len(s)
    BY <1>1, <2>1, <2>2 DEF Contains
  <2>3. CASE i \notin 1..Len(s)
    <3>1. i - Len(s) \in 1..Len(q) /\ Len(s) + (i - Len(s)) = i
      BY <1>1, <1>2, <2>1, <2>3
    <3>2. q[i - Len(s)] = e
      BY <1>1, <2>1, <3>1
    <3> QED BY <3>1, <3>2 DEF Contains
  <2> QED BY <2>2, <2>3
<1>4. ASSUME Contains(s, e)
      PROVE  Contains(both, e)
  <2>1. PICK i \in 1..Len(s) : s[i] = e
    BY <1>4 DEF Contains
  <2>2. i \in 1..Len(both)
    BY <1>1, <1>2
  <2> QED BY <1>1, <2>1, <2>2 DEF Contains
<1>5. ASSUME Contains(q, e)
      PROVE  Contains(both, e)
  <2>1. PICK i \in 1..Len(q) : q[i] = e
    BY <1>5 DEF Contains
  <2>2. Len(s) + i \in 1..Len(both)
    BY <1>1, <1>2
  <2> QED BY <1>1, <2>1, <2>2 DEF Contains
<1> QED BY <1>1, <1>3, <1>4, <1>5

\* These are the entries of a list of codes.
Codes ==
  {"TICKET_HELD", "TICKET_STATE", "DEPENDENCY_MISSING", "CYCLE", "DEPENDENCY_UNSATISFIED", "APPROVAL_MISSING",
   "EXTERNAL_UNBOUNDED", "COVERAGE_UNKNOWN", "CUTOVER_MISSING"}
Lists(s, entries) == s \in Seq(Codes) /\ \A e : Contains(s, e) <=> e \in entries

\* A list of one code has that code, an empty list has none.
LEMMA OneCode ==
  ASSUME NEW code \in Codes
  PROVE  Lists(<<code>>, {code}) /\ Lists(<< >>, {})
<1>1. Lists(<<code>>, {code})
  <2> PICK p : p = <<code>>
    OBVIOUS
  <2>1. p \in Seq(Codes) /\ Len(p) = 1 /\ p[1] = code
    OBVIOUS
  <2>2. 1..Len(p) = {1}
    BY <2>1
  <2>3. Lists(p, {code})
    BY <2>1, <2>2 DEF Contains, Lists
  <2> QED BY <2>3
<1>2. Lists(<< >>, {})
  <2> PICK p : p = << >>
    OBVIOUS
  <2>1. p \in Seq(Codes) /\ Len(p) = 0
    BY EmptySeq
  <2>2. 1..Len(p) = {}
    BY <2>1
  <2>3. Lists(p, {})
    BY <2>1, <2>2 DEF Contains, Lists
  <2> QED BY <2>3
<1> QED BY <1>1, <1>2

\* Two lists make one.
LEMMA TwoLists ==
  ASSUME NEW s, NEW C, Lists(s, C), NEW q, NEW D, Lists(q, D)
  PROVE  Lists(s \o q, C \cup D)
<1>1. s \in Seq(Codes) /\ q \in Seq(Codes)
  BY DEF Lists
<1> PICK both : both = s \o q
  OBVIOUS
<1>2. both \in Seq(Codes) /\ \A e : Contains(both, e) <=> Contains(s, e) \/ Contains(q, e)
  BY <1>1, InEither
<1>3. Lists(both, C \cup D)
  BY <1>2 DEF Lists
<1> QED BY <1>3

\* When View finds each blocker of record r of t.
Runs(r) == {i \in DOMAIN r.approvals : r.approvals[i].grants = "RUN" /\ r.approvals[i].target = r.acc}
Missing(r) == \E e \in Edges(r.deps) : e.on \notin DOMAIN ticket
Waits(r) == \E e \in Edges(r.deps) : e.obligation = "COMPLETED" /\ e.on \in DOMAIN ticket /\ ~CompletedDependency(e.on)
Unapproved(r) == r.class = "APPROVAL_REQUIRED" /\ \A i \in Runs(r) : r.approvals[i].revoked
Blocking(t, r, writer, fallback) ==
  {e \in Codes :
     \/ e = "TICKET_HELD" /\ r.status = "HELD"
     \/ e = "TICKET_STATE" /\ r.status \notin {"OPEN", "HELD"}
     \/ e = "DEPENDENCY_MISSING" /\ Missing(r)
     \/ e = "CYCLE" /\ InCycle(t, r)
     \/ e = "DEPENDENCY_UNSATISFIED" /\ Waits(r)
     \/ e = "APPROVAL_MISSING" /\ Unapproved(r)
     \/ e = "TICKET_STATE" /\ r.class \notin {"AUTONOMOUS", "APPROVAL_REQUIRED"}
     \/ e = "EXTERNAL_UNBOUNDED" /\ r.effects = "UNBOUNDED"
     \/ e = "COVERAGE_UNKNOWN" /\ r.effects # "QUALIFIED" /\ fallback # "WHOLE_REPOSITORY"
     \/ e = "CUTOVER_MISSING" /\ r.source = "IMPORT" /\ writer # "NATIVE"}

\* A view lists the blockers there are, and no other.
LEMMA BlockersFound ==
  ASSUME NEW t, NEW r, NEW writer, NEW fallback
  PROVE  Lists(Blockers(t, r, writer, fallback), Blocking(t, r, writer, fallback))
<1> DEFINE p1 == IF r.status = "HELD" THEN <<"TICKET_HELD">> ELSE << >>
           c1 == IF r.status = "HELD" THEN {"TICKET_HELD"} ELSE {}
           p2 == IF r.status \notin {"OPEN", "HELD"} THEN <<"TICKET_STATE">> ELSE << >>
           c2 == IF r.status \notin {"OPEN", "HELD"} THEN {"TICKET_STATE"} ELSE {}
           p3 == IF Missing(r) THEN <<"DEPENDENCY_MISSING">> ELSE << >>
           c3 == IF Missing(r) THEN {"DEPENDENCY_MISSING"} ELSE {}
           p4 == IF InCycle(t, r) THEN <<"CYCLE">> ELSE << >>
           c4 == IF InCycle(t, r) THEN {"CYCLE"} ELSE {}
           p5 == IF Waits(r) THEN <<"DEPENDENCY_UNSATISFIED">> ELSE << >>
           c5 == IF Waits(r) THEN {"DEPENDENCY_UNSATISFIED"} ELSE {}
           p6 == IF Unapproved(r) THEN <<"APPROVAL_MISSING">> ELSE << >>
           c6 == IF Unapproved(r) THEN {"APPROVAL_MISSING"} ELSE {}
           p7 == IF r.class \notin {"AUTONOMOUS", "APPROVAL_REQUIRED"} THEN <<"TICKET_STATE">> ELSE << >>
           c7 == IF r.class \notin {"AUTONOMOUS", "APPROVAL_REQUIRED"} THEN {"TICKET_STATE"} ELSE {}
           p8 == IF r.effects = "UNBOUNDED" THEN <<"EXTERNAL_UNBOUNDED">> ELSE << >>
           c8 == IF r.effects = "UNBOUNDED" THEN {"EXTERNAL_UNBOUNDED"} ELSE {}
           p9 == IF r.effects # "QUALIFIED" /\ fallback # "WHOLE_REPOSITORY" THEN <<"COVERAGE_UNKNOWN">> ELSE << >>
           c9 == IF r.effects # "QUALIFIED" /\ fallback # "WHOLE_REPOSITORY" THEN {"COVERAGE_UNKNOWN"} ELSE {}
           p10 == IF r.source = "IMPORT" /\ writer # "NATIVE" THEN <<"CUTOVER_MISSING">> ELSE << >>
           c10 == IF r.source = "IMPORT" /\ writer # "NATIVE" THEN {"CUTOVER_MISSING"} ELSE {}
<1>1. Blockers(t, r, writer, fallback) = p1 \o p2 \o p3 \o p4 \o p5 \o p6 \o p7 \o p8 \o p9 \o p10
  BY DEF Blockers, Missing, Waits, Unapproved, Runs
<1>2. Blocking(t, r, writer, fallback) = c1 \cup c2 \cup c3 \cup c4 \cup c5 \cup c6 \cup c7 \cup c8 \cup c9 \cup c10
  BY DEF Blocking, Codes
<1>3. /\ Lists(p1, c1) /\ Lists(p2, c2) /\ Lists(p3, c3) /\ Lists(p4, c4) /\ Lists(p5, c5)
      /\ Lists(p6, c6) /\ Lists(p7, c7) /\ Lists(p8, c8) /\ Lists(p9, c9) /\ Lists(p10, c10)
  <2>1. /\ {"TICKET_HELD", "TICKET_STATE", "DEPENDENCY_MISSING", "CYCLE", "DEPENDENCY_UNSATISFIED"} \subseteq Codes
        /\ {"APPROVAL_MISSING", "EXTERNAL_UNBOUNDED", "COVERAGE_UNKNOWN", "CUTOVER_MISSING"} \subseteq Codes
    BY DEF Codes
  <2>2. Lists(p1, c1)
    BY <2>1, OneCode
  <2>3. Lists(p2, c2)
    BY <2>1, OneCode
  <2>4. Lists(p3, c3)
    BY <2>1, OneCode
  <2>5. Lists(p4, c4)
    BY <2>1, OneCode
  <2>6. Lists(p5, c5)
    BY <2>1, OneCode
  <2>7. Lists(p6, c6)
    BY <2>1, OneCode
  <2>8. Lists(p7, c7)
    BY <2>1, OneCode
  <2>9. Lists(p8, c8)
    BY <2>1, OneCode
  <2>10. Lists(p9, c9)
    BY <2>1, OneCode
  <2>11. Lists(p10, c10)
    BY <2>1, OneCode
  <2> QED BY <2>2, <2>3, <2>4, <2>5, <2>6, <2>7, <2>8, <2>9, <2>10, <2>11
<1> HIDE DEF p1, c1, p2, c2, p3, c3, p4, c4, p5, c5, p6, c6, p7, c7, p8, c8, p9, c9, p10, c10
<1>4. Lists(p1 \o p2, c1 \cup c2)
  BY ONLY <1>3, TwoLists
<1>5. Lists(p1 \o p2 \o p3, c1 \cup c2 \cup c3)
  BY ONLY <1>3, <1>4, TwoLists
<1>6. Lists(p1 \o p2 \o p3 \o p4, c1 \cup c2 \cup c3 \cup c4)
  BY ONLY <1>3, <1>5, TwoLists
<1>7. Lists(p1 \o p2 \o p3 \o p4 \o p5, c1 \cup c2 \cup c3 \cup c4 \cup c5)
  BY ONLY <1>3, <1>6, TwoLists
<1>8. Lists(p1 \o p2 \o p3 \o p4 \o p5 \o p6, c1 \cup c2 \cup c3 \cup c4 \cup c5 \cup c6)
  BY ONLY <1>3, <1>7, TwoLists
<1>9. Lists(p1 \o p2 \o p3 \o p4 \o p5 \o p6 \o p7, c1 \cup c2 \cup c3 \cup c4 \cup c5 \cup c6 \cup c7)
  BY ONLY <1>3, <1>8, TwoLists
<1>10. Lists(p1 \o p2 \o p3 \o p4 \o p5 \o p6 \o p7 \o p8, c1 \cup c2 \cup c3 \cup c4 \cup c5 \cup c6 \cup c7 \cup c8)
  BY ONLY <1>3, <1>9, TwoLists
<1>11. Lists(p1 \o p2 \o p3 \o p4 \o p5 \o p6 \o p7 \o p8 \o p9,
            c1 \cup c2 \cup c3 \cup c4 \cup c5 \cup c6 \cup c7 \cup c8 \cup c9)
  BY ONLY <1>3, <1>10, TwoLists
<1>12. Lists(p1 \o p2 \o p3 \o p4 \o p5 \o p6 \o p7 \o p8 \o p9 \o p10,
             c1 \cup c2 \cup c3 \cup c4 \cup c5 \cup c6 \cup c7 \cup c8 \cup c9 \cup c10)
  BY ONLY <1>3, <1>11, TwoLists
<1> QED BY <1>1, <1>2, <1>12

\* What the advice of a view takes for granted: an owner is bound, whom the
\* policy leaves the advised verbs; an effect set can be qualified; there are
\* grant ids for a full list of approvals; a refusal is not a record.
AdviceOpen ==
  /\ "OWNER" \in Actors /\ "QUALIFIED" \in EffectSets /\ Refused \notin Record
  /\ RemovedOps \cap {"REFINE", "RELEASE_HOLD", "REOPEN", "RESTORE", "SET_EFFECTS", "GRANT_APPROVAL"} = {}
  /\ IsFiniteSet(GrantIds) => Cardinality(GrantIds) >= MaxApprovals

\* The file has room for whatever these verbs write.
Grows(t, op) == \A m \in Verbs : m.op = op => ~OutgrowsFile(t, m)

\* A verb that the status allows and that leaves dependencies, gates and
\* predecessor alone is committed: nothing else finalize asks can refuse it.
Commits(r, m, post) ==
  /\ post # Refused /\ post = Post(r, Effect("OWNER", r, m), m.op \in Forcing)
  /\ \A k \in Fields \ {"rev", "acc"} : post[k] = Effect("OWNER", r, m)[k]
  /\ post.acc = IF Bumps(r, Effect("OWNER", r, m), m.op \in Forcing) THEN r.acc + 1 ELSE r.acc

LEMMA VerbCommits ==
  ASSUME AdviceOpen, TicketInv, NEW t \in DOMAIN ticket, NEW r, r = ticket[t], r.rev < MaxCount,
         NEW m \in Verbs, m.op \in {"REFINE", "RELEASE_HOLD", "REOPEN", "RESTORE", "SET_EFFECTS", "GRANT_APPROVAL"},
         StatusAllows(r, m), NEW work, work = Effect("OWNER", r, m),
         work.deps = r.deps, work.gates = r.gates, work.supersedes = r.supersedes,
         r.status = "COMPLETED" => Acceptance(r) = Acceptance(work), ~OutgrowsFile(t, m),
         NEW post, post = Applied("OWNER", t, m)
  PROVE  Commits(r, m, post)
<1> PICK forced : forced = (m.op \in Forcing)
  OBVIOUS
<1>1. Shape(Actors, r) /\ Valid(t, r) /\ SoundRecord(r)
  BY ShapeIsSound DEF TicketInv, RecordsInv
<1>2. Shape(Actors, work)
  <2>1. Payload(m) /\ "OWNER" \in Actors
    BY VerbsCarryPayloads DEF AdviceOpen
  <2> QED BY <1>1, <2>1, EffectShape
<1>3. Step("OWNER", r, m) = work
  <2>1. m.op \in Permitted("OWNER")
    BY DEF AdviceOpen, Permitted, Operations
  <2>2. RoleAllows("OWNER", r, m)
    BY <2>1 DEF RoleAllows
  <2>3. r # Refused
    BY <1>1, ShapedRecords DEF AdviceOpen
  <2> QED BY <2>2, <2>3 DEF Step
<1>4. work # Refused
  BY <1>2, ShapedRecords DEF AdviceOpen
<1>5. FinalizeAllows(t, r, work, forced)
  BY DEF FinalizeAllows, CheckRecord, LiveAttempt
<1>6. work.supersedes # t /\ EdgesProper(work.deps) /\ Len(work.deps) <= MaxDependencies
  BY <1>1 DEF Valid
<1> PICK new : new = Post(r, work, forced)
  OBVIOUS
<1>7. Valid(t, new)
  BY <1>3, <1>4, <1>5, <1>6, StepsKeepValid
<1>8. post = new
  <2>1. FitsFile(new)
    BY <1>3, <1>4, <1>5, <1>7 DEF OutgrowsFile
  <2> QED BY <1>3, <1>4, <1>5, <1>7, <2>1 DEF Applied, Finalize, Revalidate
<1>9. /\ DOMAIN new = Fields /\ new = [k \in Fields |-> new[k]]
      /\ new.rev = r.rev + 1
      /\ new.acc = IF Bumps(r, work, forced) THEN r.acc + 1 ELSE r.acc
      /\ \A k \in Fields \ {"rev", "acc"} : new[k] = work[k]
  BY <1>1, PostFields
<1>10. new.rev \in 1..MaxCount /\ new.acc \in 1..MaxCount
  <2>1. r.rev \in 1..MaxCount /\ r.acc \in 1..MaxCount /\ MaxCount \in Nat
    BY <1>1, TicketAssumption DEF Shape
  <2>2. new.acc <= new.rev
    BY <1>7 DEF Valid
  <2> QED BY <1>9, <2>1, <2>2
<1>11. Shape(Actors, new)
  <2>1. /\ new.status = work.status /\ new.from = work.from /\ new.body = work.body /\ new.priority = work.priority
        /\ new.kind = work.kind /\ new.criteria = work.criteria /\ new.deps = work.deps /\ new.gates = work.gates
        /\ new.class = work.class /\ new.effects = work.effects /\ new.supersedes = work.supersedes
        /\ new.source = work.source /\ new.holds = work.holds /\ new.approvals = work.approvals
        /\ new.completion = work.completion
    BY <1>9 DEF Fields
  <2> QED BY <1>2, <1>9, <1>10, <2>1 DEF Shape
<1>12. new # Refused
  BY <1>11, ShapedRecords DEF AdviceOpen
<1> QED BY <1>8, <1>9, <1>12 DEF Commits

\* A REFINE that says again what the body says is committed on any record that
\* is not archived.
LEMMA RefineIsOpen ==
  ASSUME AdviceOpen, TicketInv, NEW t \in DOMAIN ticket, ticket[t].rev < MaxCount, ticket[t].status # "ARCHIVED",
         Grows(t, "REFINE")
  PROVE  \E m \in Verbs : m.op = "REFINE" /\ Applied("OWNER", t, m) # Refused
<1> PICK r : r = ticket[t]
  OBVIOUS
<1> PICK set : set = [k \in {"body"} |-> r.body]
  OBVIOUS
<1> PICK m : m = [op |-> "REFINE", set |-> set]
  OBVIOUS
<1>1. Shape(Actors, r)
  BY DEF TicketInv, RecordsInv
<1>2. DOMAIN set = {"body"} /\ set \in [{"body"} -> Bodies]
  BY <1>1 DEF Shape
<1>3. m.op = "REFINE" /\ m.set = set /\ m \in Verbs
  BY <1>2 DEF Verbs, EditVerbs, Refines, Refinements, Assign
<1>4. StatusAllows(r, m)
  BY <1>3 DEF StatusAllows
<1> PICK work : work = Effect("OWNER", r, m)
  OBVIOUS
<1>5. Acceptance(r) = Acceptance(work)
  <2> PICK over : over = Overlay(set, r)
    OBVIOUS
  <2>1. Fits(set)
    BY <1>1, <1>2 DEF Fits, SetFields, Shape
  <2>2. Shape(Actors, over)
    BY <1>1, <2>1, OverlayShape
  <2>3. \A k \in Fields \ {"body"} : over[k] = r[k]
    <3>1. DOMAIN r = Fields /\ DOMAIN set = {"body"}
      BY <1>1, <1>2 DEF Shape
    <3>2. over = [k \in {"body"} \cup Fields |-> IF k \in {"body"} THEN set[k] ELSE r[k]]
      BY ONLY <3>1, over = Overlay(set, r) DEF Overlay
    <3> QED BY ONLY <3>2
  <2>4. \A k \in Fields \ {"status"} : Opened(over)[k] = over[k]
    BY ONLY <2>2, OpenedShape
  <2>5. work = Opened(over)
    BY <1>3 DEF Effect
  <2>6. \A k \in Fields \ {"body", "status"} : work[k] = r[k]
    BY <2>3, <2>4, <2>5
  <2> QED BY <2>6 DEF Acceptance, Fields
<1>6. work.deps = r.deps /\ work.gates = r.gates /\ work.supersedes = r.supersedes
  BY <1>5 DEF Acceptance
<1>7. Commits(r, m, Applied("OWNER", t, m))
  BY <1>3, <1>4, <1>5, <1>6, VerbCommits DEF Grows
<1> QED BY <1>3, <1>7 DEF Commits

\* What a verb writes that is no field of the acceptance leaves the acceptance.
LEMMA AltersBeside ==
  ASSUME NEW r, NEW new, NEW fields, Alters(r, new, fields),
         fields \subseteq {"holds", "status", "completion", "from", "approvals"}
  PROVE  Acceptance(r) = Acceptance(new) /\ new.deps = r.deps /\ new.gates = r.gates /\ new.supersedes = r.supersedes
BY DEF Alters, Fields, Acceptance

\* A held ticket has a hold to release.
LEMMA ReleaseIsOpen ==
  ASSUME AdviceOpen, TicketInv, NEW t \in DOMAIN ticket, ticket[t].rev < MaxCount, ticket[t].status = "HELD",
         Grows(t, "RELEASE_HOLD")
  PROVE  \E m \in Verbs : m.op = "RELEASE_HOLD" /\ Applied("OWNER", t, m) # Refused
<1> PICK r : r = ticket[t]
  OBVIOUS
<1>1. Shape(Actors, r) /\ Valid(t, r)
  BY DEF TicketInv, RecordsInv
<1>2. r.holds # << >> /\ r.holds \in Seq([id : HoldIds, by : Actors])
  BY <1>1 DEF Valid, Effective, Shape
<1>3. 1 \in DOMAIN r.holds /\ r.holds[1] \in [id : HoldIds, by : Actors]
  <2>1. Len(r.holds) \in Nat /\ Len(r.holds) # 0 /\ DOMAIN r.holds = 1..Len(r.holds)
    BY <1>2, EmptySeq, LenProperties
  <2>2. 1 \in 1..Len(r.holds)
    BY <2>1
  <2> QED BY <1>2, <2>1, <2>2, ElementOfSeq
<1> PICK m : m = [op |-> "RELEASE_HOLD", id |-> r.holds[1].id]
  OBVIOUS
<1>4. m.op = "RELEASE_HOLD" /\ m \in Verbs /\ m.id \in Ids(r.holds)
  BY <1>3 DEF Verbs, EditVerbs, Named, Ids
<1>5. StatusAllows(r, m)
  BY <1>4 DEF StatusAllows
<1> PICK work : work = Effect("OWNER", r, m)
  OBVIOUS
<1>6. Alters(r, work, {"holds", "status"})
  <2>1. Releases(r, m, work)
    BY <1>1, <1>4, ReleaseEffect
  <2> QED BY <2>1 DEF Releases
<1>7. Commits(r, m, Applied("OWNER", t, m))
  <2>1. Acceptance(r) = Acceptance(work) /\ work.deps = r.deps /\ work.gates = r.gates /\ work.supersedes = r.supersedes
    BY <1>6, AltersBeside
  <2> QED BY <1>4, <1>5, <2>1, VerbCommits DEF Grows
<1> QED BY <1>4, <1>7 DEF Commits

\* What is completed can be reopened, what is archived restored.
LEMMA ReturnIsOpen ==
  ASSUME AdviceOpen, TicketInv, NEW t \in DOMAIN ticket, ticket[t].rev < MaxCount,
         NEW op, Grows(t, op), (op = "REOPEN" /\ ticket[t].status = "COMPLETED") \/ (op = "RESTORE" /\ ticket[t].status = "ARCHIVED")
  PROVE  \E m \in Verbs : m.op = op /\ Applied("OWNER", t, m) # Refused
<1> PICK r : r = ticket[t]
  OBVIOUS
<1> PICK m : m = [op |-> op]
  OBVIOUS
<1>1. Shape(Actors, r)
  BY DEF TicketInv, RecordsInv
<1>2. m.op = op /\ m \in Verbs
  BY DEF Verbs
<1>3. StatusAllows(r, m)
  BY <1>2 DEF StatusAllows
<1> PICK work : work = Effect("OWNER", r, m)
  OBVIOUS
<1>4. Acceptance(r) = Acceptance(work) /\ work.deps = r.deps /\ work.gates = r.gates /\ work.supersedes = r.supersedes
  <2>1. CASE op = "REOPEN"
    <3>1. Alters(r, work, {"completion", "status"})
      BY <1>1, <1>2, <2>1, ReopenEffect
    <3> QED BY <3>1, AltersBeside
  <2>2. CASE op = "RESTORE"
    <3>1. Alters(r, work, {"from", "status"})
      BY <1>1, <1>2, <2>2, RestoreEffect
    <3> QED BY <3>1, AltersBeside
  <2> QED BY <2>1, <2>2
<1>5. Commits(r, m, Applied("OWNER", t, m))
  BY <1>2, <1>3, <1>4, VerbCommits DEF Grows
<1> QED BY <1>2, <1>5 DEF Commits

\* An open ticket's effect set can be qualified.
LEMMA QualifyIsOpen ==
  ASSUME AdviceOpen, TicketInv, NEW t \in DOMAIN ticket, ticket[t].rev < MaxCount, ticket[t].status = "OPEN",
         Grows(t, "SET_EFFECTS")
  PROVE  \E m \in Verbs :
           m.op = "SET_EFFECTS" /\ Applied("OWNER", t, m) # Refused /\ Applied("OWNER", t, m).effects = "QUALIFIED"
<1> PICK r : r = ticket[t]
  OBVIOUS
<1> PICK set : set = [class |-> r.class, effects |-> "QUALIFIED"]
  OBVIOUS
<1> PICK m : m = [op |-> "SET_EFFECTS", set |-> set]
  OBVIOUS
<1>1. Shape(Actors, r)
  BY DEF TicketInv, RecordsInv
<1>2. set \in [class : Classes, effects : EffectSets]
  BY <1>1 DEF Shape, AdviceOpen
<1>3. m.op = "SET_EFFECTS" /\ m.set = set /\ m \in Verbs
  BY <1>2 DEF Verbs, EditVerbs, EffectChanges, Assign
<1>4. StatusAllows(r, m)
  BY <1>3 DEF StatusAllows, Live
<1> PICK work : work = Effect("OWNER", r, m)
  OBVIOUS
<1>5. work = Overlay(set, r)
  BY <1>3 DEF Effect
<1>6. /\ work.deps = r.deps /\ work.gates = r.gates /\ work.supersedes = r.supersedes
      /\ work.effects = "QUALIFIED"
  <2>1. DOMAIN set = {"class", "effects"} /\ set.effects = "QUALIFIED"
    OBVIOUS
  <2> QED BY <1>1, <1>5, <2>1 DEF Overlay, Shape, Fields
<1>7. Commits(r, m, Applied("OWNER", t, m))
  BY <1>3, <1>4, <1>6, VerbCommits DEF Grows
<1>8. Applied("OWNER", t, m).effects = "QUALIFIED"
  BY <1>6, <1>7 DEF Commits, Fields
<1> QED BY <1>3, <1>7, <1>8 DEF Commits

\* A list of approvals that is not full leaves a grant id unused.
LEMMA FreshGrant ==
  ASSUME AdviceOpen, NEW S, NEW approvals \in Seq(S), Len(approvals) < MaxApprovals
  PROVE  \E id \in GrantIds : id \notin Ids(approvals)
<1> SUFFICES ASSUME GrantIds \subseteq Ids(approvals)
             PROVE  FALSE
  OBVIOUS
<1> PICK n : n = Len(approvals)
  OBVIOUS
<1>1. n \in Nat /\ DOMAIN approvals = 1..n /\ n < MaxApprovals /\ MaxApprovals \in Nat
  BY LenProperties, TicketAssumption
<1>2. IsFiniteSet(1..n) /\ Cardinality(1..n) = n
  <2>1. 1 \in Int /\ n \in Int /\ (1 > n <=> n = 0) /\ n - 1 + 1 = n
    BY <1>1
  <2>2. IsFiniteSet(1..n) /\ Cardinality(1..n) = IF 1 > n THEN 0 ELSE n - 1 + 1
    BY ONLY <2>1, FS_Interval
  <2> QED BY ONLY <2>1, <2>2
<1> PICK f : f = [i \in 1..n |-> approvals[i].id]
  OBVIOUS
<1>3. f \in Surjection(1..n, Ids(approvals))
  BY <1>1 DEF Surjection, Ids
<1>4. IsFiniteSet(Ids(approvals)) /\ Cardinality(Ids(approvals)) <= n
  BY <1>2, <1>3, FS_Surjection
<1>5. IsFiniteSet(GrantIds) /\ Cardinality(GrantIds) <= Cardinality(Ids(approvals))
  BY <1>4, FS_Subset
<1>6. Cardinality(GrantIds) \in Nat /\ Cardinality(Ids(approvals)) \in Nat
  BY <1>4, <1>5, FS_CardinalityType
<1> QED BY <1>1, <1>4, <1>5, <1>6 DEF AdviceOpen

\* An open ticket can be approved to run as long as its list has room.
LEMMA GrantIsOpen ==
  ASSUME AdviceOpen, TicketInv, NEW t \in DOMAIN ticket, ticket[t].rev < MaxCount, ticket[t].status = "OPEN",
         Len(ticket[t].approvals) < MaxApprovals, Grows(t, "GRANT_APPROVAL")
  PROVE  \E m \in Verbs :
           m.op = "GRANT_APPROVAL" /\ Applied("OWNER", t, m) # Refused /\ ~Unapproved(Applied("OWNER", t, m))
<1> PICK r : r = ticket[t]
  OBVIOUS
<1> PICK Grant :
      Grant = [id : GrantIds, by : Actors, grants : ApprovalOps, target : 1..MaxCount, revoked : BOOLEAN]
  OBVIOUS
<1>1. Shape(Actors, r) /\ r.approvals \in Seq(Grant) /\ r.acc \in 1..MaxCount
  BY DEF TicketInv, RecordsInv, Shape
<1> PICK approvals : approvals = r.approvals
  OBVIOUS
<1>2. PICK id \in GrantIds : id \notin Ids(approvals)
  BY <1>1, FreshGrant
<1> PICK m : m = [op |-> "GRANT_APPROVAL", id |-> id, grants |-> "RUN", target |-> r.acc]
  OBVIOUS
<1>3. m \in Grants /\ m.op = "GRANT_APPROVAL" /\ m.id = id /\ m.grants = "RUN" /\ m.target = r.acc
  BY <1>1 DEF Grants, ApprovalOps
<1>4. m \in Verbs
  BY <1>3 DEF Verbs
<1>5. StatusAllows(r, m)
  BY <1>2, <1>3 DEF StatusAllows
<1> PICK work : work = Effect("OWNER", r, m)
  OBVIOUS
<1> PICK g : g = Granted("OWNER", m)
  OBVIOUS
<1>6. Alters(r, work, {"approvals"}) /\ work.approvals = Append(approvals, g)
  <2>1. Approves("OWNER", r, m, work)
    BY <1>1, <1>3, GrantEffect
  <2> QED BY <2>1 DEF Approves
<1>7. Acceptance(r) = Acceptance(work) /\ work.deps = r.deps /\ work.gates = r.gates /\ work.supersedes = r.supersedes
  <2>1. Alters(r, work, {"approvals"})
    BY <1>6
  <2> QED BY <2>1, AltersBeside
<1> PICK post : post = Applied("OWNER", t, m)
  OBVIOUS
<1>8. Commits(r, m, post)
  BY <1>3, <1>4, <1>5, <1>7, VerbCommits DEF Grows
<1>9. post.acc = r.acc /\ post.approvals = work.approvals
  <2>1. ~Bumps(r, work, m.op \in Forcing)
    BY <1>3, <1>7 DEF Bumps, Forcing
  <2> QED BY <1>8, <2>1 DEF Commits, Fields
<1>10. g \in Grant /\ g.grants = "RUN" /\ g.target = r.acc /\ g.revoked = FALSE
  <2>1. m.id \in GrantIds /\ m.grants \in ApprovalOps /\ m.target \in 1..MaxCount /\ "OWNER" \in Actors
    BY <1>3 DEF Grants, AdviceOpen
  <2> QED BY <1>3, <2>1 DEF Granted
<1> PICK n : n = Len(approvals) + 1
  OBVIOUS
<1> PICK more : more = Append(approvals, g)
  OBVIOUS
<1>11. n \in DOMAIN more /\ more[n] = g
  <2>1. Len(approvals) \in Nat /\ more \in Seq(Grant) /\ Len(more) = n /\ more[n] = g
    BY <1>1, <1>10, AppendProperties, LenProperties
  <2>2. DOMAIN more = 1..n
    BY <2>1, LenProperties
  <2> QED BY <2>1, <2>2
<1>12. post.approvals = more
  BY <1>6, <1>9
<1>13. ~Unapproved(post)
  BY <1>9, <1>10, <1>11, <1>12 DEF Unapproved, Runs
<1> QED BY <1>3, <1>4, <1>8, <1>13 DEF Commits

\* The first of a list of blockers is one of them.
LEMMA HeadIsListed ==
  ASSUME NEW s, NEW C, Lists(s, C), s # << >>
  PROVE  Head(s) \in C /\ Head(s) \in Codes
<1>1. s \in Seq(Codes) /\ \A e : Contains(s, e) => e \in C
  BY DEF Lists
<1>2. Len(s) \in Nat /\ Len(s) # 0 /\ Head(s) = s[1]
  BY <1>1, EmptySeq, LenProperties, HeadTailProperties
<1>3. 1 \in 1..Len(s)
  BY <1>2
<1>4. Contains(s, Head(s))
  BY <1>2, <1>3 DEF Contains
<1>5. s[1] \in Codes
  BY <1>1, <1>3, ElementOfSeq
<1> QED BY <1>1, <1>2, <1>4, <1>5

\* A refinement leaves the execution class alone.
LEMMA RefineKeepsClass ==
  ASSUME TicketInv, NEW t \in DOMAIN ticket, NEW r, r = ticket[t], NEW m \in Verbs, m.op = "REFINE",
         NEW post, post = Applied("OWNER", t, m), post # Refused
  PROVE  post.class = r.class
<1> PICK work : work = Step("OWNER", r, m)
  OBVIOUS
<1> PICK forced : forced = (m.op \in Forcing)
  OBVIOUS
<1>1. work # Refused /\ post = Post(r, work, forced)
  BY DEF Applied, Finalize
<1>2. StatusAllows(r, m) /\ work = Effect("OWNER", r, m)
  BY <1>1 DEF Step
<1>3. Shape(Actors, r) /\ Derived(r) /\ SoundRecord(r)
  BY ShapeIsSound DEF TicketInv, RecordsInv
<1>4. m.op \in Assigning /\ r.status # "ARCHIVED" /\ Payload(m)
  BY <1>2, VerbsCarryPayloads DEF Assigning, StatusAllows
<1>5. DOMAIN m.set \in Sets("REFINE")
  <2>1. m \in EditVerbs
    BY DEF Verbs, Grants, Named
  <2> QED BY <1>4, <2>1, EditPayloads
<1>6. \A k \in Fields \ (DOMAIN m.set \cup {"status"}) : work[k] = r[k]
  BY <1>2, <1>3, <1>4, AssignedFields
<1>7. work.class = r.class
  BY <1>5, <1>6 DEF Sets, Fields
<1>8. \A k \in Fields \ {"rev", "acc"} : post[k] = work[k]
  BY <1>1, <1>3, PostFields
<1> QED BY <1>7, <1>8 DEF Fields

\* The verb a view names can be issued.  Named for a blocker of an open ticket,
\* some use of it removes the blocker, unless that is the execution class.
LEMMA AdviceHelps ==
  ASSUME AdviceOpen, TicketInv, NEW t \in DOMAIN ticket, NEW writer, NEW fallback, NEW r, r = ticket[t],
         NEW why, why = Blockers(t, r, writer, fallback), NEW op, op = NextAction(r, why), Grows(t, op),
         op \in Operations, r.rev < MaxCount, op = "GRANT_APPROVAL" => Len(r.approvals) < MaxApprovals
  PROVE  /\ \E m \in Verbs :
              /\ m.op = op /\ Applied("OWNER", t, m) # Refused
              /\ r.status = "OPEN" /\ Head(why) # "TICKET_STATE"
                   => ~Contains(Blockers(t, Applied("OWNER", t, m), writer, fallback), Head(why))
         /\ r.status = "OPEN" /\ Head(why) = "TICKET_STATE" =>
              \A m \in Verbs : m.op = op /\ Applied("OWNER", t, m) # Refused
                => Contains(Blockers(t, Applied("OWNER", t, m), writer, fallback), Head(why))
<1>1. r.status \in Statuses /\ DependenciesResolve
  BY DEF TicketInv, RecordsInv, Shape
<1>2. CASE r.status = "DRAFT"
  <2>1. op = "REFINE"
    BY <1>2 DEF NextAction
  <2> QED BY <1>2, <2>1, RefineIsOpen
<1>3. CASE r.status = "HELD"
  <2>1. op = "RELEASE_HOLD"
    BY <1>3 DEF NextAction
  <2> QED BY <1>3, <2>1, ReleaseIsOpen
<1>4. CASE r.status \in {"COMPLETED", "ARCHIVED"}
  <2>1. (op = "REOPEN" /\ r.status = "COMPLETED") \/ (op = "RESTORE" /\ r.status = "ARCHIVED")
    BY <1>4 DEF NextAction
  <2>2. PICK m \in Verbs : m.op = op /\ Applied("OWNER", t, m) # Refused
    BY <2>1, ReturnIsOpen
  <2> QED BY <1>4, <2>2
<1>5. CASE r.status = "OPEN"
  <2>1. why # << >>
    BY <1>5 DEF NextAction, Operations
  <2> PICK h : h = Head(why)
    OBVIOUS
  <2>2. h \in Blocking(t, r, writer, fallback) /\ h \in Codes
    BY <2>1, BlockersFound, HeadIsListed
  <2>3. op = CASE h \in {"DEPENDENCY_MISSING", "CYCLE"} -> "SET_DEPENDENCIES"
               [] h = "DEPENDENCY_UNSATISFIED" -> "wait-dependency"
               [] h = "APPROVAL_MISSING" -> "GRANT_APPROVAL"
               [] h \in {"EXTERNAL_UNBOUNDED", "COVERAGE_UNKNOWN"} -> "SET_EFFECTS"
               [] h = "CUTOVER_MISSING" -> "cutover"
               [] OTHER -> "REFINE"
    BY <1>5, <2>1 DEF NextAction
  <2>4. h \notin {"DEPENDENCY_MISSING", "CYCLE", "TICKET_HELD"}
    <3>1. ~Missing(r)
      BY <1>1 DEF DependenciesResolve, Missing
    <3>2. ~InCycle(t, r)
      BY <1>1, NoCycle
    <3> QED BY <1>5, <2>2, <3>1, <3>2 DEF Blocking
  <2>5. h \notin {"DEPENDENCY_UNSATISFIED", "CUTOVER_MISSING"}
    BY <2>3 DEF Operations
  <2>6. ASSUME NEW post, h \notin Blocking(t, post, writer, fallback)
        PROVE  ~Contains(Blockers(t, post, writer, fallback), h)
    BY <2>6, BlockersFound DEF Lists
  <2>7. CASE h = "APPROVAL_MISSING"
    <3>1. op = "GRANT_APPROVAL"
      BY <2>3, <2>7
    <3>2. PICK m \in Verbs :
            m.op = "GRANT_APPROVAL" /\ Applied("OWNER", t, m) # Refused /\ ~Unapproved(Applied("OWNER", t, m))
      BY <1>5, <3>1, GrantIsOpen
    <3>3. h \notin Blocking(t, Applied("OWNER", t, m), writer, fallback)
      BY <2>7, <3>2 DEF Blocking
    <3> QED BY <2>6, <2>7, <3>1, <3>2, <3>3
  <2>8. CASE h \in {"EXTERNAL_UNBOUNDED", "COVERAGE_UNKNOWN"}
    <3>1. op = "SET_EFFECTS"
      BY <2>3, <2>8
    <3>2. PICK m \in Verbs :
            m.op = "SET_EFFECTS" /\ Applied("OWNER", t, m) # Refused /\ Applied("OWNER", t, m).effects = "QUALIFIED"
      BY <1>5, <3>1, QualifyIsOpen
    <3>3. h \notin Blocking(t, Applied("OWNER", t, m), writer, fallback)
      BY <2>8, <3>2 DEF Blocking
    <3> QED BY <2>6, <2>8, <3>1, <3>2, <3>3
  <2>9. CASE h = "TICKET_STATE"
    <3>1. op = "REFINE"
      BY <2>3, <2>9
    <3>2. r.class \notin {"AUTONOMOUS", "APPROVAL_REQUIRED"}
      BY <1>5, <2>2, <2>9 DEF Blocking
    <3>3. ASSUME NEW m \in Verbs, m.op = op, NEW post, post = Applied("OWNER", t, m), post # Refused
          PROVE  Contains(Blockers(t, post, writer, fallback), h)
      <4>1. post.class = r.class
        BY <3>1, <3>3, RefineKeepsClass
      <4>2. h \in Blocking(t, post, writer, fallback)
        BY <2>9, <3>2, <4>1 DEF Blocking, Codes
      <4> QED BY <4>2, BlockersFound DEF Lists
    <3> QED BY <1>5, <2>9, <3>1, <3>3, RefineIsOpen
  <2> QED BY <2>2, <2>4, <2>5, <2>7, <2>8, <2>9 DEF Codes
<1> QED BY <1>1, <1>2, <1>3, <1>4, <1>5 DEF Statuses

\* The verb a view names can be issued while the record is at none of its bounds.
\* Named for a blocker of an open ticket, some use of it removes that blocker,
\* exactly when the blocker is not the execution class: nextAction answers that
\* one with refine, and no refinement changes the class.
THEOREM AdviceIsSound ==
  ASSUME AdviceOpen
  PROVE  TicketSpec => []NextActionHelps
<1>1. ASSUME TicketInv, NEW t \in DOMAIN ticket, NEW writer, NEW fallback, NEW r, r = ticket[t],
             NEW why, why = Blockers(t, r, writer, fallback), NEW op, op = NextAction(r, why),
             NEW issued, issued = {m \in Verbs : m.op = op /\ Applied("OWNER", t, m) # Refused},
             op \in Operations, r.rev < MaxCount, op = "GRANT_APPROVAL" => Len(r.approvals) < MaxApprovals,
             \A m \in Verbs : m.op = op => ~OutgrowsFile(t, m)
      PROVE  /\ issued # {}
             /\ r.status = "OPEN" =>
                  (Head(why) = "TICKET_STATE" <=>
                     \A m \in issued : Contains(Blockers(t, Applied("OWNER", t, m), writer, fallback), Head(why)))
  <2>1. Grows(t, op)
    BY <1>1 DEF Grows
  <2>2. PICK helping \in issued :
          r.status = "OPEN" /\ Head(why) # "TICKET_STATE"
            => ~Contains(Blockers(t, Applied("OWNER", t, helping), writer, fallback), Head(why))
    BY <1>1, <2>1, AdviceHelps
  <2>3. r.status = "OPEN" /\ Head(why) = "TICKET_STATE" =>
          \A m \in issued : Contains(Blockers(t, Applied("OWNER", t, m), writer, fallback), Head(why))
    BY <1>1, <2>1, AdviceHelps
  <2> QED BY <2>2, <2>3
<1>2. ASSUME TicketInv
      PROVE  NextActionHelps
  <2> SUFFICES ASSUME NEW t \in DOMAIN ticket, NEW writer \in {"NATIVE", "IMPORT"},
                      NEW fallback \in {"WHOLE_REPOSITORY", "NONE"}
               PROVE  LET r == ticket[t]
                          why == Blockers(t, r, writer, fallback)
                          op == NextAction(r, why)
                          issued == {m \in Verbs : m.op = op /\ Applied("OWNER", t, m) # Refused}
                      IN /\ op \in Operations /\ r.rev < MaxCount
                         /\ (op = "GRANT_APPROVAL" => Len(r.approvals) < MaxApprovals)
                         /\ \A m \in Verbs : m.op = op => ~OutgrowsFile(t, m)
                         => /\ issued # {}
                            /\ r.status = "OPEN" =>
                                 (Head(why) = "TICKET_STATE" <=>
                                    \A m \in issued :
                                      Contains(Blockers(t, Applied("OWNER", t, m), writer, fallback), Head(why)))
    BY DEF NextActionHelps
  <2> PICK r : r = ticket[t]
    OBVIOUS
  <2> PICK why : why = Blockers(t, r, writer, fallback)
    OBVIOUS
  <2> PICK op : op = NextAction(r, why)
    OBVIOUS
  <2> PICK issued : issued = {m \in Verbs : m.op = op /\ Applied("OWNER", t, m) # Refused}
    OBVIOUS
  <2> QED BY <1>1, <1>2
<1> QED BY <1>2, TicketsSound, PTL
==============================================================================
