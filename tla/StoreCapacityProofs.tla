-------------------------- MODULE StoreCapacityProofs --------------------------
(***************************************************************************)
(* The capacity rules for every limit, every shape of plan and every order *)
(* of publication.  The invariant says, in each stage, what the admission  *)
(* check left free: Room for the posts still to come, whichever comes      *)
(* next, and the Reserve of one UNPAUSE if they leave the store paused.    *)
(***************************************************************************)
EXTENDS StoreCapacity, FiniteSetTheorems, TLAPS

Inventory == [count : Nat, bytes : Nat, intent : Nat, other : Nat, blobs : SUBSET Blobs, barrier : BOOLEAN]
Evidence(inv) == Cardinality(inv.blobs)
Sound(inv) == inv \in Inventory /\ IsFiniteSet(inv.blobs)

AllPosts == {"place", "grow", "shrink", "index", "lift"}

\* What the posts of S are still going to add.
Growth(p, S) == IF "grow" \in S THEN p.grow ELSE 0
Index(p, S) == IF "index" \in S THEN p.entries ELSE 0
Barred(inv, S) == IF inv.barrier \/ "place" \in S THEN 1 ELSE 0
Paused(inv, S) == (inv.barrier \/ "place" \in S) /\ "lift" \notin S

\* Whatever the order of S, no limit is passed while the plan's names are staged.
Room(inv, p, S) ==
  /\ inv.count <= JournalCount /\ inv.bytes <= JournalBytes /\ Evidence(inv) <= EvidenceBytes
  /\ inv.intent + Growth(p, S) <= IntentBytes
  /\ inv.other + Index(p, S) + inv.count + Evidence(inv) + Barred(inv, S) + Names(p) <= ScanEntries

\* A store that S leaves paused has room for the largest UNPAUSE.
Reserve(inv, p, S) ==
  Paused(inv, S) =>
    /\ inv.count + 1 <= JournalCount /\ inv.bytes + UnpauseReceiptBytes <= JournalBytes
    /\ inv.other + Index(p, S) + inv.count + Evidence(inv) + 9 <= ScanEntries

Committable(inv, p, S) == Room(inv, p, S) /\ Reserve(inv, p, S)

CapacityInv ==
  /\ Sound(kept)
  /\ stage \in {"idle", "prepared", "linked", "committed", "cleaning", "pending"}
  /\ stage # "idle" => plan \in PlanShape
  /\ stage = "idle" => plan = NoPlan /\ Check(Measure(kept, 0)) /\ (kept.barrier => UnpausePeak(kept))
  /\ stage \in {"prepared", "linked"} =>
       left = Posts(plan) /\ PrefixAdmitted(kept, plan)
  /\ stage = "prepared" =>
       /\ PrefixAdmitted(WithBlob(kept, plan), plan)
       /\ Committable(WithReceipt(WithBlob(kept, plan), plan), plan, left)
  /\ stage = "linked" => Committable(WithReceipt(kept, plan), plan, left)
  /\ stage \in {"committed", "pending"} =>
       left \subseteq Posts(plan) /\ Committable(kept, plan, left)
  /\ stage = "cleaning" => Check(Measure(kept, Names(plan))) /\ (kept.barrier => UnpausePeak(kept))

-----------------------------------------------------------------------------
(* The operators of the model. *)

\* The names that a plan stages are a number; an UNPAUSE stages five.
LEMMA NamesAreCounted ==
  ASSUME NEW p \in PlanShape
  PROVE  /\ Names(p) \in Nat
         /\ p.grow = 0 /\ p.shrink = 0 /\ p.blob = NoBlob /\ p.barrier # "place" => Names(p) = 5
<1> DEFINE N == {x \in {"grow", "shrink"} : p[x] > 0}
<1>1. IsFiniteSet({"grow", "shrink"})
  <2>1. IsFiniteSet({} \cup {"grow"})
    BY FS_EmptySet, FS_AddElement
  <2>2. IsFiniteSet(({} \cup {"grow"}) \cup {"shrink"})
    BY <2>1, FS_AddElement
  <2> QED BY <2>2
<1>2. IsFiniteSet(N)
  BY <1>1, FS_Subset
<1>3. Cardinality(N) \in Nat
  BY <1>2, FS_CardinalityType
<1>4. p.grow = 0 /\ p.shrink = 0 => N = {}
  OBVIOUS
<1>5. Cardinality({}) = 0
  BY FS_EmptySet
<1> HIDE DEF N
<1>6. p.grow = 0 /\ p.shrink = 0 => Cardinality(N) = 0
  BY <1>4, <1>5
<1> QED BY <1>3, <1>6 DEF Names, N

\* The posts of a plan never both place and lift the barrier.
LEMMA PostsOfPlan ==
  ASSUME NEW p \in PlanShape
  PROVE  /\ Posts(p) \subseteq AllPosts /\ "index" \in Posts(p)
         /\ ~({"place", "lift"} \subseteq Posts(p))
         /\ "place" \in Posts(p) <=> p.barrier = "place"
         /\ "lift" \in Posts(p) <=> p.barrier = "lift"
         /\ "grow" \in Posts(p) <=> p.grow > 0
BY DEF PlanShape, Posts, AllPosts

\* What one more receipt and one more blob do to an inventory.
LEMMA LinkedInventory ==
  ASSUME NEW inv, Sound(inv), NEW p \in PlanShape
  PROVE  /\ Sound(WithBlob(inv, p)) /\ Sound(WithReceipt(inv, p))
         /\ Evidence(inv) \in Nat /\ Evidence(WithReceipt(inv, p)) = Evidence(inv)
         /\ WithReceipt(inv, p).count = inv.count + 1
         /\ WithReceipt(inv, p).bytes = inv.bytes + p.receipt
         /\ WithReceipt(inv, p).intent = inv.intent /\ WithReceipt(inv, p).other = inv.other
         /\ WithReceipt(inv, p).barrier = inv.barrier
         /\ WithBlob(inv, p).barrier = inv.barrier
<1>1. Evidence(inv) \in Nat
  BY FS_CardinalityType DEF Sound, Evidence
<1>2. WithReceipt(inv, p) \in Inventory /\ WithReceipt(inv, p).blobs = inv.blobs
  <2>1. inv.count + 1 \in Nat /\ inv.bytes + p.receipt \in Nat
    BY DEF Sound, Inventory, PlanShape
  <2> QED BY <2>1 DEF Sound, Inventory, WithReceipt
<1>3. IsFiniteSet(inv.blobs \cup {p.blob})
  BY FS_AddElement DEF Sound
<1>4. p.blob # NoBlob => inv.blobs \cup {p.blob} \in SUBSET Blobs
  BY DEF Sound, Inventory, PlanShape
<1>5. Sound(WithBlob(inv, p)) /\ WithBlob(inv, p).barrier = inv.barrier
  BY <1>3, <1>4 DEF Sound, Inventory, WithBlob
<1> QED BY <1>1, <1>2, <1>5 DEF Sound, Inventory, WithReceipt, Evidence, PlanShape

\* What one post does to an inventory.
LEMMA PostedInventory ==
  ASSUME NEW inv, Sound(inv), NEW p \in PlanShape, NEW post \in AllPosts
  PROVE  LET new == WithPost(inv, p, post) IN
         /\ Sound(new) /\ Evidence(new) = Evidence(inv)
         /\ new.count = inv.count /\ new.bytes = inv.bytes
         /\ new.other = inv.other + (IF post = "index" THEN p.entries ELSE 0)
         /\ new.intent <= inv.intent + (IF post = "grow" THEN p.grow ELSE 0)
         /\ post = "grow" => new.intent = inv.intent + p.grow
         /\ post \notin {"grow", "shrink"} => new.intent = inv.intent
         /\ new.barrier <=> (inv.barrier \/ post = "place") /\ post # "lift"
<1>1. CASE post = "index"
  <2>1. WithPost(inv, p, post) = [inv EXCEPT !.other = @ + p.entries]
    BY <1>1 DEF WithPost
  <2> QED BY <1>1, <2>1 DEF Sound, Inventory, PlanShape, Evidence
<1>2. CASE post = "grow"
  <2>1. WithPost(inv, p, post) = [inv EXCEPT !.intent = @ + p.grow]
    BY <1>2 DEF WithPost
  <2> QED BY <1>2, <2>1 DEF Sound, Inventory, PlanShape, Evidence
<1>3. CASE post = "shrink"
  <2>1. WithPost(inv, p, post) = [inv EXCEPT !.intent = IF @ > p.shrink THEN @ - p.shrink ELSE 0]
    BY <1>3 DEF WithPost
  <2> QED BY <1>3, <2>1 DEF Sound, Inventory, PlanShape, Evidence
<1>4. CASE post = "place"
  <2>1. PICK new : new = [inv EXCEPT !.barrier = TRUE]
    OBVIOUS
  <2>2. WithPost(inv, p, post) = new
    BY <1>4, <2>1 DEF WithPost
  <2>3. /\ new \in Inventory /\ new.barrier = TRUE /\ new.blobs = inv.blobs /\ new.count = inv.count
        /\ new.bytes = inv.bytes /\ new.other = inv.other /\ new.intent = inv.intent
        /\ inv.other \in Nat /\ inv.intent \in Nat
    BY <2>1 DEF Sound, Inventory
  <2>4. Sound(new) /\ Evidence(new) = Evidence(inv)
    BY <2>3 DEF Sound, Evidence
  <2> QED BY <1>4, <2>2, <2>3, <2>4
<1>5. CASE post = "lift"
  <2>1. PICK new : new = [inv EXCEPT !.barrier = FALSE]
    OBVIOUS
  <2>2. WithPost(inv, p, post) = new
    BY <1>5, <2>1 DEF WithPost
  <2>3. /\ new \in Inventory /\ new.barrier = FALSE /\ new.blobs = inv.blobs /\ new.count = inv.count
        /\ new.bytes = inv.bytes /\ new.other = inv.other /\ new.intent = inv.intent
        /\ inv.other \in Nat /\ inv.intent \in Nat
    BY <2>1 DEF Sound, Inventory
  <2>4. Sound(new) /\ Evidence(new) = Evidence(inv)
    BY <2>3 DEF Sound, Evidence
  <2> QED BY <1>5, <2>2, <2>3, <2>4
<1> QED BY <1>1, <1>2, <1>3, <1>4, <1>5 DEF AllPosts

\* The prefixes are what publishing one post after the other leaves behind.
LEMMA PrefixSteps ==
  ASSUME NEW inv, NEW p, NEW order, NEW S
  PROVE  LET f == Prefixes(inv, p, order, S) IN
         /\ DOMAIN f = 0..5 /\ f[0] = inv
         /\ f[1] = PublishOne(f[0], p, order[1], S) /\ f[2] = PublishOne(f[1], p, order[2], S)
         /\ f[3] = PublishOne(f[2], p, order[3], S) /\ f[4] = PublishOne(f[3], p, order[4], S)
         /\ f[5] = PublishOne(f[4], p, order[5], S)
<1> DEFINE G(g) == [n \in 0..5 |-> IF n = 0 THEN inv ELSE PublishOne(g[n - 1], p, order[n], S)]
           s1 == PublishOne(inv, p, order[1], S)
           s2 == PublishOne(s1, p, order[2], S)
           s3 == PublishOne(s2, p, order[3], S)
           s4 == PublishOne(s3, p, order[4], S)
           s5 == PublishOne(s4, p, order[5], S)
           w == [n \in 0..5 |-> IF n = 0 THEN inv ELSE IF n = 1 THEN s1 ELSE IF n = 2 THEN s2
                                ELSE IF n = 3 THEN s3 ELSE IF n = 4 THEN s4 ELSE s5]
           f == Prefixes(inv, p, order, S)
<1>1. w = G(w)
  <2> HIDE DEF s1, s2, s3, s4, s5
  <2>1. \A n \in 0..5 : n = 0 \/ n = 1 \/ n = 2 \/ n = 3 \/ n = 4 \/ n = 5
    OBVIOUS
  <2>2. w[0] = inv /\ w[1] = s1 /\ w[2] = s2 /\ w[3] = s3 /\ w[4] = s4 /\ w[5] = s5
    OBVIOUS
  <2>3. \A n \in 0..5 : w[n] = IF n = 0 THEN inv ELSE PublishOne(w[n - 1], p, order[n], S)
    BY <2>1, <2>2 DEF s1, s2, s3, s4, s5
  <2> QED BY <2>3
<1>2. f = CHOOSE g : g = G(g)
  BY DEF Prefixes
<1> HIDE DEF f, w
<1>3. f = G(f)
  BY <1>1, <1>2
<1> QED BY <1>3 DEF f

\* What check looks at, and what it looks at for the largest UNPAUSE.
LEMMA CheckedMeasure ==
  ASSUME NEW inv, Sound(inv), NEW names \in Nat
  PROVE  /\ Check(Measure(inv, names)) <=>
              /\ inv.count <= JournalCount /\ inv.bytes <= JournalBytes
              /\ Evidence(inv) <= EvidenceBytes /\ inv.intent <= IntentBytes
              /\ inv.other + inv.count + Evidence(inv) + (IF inv.barrier THEN 1 ELSE 0) + names <= ScanEntries
         /\ inv.count \in Nat /\ inv.bytes \in Nat /\ inv.intent \in Nat /\ inv.other \in Nat
         /\ Evidence(inv) \in Nat /\ inv.barrier \in BOOLEAN
<1>1. Evidence(inv) \in Nat
  BY FS_CardinalityType DEF Sound, Evidence
<1> QED BY <1>1 DEF Check, Measure, Evidence, Sound, Inventory

\* The peak of an UNPAUSE is its receipt, an index of two entries, the barrier and
\* five staged names: all that journalReserve asks for is less.
LEMMA PeakIsReserve ==
  ASSUME NEW inv, Sound(inv), inv.barrier
  PROVE  UnpausePeak(inv) <=>
           /\ inv.intent <= IntentBytes /\ Evidence(inv) <= EvidenceBytes
           /\ inv.count + 1 <= JournalCount /\ inv.bytes + UnpauseReceiptBytes <= JournalBytes
           /\ inv.other + inv.count + Evidence(inv) + 9 <= ScanEntries
<1> PICK peak : peak = [inv EXCEPT !.count = @ + 1, !.bytes = @ + UnpauseReceiptBytes, !.other = @ + 2]
  OBVIOUS
<1>1. /\ inv.count \in Nat /\ inv.bytes \in Nat /\ inv.intent \in Nat /\ inv.other \in Nat
      /\ Evidence(inv) \in Nat /\ UnpauseReceiptBytes \in Nat
      /\ {JournalCount, JournalBytes, EvidenceBytes, IntentBytes, ScanEntries} \subseteq Nat
  BY CheckedMeasure, CapacityAssumption
<1>2. /\ peak \in Inventory /\ peak.count = inv.count + 1 /\ peak.bytes = inv.bytes + UnpauseReceiptBytes
      /\ peak.other = inv.other + 2 /\ peak.intent = inv.intent /\ peak.blobs = inv.blobs
      /\ peak.barrier = inv.barrier
  <2>1. inv.count + 1 \in Nat /\ inv.bytes + UnpauseReceiptBytes \in Nat /\ inv.other + 2 \in Nat
    BY <1>1
  <2> QED BY <2>1 DEF Sound, Inventory
<1>3. Sound(peak) /\ Evidence(peak) = Evidence(inv) /\ peak.barrier
  BY <1>2 DEF Sound, Evidence
<1>4. Check(Measure(peak, 5)) <=>
        /\ inv.count + 1 <= JournalCount /\ inv.bytes + UnpauseReceiptBytes <= JournalBytes
        /\ Evidence(inv) <= EvidenceBytes /\ inv.intent <= IntentBytes
        /\ inv.other + inv.count + Evidence(inv) + 9 <= ScanEntries
  <2>1. Check(Measure(peak, 5)) <=>
          /\ peak.count <= JournalCount /\ peak.bytes <= JournalBytes
          /\ Evidence(peak) <= EvidenceBytes /\ peak.intent <= IntentBytes
          /\ peak.other + peak.count + Evidence(peak) + 1 + 5 <= ScanEntries
    BY <1>3, CheckedMeasure
  <2>2. peak.other + peak.count + Evidence(peak) + 1 + 5 = inv.other + inv.count + Evidence(inv) + 9
    BY <1>1, <1>2, <1>3
  <2> QED BY <1>2, <1>3, <2>1, <2>2
<1>5. Check(Measure(inv, 0)) <=>
        /\ inv.count <= JournalCount /\ inv.bytes <= JournalBytes
        /\ Evidence(inv) <= EvidenceBytes /\ inv.intent <= IntentBytes
        /\ inv.other + inv.count + Evidence(inv) + 1 <= ScanEntries
  BY <1>1, CheckedMeasure
<1>6. UnpausePeak(inv) <=>
        /\ Check(Measure(inv, 0)) /\ Check(Measure(peak, 5))
        /\ inv.count + 1 <= JournalCount /\ inv.bytes + UnpauseReceiptBytes <= JournalBytes
  BY DEF UnpausePeak, JournalReserve
<1> QED BY <1>1, <1>4, <1>5, <1>6

-----------------------------------------------------------------------------
(* Prefixes of a publication. *)

\* An inventory that the posts T of plan p left of inv.
After(a, inv, p, T) ==
  /\ Sound(a) /\ a.count = inv.count /\ a.bytes = inv.bytes /\ Evidence(a) = Evidence(inv)
  /\ a.intent <= inv.intent + Growth(p, T)
  /\ "shrink" \notin T => a.intent = inv.intent + Growth(p, T)
  /\ a.other = inv.other + Index(p, T)
  /\ a.barrier <=> Paused(inv, T)

\* What some of the posts of S left.
Between(a, inv, p, S) == \E T \in SUBSET S : After(a, inv, p, T)

\* No post leaves the inventory as it is.
LEMMA NothingAfter ==
  ASSUME NEW inv, Sound(inv), NEW p
  PROVE  After(inv, inv, p, {})
<1>1. inv.intent \in Nat /\ inv.other \in Nat
  BY DEF Sound, Inventory
<1> QED BY <1>1 DEF After, Growth, Index, Paused

\* One more post, if it is one of S.
LEMMA PublishAfter ==
  ASSUME NEW inv, Sound(inv), NEW p \in PlanShape, NEW a, NEW T, After(a, inv, p, T),
         NEW S, NEW post \in AllPosts, post \notin T, post = "place" => "lift" \notin T
  PROVE  After(PublishOne(a, p, post, S), inv, p, T \cup ({post} \cap S))
<1>1. CASE post \notin S
  <2>1. T \cup ({post} \cap S) = T
    BY <1>1
  <2> QED BY <1>1, <2>1 DEF PublishOne
<1>2. CASE post \in S
  <2> DEFINE U == T \cup {post}
  <2>1. T \cup ({post} \cap S) = U
    BY <1>2
  <2>2. PICK new : new = WithPost(a, p, post)
    OBVIOUS
  <2>3. Sound(a) /\ p.grow \in Nat /\ p.entries \in Nat /\ inv.intent \in Nat /\ inv.other \in Nat
        /\ a.intent \in Nat /\ a.other \in Nat
    BY DEF After, Sound, Inventory, PlanShape
  <2>4. /\ Sound(new) /\ Evidence(new) = Evidence(a)
        /\ new.count = a.count /\ new.bytes = a.bytes
        /\ new.other = a.other + (IF post = "index" THEN p.entries ELSE 0)
        /\ new.intent <= a.intent + (IF post = "grow" THEN p.grow ELSE 0)
        /\ post = "grow" => new.intent = a.intent + p.grow
        /\ post \notin {"grow", "shrink"} => new.intent = a.intent
        /\ new.barrier <=> (a.barrier \/ post = "place") /\ post # "lift"
    BY <2>2, <2>3, PostedInventory
  <2>5. new.intent \in Nat
    BY <2>4 DEF Sound, Inventory
  <2>6. Growth(p, U) = Growth(p, T) + (IF post = "grow" THEN p.grow ELSE 0) /\ Growth(p, T) \in Nat
    BY <2>3 DEF Growth
  <2>7. Index(p, U) = Index(p, T) + (IF post = "index" THEN p.entries ELSE 0) /\ Index(p, T) \in Nat
    BY <2>3 DEF Index
  <2>8. new.intent <= inv.intent + Growth(p, U) /\ ("shrink" \notin U => new.intent = inv.intent + Growth(p, U))
    BY <2>3, <2>4, <2>5, <2>6 DEF After
  <2>9. new.other = inv.other + Index(p, U)
    BY <2>3, <2>4, <2>7 DEF After
  <2>10. new.barrier <=> Paused(inv, U)
    BY <2>4 DEF After, Paused
  <2>11. After(new, inv, p, U)
    BY <2>4, <2>8, <2>9, <2>10 DEF After
  <2> QED BY <1>2, <2>1, <2>2, <2>11 DEF PublishOne
<1> QED BY <1>1, <1>2

\* Every prefix is the work of some of the posts, the last one of them all;
\* growth-first, the third prefix has all that is added and nothing less.
LEMMA PrefixesAfter ==
  ASSUME NEW inv, Sound(inv), NEW p \in PlanShape, NEW S \in SUBSET AllPosts,
         NEW order \in {TargetOrder, GrowthFirst}
  PROVE  LET f == Prefixes(inv, p, order, S) IN
         /\ \A n \in 0..5 : Between(f[n], inv, p, S)
         /\ After(f[5], inv, p, S)
         /\ order = GrowthFirst => After(f[3], inv, p, S \ {"shrink", "lift"})
<1> DEFINE f == Prefixes(inv, p, order, S)
<1>1. /\ f[0] = inv
      /\ f[1] = PublishOne(f[0], p, order[1], S) /\ f[2] = PublishOne(f[1], p, order[2], S)
      /\ f[3] = PublishOne(f[2], p, order[3], S) /\ f[4] = PublishOne(f[3], p, order[4], S)
      /\ f[5] = PublishOne(f[4], p, order[5], S)
  BY PrefixSteps
<1>2. /\ order[1] = "place" /\ order[2] = "grow" /\ order[5] = "lift"
      /\ (order[3] = "shrink" /\ order[4] = "index" /\ order # GrowthFirst) \/ (order[3] = "index" /\ order[4] = "shrink")
  BY DEF TargetOrder, GrowthFirst
<1> HIDE DEF f
<1> DEFINE T1 == {} \cup ({"place"} \cap S)
           T2 == T1 \cup ({"grow"} \cap S)
           T3 == T2 \cup ({order[3]} \cap S)
           T4 == T3 \cup ({order[4]} \cap S)
           T5 == T4 \cup ({"lift"} \cap S)
<1>3. After(inv, inv, p, {})
  BY NothingAfter
<1>4. {"place", "grow", "lift", order[3], order[4]} \subseteq AllPosts
  BY <1>2 DEF AllPosts
<1>5. After(f[1], inv, p, T1)
  BY <1>1, <1>2, <1>3, <1>4, PublishAfter
<1>6. After(f[2], inv, p, T2)
  <2>1. "grow" \notin T1
    OBVIOUS
  <2> HIDE DEF T1
  <2> QED BY <1>1, <1>2, <1>4, <1>5, <2>1, PublishAfter
<1>7. After(f[3], inv, p, T3)
  <2>1. order[3] \notin T2 /\ order[3] # "place"
    BY <1>2
  <2> HIDE DEF T2
  <2> QED BY <1>1, <1>4, <1>6, <2>1, PublishAfter
<1>8. After(f[4], inv, p, T4)
  <2>1. order[4] \notin T3 /\ order[4] # "place"
    BY <1>2
  <2> HIDE DEF T3
  <2> QED BY <1>1, <1>4, <1>7, <2>1, PublishAfter
<1>9. After(f[5], inv, p, T5)
  <2>1. "lift" \notin T4
    BY <1>2
  <2> HIDE DEF T4
  <2> QED BY <1>1, <1>2, <1>4, <1>8, <2>1, PublishAfter
<1>10. T5 = S /\ (order = GrowthFirst => T3 = S \ {"shrink", "lift"})
  BY <1>2 DEF AllPosts
<1>11. {} \subseteq S /\ T1 \subseteq S /\ T2 \subseteq S /\ T3 \subseteq S /\ T4 \subseteq S
  OBVIOUS
<1>12. \A n \in 0..5 : n = 0 \/ n = 1 \/ n = 2 \/ n = 3 \/ n = 4 \/ n = 5
  OBVIOUS
<1>13. \A n \in 0..5 : Between(f[n], inv, p, S)
  <2> HIDE DEF T1, T2, T3, T4, T5
  <2> QED BY <1>1, <1>3, <1>5, <1>6, <1>7, <1>8, <1>9, <1>10, <1>11, <1>12 DEF Between
<1> HIDE DEF T3, T5
<1> QED BY <1>7, <1>9, <1>10, <1>13 DEF f

\* Room is enough for whatever some of the posts leave behind.
LEMMA RoomForPrefix ==
  ASSUME NEW inv, Sound(inv), NEW p \in PlanShape, NEW S \in SUBSET AllPosts,
         Room(inv, p, S), NEW a, Between(a, inv, p, S)
  PROVE  Check(Measure(a, Names(p)))
<1> PICK T \in SUBSET S : After(a, inv, p, T)
  BY DEF Between
<1>1. /\ Names(p) \in Nat /\ p.grow \in Nat /\ p.entries \in Nat /\ Sound(a)
      /\ {JournalCount, JournalBytes, EvidenceBytes, IntentBytes, ScanEntries} \subseteq Nat
  BY NamesAreCounted, CapacityAssumption DEF PlanShape, After
<1>2. /\ inv.count \in Nat /\ inv.bytes \in Nat /\ inv.intent \in Nat /\ inv.other \in Nat
      /\ Evidence(inv) \in Nat /\ a.intent \in Nat /\ a.other \in Nat
  BY <1>1, CheckedMeasure
<1>3. Growth(p, T) <= Growth(p, S) /\ Index(p, T) <= Index(p, S)
      /\ Growth(p, T) \in Nat /\ Growth(p, S) \in Nat /\ Index(p, T) \in Nat /\ Index(p, S) \in Nat
  BY <1>1 DEF Growth, Index
<1>4. a.barrier => Barred(inv, S) = 1
  BY DEF After, Paused, Barred
<1>5. Barred(inv, S) \in {0, 1}
  BY DEF Barred
<1> QED BY <1>1, <1>2, <1>3, <1>4, <1>5, CheckedMeasure DEF Room, After

\* Room is enough for every prefix of a publication, whose end is the work of all posts.
LEMMA RoomForPrefixes ==
  ASSUME NEW inv, Sound(inv), NEW p \in PlanShape, NEW S \in SUBSET AllPosts, Room(inv, p, S),
         NEW order \in {TargetOrder, GrowthFirst}
  PROVE  LET f == Prefixes(inv, p, order, S) IN
         /\ DOMAIN f = 0..5 /\ After(f[5], inv, p, S)
         /\ \A n \in 0..5 : Check(Measure(f[n], Names(p)))
<1> DEFINE f == Prefixes(inv, p, order, S)
<1>1. DOMAIN f = 0..5
  BY PrefixSteps
<1>2. (\A n \in 0..5 : Between(f[n], inv, p, S)) /\ After(f[5], inv, p, S)
  BY PrefixesAfter
<1> HIDE DEF f
<1>3. \A n \in 0..5 : Check(Measure(f[n], Names(p)))
  BY <1>2, RoomForPrefix
<1> QED BY <1>1, <1>2, <1>3 DEF f

\* The reserve is enough for the UNPAUSE of a store all posts leave paused.
LEMMA ReserveForUnpause ==
  ASSUME NEW inv, Sound(inv), NEW p \in PlanShape, NEW S \in SUBSET AllPosts,
         Committable(inv, p, S), NEW a, After(a, inv, p, S), a.barrier
  PROVE  UnpausePeak(a)
<1>1. /\ Names(p) \in Nat /\ p.grow \in Nat /\ p.entries \in Nat /\ Sound(a) /\ UnpauseReceiptBytes \in Nat
      /\ {JournalCount, JournalBytes, EvidenceBytes, IntentBytes, ScanEntries} \subseteq Nat
  BY NamesAreCounted, CapacityAssumption DEF PlanShape, After
<1>2. /\ inv.count \in Nat /\ inv.bytes \in Nat /\ inv.intent \in Nat /\ inv.other \in Nat
      /\ Evidence(inv) \in Nat /\ a.intent \in Nat /\ a.other \in Nat
  BY <1>1, CheckedMeasure
<1>3. Growth(p, S) \in Nat /\ Index(p, S) \in Nat
  BY <1>1 DEF Growth, Index
<1>4. Paused(inv, S)
  BY DEF After
<1> QED BY <1>1, <1>2, <1>3, <1>4, PeakIsReserve DEF Committable, Room, Reserve, After

-----------------------------------------------------------------------------
(* Admission. *)

\* What checkCapacity admits has room and reserve from its receipt on.
LEMMA AdmittedIsCommittable ==
  ASSUME NEW inv, Sound(inv), NEW p \in PlanShape, CheckCapacity(inv, p)
  PROVE  /\ PrefixAdmitted(inv, p) /\ PrefixAdmitted(WithBlob(inv, p), p)
         /\ Committable(WithReceipt(WithBlob(inv, p), p), p, Posts(p))
<1> PICK r : r = WithReceipt(WithBlob(inv, p), p)
  OBVIOUS
<1> DEFINE f == Prefixes(r, p, GrowthFirst, Posts(p))
           U == Posts(p) \ {"shrink", "lift"}
<1>1. Sound(r)
  BY LinkedInventory
<1>2. DOMAIN f = 0..5 /\ GrowthFirst \in {TargetOrder, GrowthFirst} /\ Posts(p) \in SUBSET AllPosts
  BY PrefixSteps, PostsOfPlan
<1>3. After(f[3], r, p, U) /\ After(f[5], r, p, Posts(p))
  BY <1>1, <1>2, PrefixesAfter
<1>4. /\ PrefixAdmitted(inv, p) /\ PrefixAdmitted(WithBlob(inv, p), p)
      /\ Check(Measure(f[3], Names(p))) /\ FinalReserve(f[5])
  BY <1>2 DEF CheckCapacity
<1> HIDE DEF f
<1>5. /\ Names(p) \in Nat /\ p.grow \in Nat /\ p.entries \in Nat /\ UnpauseReceiptBytes \in Nat
      /\ {JournalCount, JournalBytes, EvidenceBytes, IntentBytes, ScanEntries} \subseteq Nat
      /\ Sound(f[3]) /\ Sound(f[5])
  BY <1>3, NamesAreCounted, CapacityAssumption DEF PlanShape, After
<1>6. /\ r.count \in Nat /\ r.bytes \in Nat /\ r.intent \in Nat /\ r.other \in Nat /\ Evidence(r) \in Nat
      /\ f[3].intent \in Nat /\ f[3].other \in Nat /\ f[3].barrier \in BOOLEAN
      /\ f[5].intent \in Nat /\ f[5].other \in Nat
  BY <1>1, <1>5, CheckedMeasure
<1>7. Growth(p, U) = Growth(p, Posts(p)) /\ Index(p, U) = Index(p, Posts(p))
      /\ Growth(p, U) \in Nat /\ Index(p, U) \in Nat
  BY <1>5 DEF Growth, Index
<1>8. f[3].barrier <=> Barred(r, Posts(p)) = 1
  BY <1>3 DEF After, Paused, Barred
<1>9. Barred(r, Posts(p)) \in {0, 1}
  BY DEF Barred
<1>10. /\ f[3].count <= JournalCount /\ f[3].bytes <= JournalBytes
       /\ Evidence(f[3]) <= EvidenceBytes /\ f[3].intent <= IntentBytes
       /\ f[3].other + f[3].count + Evidence(f[3]) + (IF f[3].barrier THEN 1 ELSE 0) + Names(p) <= ScanEntries
  BY <1>4, <1>5, CheckedMeasure
<1>11. f[3].count = r.count /\ f[3].bytes = r.bytes /\ Evidence(f[3]) = Evidence(r)
       /\ f[3].intent = r.intent + Growth(p, U) /\ f[3].other = r.other + Index(p, U)
  BY <1>3 DEF After
<1>12. Room(r, p, Posts(p))
  BY <1>5, <1>6, <1>7, <1>8, <1>9, <1>10, <1>11 DEF Room
<1>13. Reserve(r, p, Posts(p))
  <2>1. SUFFICES ASSUME Paused(r, Posts(p))
                 PROVE  /\ r.count + 1 <= JournalCount /\ r.bytes + UnpauseReceiptBytes <= JournalBytes
                        /\ r.other + Index(p, Posts(p)) + r.count + Evidence(r) + 9 <= ScanEntries
    BY DEF Reserve
  <2>2. f[5].barrier
    BY <1>3, <2>1 DEF After
  <2>3. UnpausePeak(f[5])
    BY <1>4, <2>2 DEF FinalReserve
  <2>4. f[5].count = r.count /\ f[5].bytes = r.bytes /\ Evidence(f[5]) = Evidence(r)
        /\ f[5].other = r.other + Index(p, Posts(p))
    BY <1>3 DEF After
  <2>5. /\ f[5].count + 1 <= JournalCount /\ f[5].bytes + UnpauseReceiptBytes <= JournalBytes
        /\ f[5].other + f[5].count + Evidence(f[5]) + 9 <= ScanEntries
    BY <1>5, <2>2, <2>3, PeakIsReserve
  <2> QED BY <1>6, <1>7, <2>4, <2>5
<1> QED BY <1>4, <1>12, <1>13 DEF Committable

\* The shapes of an UNPAUSE are plans of five names and two posts.
LEMMA UnpauseIsPlan ==
  ASSUME NEW p \in UnpauseShapes
  PROVE  /\ p \in PlanShape /\ p.receipt \in 1..UnpauseReceiptBytes /\ p.entries \in {1, 2}
         /\ p.blob = NoBlob /\ p.grow = 0 /\ Names(p) = 5 /\ p.barrier = "lift"
         /\ Posts(p) = {"index", "lift"}
<1>1. PICK n \in 1..UnpauseReceiptBytes, e \in {1, 2} : p = Unpause(n, e)
  BY DEF UnpauseShapes
<1>2. p \in PlanShape /\ p.receipt = n /\ p.entries = e /\ p.blob = NoBlob /\ p.grow = 0 /\ p.shrink = 0
      /\ p.barrier = "lift"
  BY <1>1, CapacityAssumption DEF Unpause, PlanShape
<1>3. Names(p) = 5
  BY <1>2, NamesAreCounted
<1>4. Posts(p) = {"index", "lift"}
  BY <1>2 DEF Posts
<1> QED BY <1>1, <1>2, <1>3, <1>4

\* Where the largest UNPAUSE has room, checkCapacity admits every UNPAUSE.
LEMMA UnpauseAdmitted ==
  ASSUME NEW inv, Sound(inv), inv.barrier, UnpausePeak(inv), NEW p \in UnpauseShapes
  PROVE  CheckCapacity(inv, p)
<1> PICK r : r = WithReceipt(inv, p)
  OBVIOUS
<1> PICK S : S = Posts(p)
  OBVIOUS
<1> DEFINE f == Prefixes(r, p, GrowthFirst, S)
<1>1. /\ p \in PlanShape /\ p.receipt \in 1..UnpauseReceiptBytes /\ p.entries \in {1, 2}
      /\ p.blob = NoBlob /\ p.grow = 0 /\ Names(p) = 5 /\ S = {"index", "lift"} /\ S \in SUBSET AllPosts
  BY UnpauseIsPlan, PostsOfPlan
<1>2. /\ {JournalCount, JournalBytes, EvidenceBytes, IntentBytes, ScanEntries} \subseteq Nat
      /\ UnpauseReceiptBytes \in Nat
  BY CapacityAssumption
<1>3. /\ inv.intent <= IntentBytes /\ Evidence(inv) <= EvidenceBytes
      /\ inv.count + 1 <= JournalCount /\ inv.bytes + UnpauseReceiptBytes <= JournalBytes
      /\ inv.other + inv.count + Evidence(inv) + 9 <= ScanEntries
  BY PeakIsReserve
<1>4. /\ inv.count \in Nat /\ inv.bytes \in Nat /\ inv.intent \in Nat /\ inv.other \in Nat
      /\ Evidence(inv) \in Nat
  BY <1>2, CheckedMeasure
<1>5. /\ Sound(r) /\ Evidence(r) = Evidence(inv) /\ r.count = inv.count + 1
      /\ r.bytes = inv.bytes + p.receipt /\ r.intent = inv.intent /\ r.other = inv.other /\ r.barrier = inv.barrier
  BY <1>1, LinkedInventory
<1>6. WithBlob(inv, p) = inv
  BY <1>1 DEF WithBlob
<1>7. Check(Measure(inv, Names(p))) /\ JournalReserve(inv, inv.barrier)
  <2>1. Check(Measure(inv, 5))
    BY <1>2, <1>3, <1>4, CheckedMeasure
  <2> QED BY <1>1, <2>1 DEF UnpausePeak
<1>8. Room(r, p, S)
  <2>1. Growth(p, S) = 0 /\ Index(p, S) \in {1, 2} /\ Barred(r, S) \in {0, 1}
    BY <1>1 DEF Growth, Index, Barred
  <2> QED BY <1>1, <1>2, <1>3, <1>4, <1>5, <2>1 DEF Room
<1>9. GrowthFirst \in {TargetOrder, GrowthFirst} /\ Sound(r) /\ p \in PlanShape /\ S \in SUBSET AllPosts
  BY <1>1, <1>5
<1>10. /\ DOMAIN f = 0..5 /\ After(f[5], r, p, S)
       /\ \A n \in 0..5 : Check(Measure(f[n], Names(p)))
  BY <1>8, <1>9, RoomForPrefixes
<1> HIDE DEF f
<1>11. FinalReserve(f[5])
  <2>1. ~f[5].barrier /\ Sound(f[5])
    BY <1>1, <1>10 DEF After, Paused
  <2>2. Check(Measure(f[5], 5))
    BY <1>1, <1>10
  <2>3. Check(Measure(f[5], 0))
    BY <1>2, <2>1, <2>2, CheckedMeasure
  <2> QED BY <2>1, <2>3 DEF FinalReserve, JournalReserve
<1> QED BY <1>6, <1>7, <1>10, <1>11 DEF CheckCapacity, PrefixAdmitted, f

-----------------------------------------------------------------------------
(* The invariant. *)

\* A limit that holds with names staged holds with none.
LEMMA FewerNames ==
  ASSUME NEW inv, Sound(inv), NEW names \in Nat, Check(Measure(inv, names))
  PROVE  Check(Measure(inv, 0))
<1>1. ScanEntries \in Nat
  BY CapacityAssumption
<1> QED BY <1>1, CheckedMeasure

\* What Committable says of the store as it is.
LEMMA CommittableNow ==
  ASSUME NEW inv, Sound(inv), NEW p \in PlanShape, NEW S \in SUBSET AllPosts, Committable(inv, p, S)
  PROVE  Check(Measure(inv, Names(p))) /\ (S = {} /\ inv.barrier => UnpausePeak(inv))
<1>1. After(inv, inv, p, {}) /\ {} \in SUBSET S
  BY NothingAfter
<1>2. Between(inv, inv, p, S) /\ Room(inv, p, S)
  BY <1>1 DEF Between, Committable
<1>3. Check(Measure(inv, Names(p)))
  BY <1>2, RoomForPrefix
<1>4. S = {} /\ inv.barrier => UnpausePeak(inv)
  BY <1>1, ReserveForUnpause
<1> QED BY <1>3, <1>4

\* Whichever post is published next, the others keep their room and their reserve.
LEMMA PublishKeepsRoom ==
  ASSUME NEW inv, Sound(inv), NEW p \in PlanShape, NEW S \in SUBSET Posts(p), NEW post \in S,
         Committable(inv, p, S), NEW new, new = WithPost(inv, p, post)
  PROVE  Sound(new) /\ Committable(new, p, S \ {post})
<1> PICK R : R = S \ {post}
  OBVIOUS
<1>1. S \subseteq AllPosts /\ ~({"place", "lift"} \subseteq S)
  BY PostsOfPlan
<1>2. /\ Names(p) \in Nat /\ p.grow \in Nat /\ p.entries \in Nat /\ UnpauseReceiptBytes \in Nat
      /\ {JournalCount, JournalBytes, EvidenceBytes, IntentBytes, ScanEntries} \subseteq Nat
  BY NamesAreCounted, CapacityAssumption DEF PlanShape
<1>3. /\ Sound(new) /\ Evidence(new) = Evidence(inv)
      /\ new.count = inv.count /\ new.bytes = inv.bytes
      /\ new.other = inv.other + (IF post = "index" THEN p.entries ELSE 0)
      /\ new.intent <= inv.intent + (IF post = "grow" THEN p.grow ELSE 0)
      /\ new.barrier <=> (inv.barrier \/ post = "place") /\ post # "lift"
  BY <1>1, PostedInventory
<1>4. /\ inv.count \in Nat /\ inv.bytes \in Nat /\ inv.intent \in Nat /\ inv.other \in Nat
      /\ Evidence(inv) \in Nat /\ new.intent \in Nat /\ new.other \in Nat
  BY <1>2, <1>3, CheckedMeasure
<1>5. Growth(p, S) = Growth(p, R) + (IF post = "grow" THEN p.grow ELSE 0) /\ Growth(p, R) \in Nat
  BY <1>2 DEF Growth
<1>6. Index(p, S) = Index(p, R) + (IF post = "index" THEN p.entries ELSE 0) /\ Index(p, R) \in Nat
  BY <1>2 DEF Index
<1>7. Barred(new, R) <= Barred(inv, S) /\ Barred(new, R) \in {0, 1} /\ Barred(inv, S) \in {0, 1}
  BY <1>3 DEF Barred
<1>8. new.intent + Growth(p, R) <= inv.intent + Growth(p, S) /\ new.other + Index(p, R) = inv.other + Index(p, S)
  BY <1>2, <1>3, <1>4, <1>5, <1>6
<1>9. Room(new, p, R)
  <2>1. Growth(p, S) \in Nat /\ Index(p, S) \in Nat
    BY <1>2 DEF Growth, Index
  <2> QED BY <2>1, <1>2, <1>3, <1>4, <1>5, <1>6, <1>7, <1>8 DEF Room, Committable
<1>10. Paused(new, R) => Paused(inv, S)
  BY <1>1, <1>3 DEF Paused
<1>11. Reserve(new, p, R)
  BY <1>3, <1>8, <1>10 DEF Reserve, Committable
<1> QED BY <1>3, <1>9, <1>11 DEF Committable

\* An initialised store is within its limits.
LEMMA CapacityInitial == CapacityInit => CapacityInv
<1> SUFFICES ASSUME CapacityInit PROVE CapacityInv
  OBVIOUS
<1>1. /\ kept.count = 1 /\ kept.bytes = 1 /\ kept.other = 1 /\ kept.blobs = {} /\ kept.barrier = FALSE
      /\ kept.intent \in 0..IntentBytes
  BY DEF CapacityInit
<1>2. /\ {JournalCount, JournalBytes, EvidenceBytes, IntentBytes, ScanEntries} \subseteq Nat \ {0}
      /\ 2 <= ScanEntries
  BY CapacityAssumption
<1>3. IsFiniteSet({}) /\ Cardinality({}) = 0
  BY FS_EmptySet
<1>4. kept \in Inventory
  <2>1. kept = [count |-> kept.count, bytes |-> kept.bytes, intent |-> kept.intent, other |-> kept.other,
                blobs |-> kept.blobs, barrier |-> kept.barrier]
    BY DEF CapacityInit
  <2>2. /\ kept.count \in Nat /\ kept.bytes \in Nat /\ kept.intent \in Nat /\ kept.other \in Nat
        /\ kept.blobs \in SUBSET Blobs
    BY <1>1, <1>2
  <2>3. kept.barrier \in BOOLEAN
    BY <1>1, Zenon
  <2> QED BY <2>1, <2>2, <2>3 DEF Inventory
<1>5. Sound(kept) /\ Evidence(kept) = 0
  BY <1>1, <1>3, <1>4 DEF Sound, Evidence
<1>6. Check(Measure(kept, 0))
  BY <1>1, <1>2, <1>5, CheckedMeasure
<1> QED BY <1>1, <1>5, <1>6 DEF CapacityInit, CapacityInv

\* Every step of a publication, its interruption and its redo preserves it.
LEMMA CapacityStep == CapacityInv /\ [CapacityNext]_capacityVars => CapacityInv'
<1> SUFFICES ASSUME CapacityInv, [CapacityNext]_capacityVars
             PROVE  CapacityInv'
  OBVIOUS
<1>1. ASSUME NEW p \in Shapes \cup UnpauseShapes, Admit(p)
      PROVE  CapacityInv'
  <2>1. p \in PlanShape
    BY CapacityAssumption, UnpauseIsPlan
  <2>2. /\ PrefixAdmitted(kept, p) /\ PrefixAdmitted(WithBlob(kept, p), p)
        /\ Committable(WithReceipt(WithBlob(kept, p), p), p, Posts(p))
    BY <1>1, <2>1, AdmittedIsCommittable DEF Admit, CapacityInv
  <2> QED BY <1>1, <2>1, <2>2 DEF Admit, CapacityInv
<1>2. CASE LinkBlob
  <2>1. Sound(WithBlob(kept, plan))
    BY <1>2, LinkedInventory DEF LinkBlob, CapacityInv
  <2> QED BY <1>2, <2>1 DEF LinkBlob, CapacityInv
<1>3. CASE LinkReceipt
  <2>1. Sound(WithReceipt(kept, plan))
    BY <1>3, LinkedInventory DEF LinkReceipt, CapacityInv
  <2> QED BY <1>3, <2>1 DEF LinkReceipt, CapacityInv
<1>4. ASSUME NEW post \in left, PublishPost(post)
      PROVE  CapacityInv'
  <2>1. PICK new : new = WithPost(kept, plan, post)
    OBVIOUS
  <2>2. Sound(new) /\ Committable(new, plan, left \ {post})
    BY <1>4, <2>1, PublishKeepsRoom DEF PublishPost, CapacityInv
  <2> QED BY <1>4, <2>1, <2>2 DEF PublishPost, CapacityInv
<1>5. CASE Finish
  <2>1. Check(Measure(kept, Names(plan))) /\ (kept.barrier => UnpausePeak(kept))
    BY <1>5, CommittableNow DEF Finish, CapacityInv
  <2> QED BY <1>5, <2>1 DEF Finish, CapacityInv
<1>6. CASE Clean
  <2>1. Check(Measure(kept, 0))
    BY <1>6, NamesAreCounted, FewerNames DEF Clean, CapacityInv
  <2> QED BY <1>6, <2>1 DEF Clean, CapacityInv
<1>7. CASE Interrupt
  BY <1>7 DEF Interrupt, CapacityInv, PrefixAdmitted
<1>8. CASE Resume
  BY <1>8 DEF Resume, CapacityInv
<1>9. CASE UNCHANGED capacityVars
  BY <1>9 DEF capacityVars, CapacityInv
<1> QED BY <1>1, <1>2, <1>3, <1>4, <1>5, <1>6, <1>7, <1>8, <1>9 DEF CapacityNext

\* The accounting invariant, of every behaviour.
THEOREM CapacityAccounted == CapacitySpec => []CapacityInv
BY CapacityInitial, CapacityStep, PTL DEF CapacitySpec

-----------------------------------------------------------------------------
(* The rules. *)

\* No order of publication and no crash in it takes the store past a hard limit:
\* what checkCapacity measures growth first bounds every other order.
THEOREM LimitsHold == CapacitySpec => []NeverBeyondLimits
<1>1. CapacityInv => NeverBeyondLimits
  <2> SUFFICES ASSUME CapacityInv PROVE NeverBeyondLimits
    OBVIOUS
  <2>1. CASE stage = "idle"
    BY <2>1 DEF CapacityInv, NeverBeyondLimits
  <2>2. CASE stage # "idle"
    <3>1. plan \in PlanShape /\ Sound(kept)
      BY <2>2 DEF CapacityInv
    <3>2. stage \in {"committed", "pending"} => Check(Measure(kept, Names(plan)))
      <4>1. stage \in {"committed", "pending"} => left \in SUBSET AllPosts /\ Committable(kept, plan, left)
        BY <3>1, PostsOfPlan DEF CapacityInv
      <4> QED BY <3>1, <4>1, CommittableNow
    <3>3. Check(Measure(kept, Names(plan)))
      BY <2>2, <3>2 DEF CapacityInv, PrefixAdmitted
    <3>4. Check(Measure(kept, 0))
      BY <3>1, <3>3, NamesAreCounted, FewerNames
    <3> QED BY <3>3, <3>4 DEF NeverBeyondLimits
  <2> QED BY <2>1, <2>2
<1> QED BY <1>1, CapacityAccounted, PTL

\* Whatever was admitted, published or abandoned, a paused store admits every UNPAUSE.
THEOREM UnpauseIsAdmitted == CapacitySpec => []PausedCanUnpause
<1>1. CapacityInv => PausedCanUnpause
  BY UnpauseAdmitted DEF CapacityInv, PausedCanUnpause
<1> QED BY <1>1, CapacityAccounted, PTL

\* RedoCapacity passes wherever the crash came, and AbortCapacity in a paused store.
THEOREM RecoveryIsAdmitted == CapacitySpec => []RecoveryNeverRefused
<1>1. CapacityInv => RecoveryNeverRefused
  <2> SUFFICES ASSUME CapacityInv PROVE RecoveryNeverRefused
    OBVIOUS
  <2>1. ASSUME stage = "pending"
        PROVE  RedoCapacity(kept, plan, left)
    <3> DEFINE f == Prefixes(kept, plan, TargetOrder, left)
    <3>1. /\ Sound(kept) /\ plan \in PlanShape /\ left \in SUBSET AllPosts
          /\ Committable(kept, plan, left) /\ TargetOrder \in {TargetOrder, GrowthFirst}
      BY <2>1, PostsOfPlan DEF CapacityInv
    <3>2. /\ DOMAIN f = 0..5 /\ After(f[5], kept, plan, left)
          /\ \A n \in 0..5 : Check(Measure(f[n], Names(plan)))
      BY <3>1, RoomForPrefixes DEF Committable
    <3> HIDE DEF f
    <3>3. f[5].barrier => UnpausePeak(f[5])
      BY <3>1, <3>2, ReserveForUnpause
    <3> QED BY <3>2, <3>3 DEF RedoCapacity, f
  <2>2. ASSUME stage \in {"prepared", "linked"}, kept.barrier
        PROVE  AbortCapacity(kept, plan)
    BY <2>2 DEF CapacityInv, AbortCapacity, PrefixAdmitted
  <2> QED BY <2>1, <2>2 DEF RecoveryNeverRefused
<1> QED BY <1>1, CapacityAccounted, PTL

-----------------------------------------------------------------------------
\* The store is of its type and counts at least its genesis receipt; a plan is
\* there exactly while one is under way.
THEOREM CapacityTypeCorrect ==
  ASSUME NoPlan \notin PlanShape
  PROVE  CapacitySpec => []CapacityTypeOK
<1> DEFINE Genesis == kept.count # 0
<1>1. CapacityInit => Genesis
  BY DEF CapacityInit
<1>2. CapacityInv /\ Genesis /\ [CapacityNext]_capacityVars => Genesis'
  <2> SUFFICES ASSUME CapacityInv, Genesis, [CapacityNext]_capacityVars
               PROVE  Genesis'
    OBVIOUS
  <2>1. CASE LinkBlob \/ LinkReceipt
    <3>1. Sound(kept) /\ plan \in PlanShape /\ kept.count \in Nat
      BY <2>1 DEF CapacityInv, LinkBlob, LinkReceipt, Sound, Inventory
    <3>2. WithReceipt(kept, plan).count = kept.count + 1
      BY <3>1, LinkedInventory
    <3>3. WithBlob(kept, plan).count = kept.count
      BY <3>1 DEF WithBlob, Sound, Inventory
    <3> QED BY <2>1, <3>1, <3>2, <3>3 DEF LinkBlob, LinkReceipt
  <2>2. ASSUME NEW post \in left, PublishPost(post)
        PROVE  Genesis'
    <3>1. Sound(kept) /\ plan \in PlanShape /\ post \in AllPosts
      BY <2>2, PostsOfPlan DEF CapacityInv, PublishPost
    <3>2. WithPost(kept, plan, post).count = kept.count
      BY <3>1, PostedInventory
    <3> QED BY <2>2, <3>2 DEF PublishPost
  <2>3. CASE (\E p \in Shapes \cup UnpauseShapes : Admit(p)) \/ Finish \/ Clean \/ Interrupt \/ Resume
             \/ UNCHANGED capacityVars
    <3>1. kept' = kept
      BY <2>3 DEF Admit, Finish, Clean, Interrupt, Resume, capacityVars
    <3> QED BY <3>1
  <2> QED BY <2>1, <2>2, <2>3 DEF CapacityNext
<1>3. CapacityInv /\ Genesis /\ NeverBeyondLimits => CapacityTypeOK
  <2> SUFFICES ASSUME CapacityInv, Genesis, NeverBeyondLimits
               PROVE  CapacityTypeOK
    OBVIOUS
  <2>1. kept.count \in Nat /\ kept.blobs \subseteq Blobs /\ kept.barrier \in BOOLEAN
    BY DEF CapacityInv, Sound, Inventory
  <2>2. kept.count <= JournalCount /\ JournalCount \in Nat
    BY CapacityAssumption DEF NeverBeyondLimits, Check, Measure
  <2>3. kept.count \in 1..JournalCount
    BY <2>1, <2>2
  <2>4. stage = "idle" <=> plan = NoPlan
    BY DEF CapacityInv
  <2>5. stage \in {"idle", "prepared", "linked", "committed", "cleaning", "pending"}
    BY DEF CapacityInv
  <2> QED BY <2>1, <2>3, <2>4, <2>5 DEF CapacityTypeOK
<1> HIDE DEF Genesis
<1> QED BY <1>1, <1>2, <1>3, CapacityAccounted, LimitsHold, PTL DEF CapacitySpec

=============================================================================
